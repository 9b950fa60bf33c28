-------------------------- MODULE RecordLockProofs --------------------------
(***************************************************************************)
(* Record locking, for any processes, file size and table of records.      *)
(*                                                                         *)
(* The deadlock detection of os/flock.c keeps local processes from waiting *)
(* for each other in a circle.  That invariant is inductive with nothing   *)
(* but the shape of sleeplcks added.  Only a process that goes to sleep    *)
(* adds an edge to the relation "waits for"; if it closed a circle S, the  *)
(* owners of S that deadflck() met before would have been a smaller circle *)
(* already.                                                                *)
(*                                                                         *)
(* flckadj() is proved by an invariant of its loop (Loop): the list is     *)
(* canonical after every turn, what lies before flp is clear of the        *)
(* request, the request has grown over bytes of its own type only, and     *)
(* nothing is missing but bytes of the request.  From that follow what a   *)
(* call does to the list (Adjusts), the invariant of the whole (LInv) with *)
(* the sleepers and the record count, and the refinement of FileLocks.     *)
(***************************************************************************)
EXTENDS RecordLock, SequenceTheorems, SumTheorems

(* sleeplcks lists entries for every owner.                                *)
Shape == sleeplcks = [p \in Owner |-> sleeplcks[p]]

IInv == Shape /\ NoWaitCycle

(* No request waits at first, and sleeplcks is empty.                      *)
THEOREM InitIInv == Init => IInv
<1>1. SUFFICES ASSUME Init PROVE IInv
  OBVIOUS
<1>2. Shape
  BY <1>1 DEF Init, Shape
<1>3. \A p \in Proc : WaitsFor(p) = {}
  BY <1>1 DEF Init, WaitsFor, Owner
<1>4. NoWaitCycle
  BY <1>3 DEF NoWaitCycle, Cycle
<1>. QED
  BY <1>2, <1>4 DEF IInv

-----------------------------------------------------------------------------
(* Where nobody waits for anyone new there is no new circle.               *)
LEMMA FewerEdges ==
  ASSUME NoWaitCycle, \A p \in Proc : WaitsFor(p)' \in {{}, WaitsFor(p)}
  PROVE  NoWaitCycle'
<1>1. SUFFICES ASSUME NEW S \in SUBSET Proc, Cycle(S)' PROVE FALSE
  BY DEF NoWaitCycle
<1>2. \A p \in S : WaitsFor(p)' = WaitsFor(p)
  BY <1>1 DEF Cycle
<1>3. Cycle(S)
  BY <1>1, <1>2 DEF Cycle
<1>. QED
  BY <1>1, <1>3 DEF NoWaitCycle

(* A call that returns takes the entry of its process with it.             *)
LEMMA ReturnKeeps ==
  ASSUME NEW p \in Proc, IInv, Return(p)
  PROVE  IInv'
<1>1. /\ Shape'
      /\ \A q \in Proc : sleeplcks'[q] = IF q = p THEN <<>> ELSE sleeplcks[q]
  BY DEF IInv, Shape, Return, Owner
<1>2. \A q \in Proc : WaitsFor(q)' \in {{}, WaitsFor(q)}
  BY <1>1 DEF WaitsFor
<1>. QED
  BY <1>1, <1>2, FewerEdges DEF IInv

(* A remote process changes no entry but its own.                          *)
LEMMA RemoteKeeps ==
  ASSUME NEW r \in Remote, NEW e, IInv, sleeplcks' = [sleeplcks EXCEPT ![r] = e]
  PROVE  IInv'
<1>1. /\ Shape'
      /\ \A q \in Proc : sleeplcks'[q] = sleeplcks[q]
  BY NotAProcess DEF IInv, Shape, Owner
<1>2. \A q \in Proc : WaitsFor(q)' = WaitsFor(q)
  BY <1>1 DEF WaitsFor
<1>. QED
  BY <1>1, <1>2, FewerEdges DEF IInv

(* Nor where sleeplcks does not change.                                    *)
LEMMA UnchangedKeeps ==
  ASSUME IInv, sleeplcks' = sleeplcks
  PROVE  IInv'
<1>1. Shape'
  BY DEF IInv, Shape
<1>2. \A q \in Proc : WaitsFor(q)' = WaitsFor(q)
  BY DEF WaitsFor
<1>. QED
  BY <1>1, <1>2, FewerEdges DEF IInv

(* The edge of a process that goes to sleep closes no circle, because      *)
(* deadflck() did not find the process itself.                             *)
LEMMA SleepKeeps ==
  ASSUME NEW p \in Proc, NEW ld, NEW cnt, IInv, Sleep(p, ld, cnt)
  PROVE  IInv'
<1>. DEFINE q == Found(ld).pid
<1>1. sleeplcks' = [sleeplcks EXCEPT ![p] = <<Entry(ld, q)>>]
  BY DEF Sleep
<1>2. /\ Shape'
      /\ \A x \in Proc \ {p} : sleeplcks'[x] = sleeplcks[x]
      /\ sleeplcks'[p] = <<Entry(ld, q)>>
  BY <1>1 DEF IInv, Shape, Owner
<1>3. \A x \in Proc \ {p} : WaitsFor(x)' = WaitsFor(x)
  BY <1>2 DEF WaitsFor
<1>4. WaitsFor(p)' = {q}
  <2>1. WaitsFor(p)' = {Head(<<Entry(ld, q)>>).blk}
    BY <1>2 DEF WaitsFor
  <2>2. Head(<<Entry(ld, q)>>) = Entry(ld, q)
    OBVIOUS
  <2>. QED
    BY <2>1, <2>2 DEF Entry
<1>5. p \notin Chain(q)
  BY DEF Sleep, deadflck
<1>6. PICK C \in SUBSET Owner :
        q \in C /\ (\A x \in C : WaitsFor(x) \subseteq C) /\ p \notin C
  BY <1>5 DEF Chain, Owner
<1>7. ASSUME NEW S \in SUBSET Proc, Cycle(S)' PROVE FALSE
  <2>1. CASE p \notin S
    <3>1. Cycle(S)
      BY <1>3, <1>7, <2>1 DEF Cycle
    <3>. QED
      BY <3>1 DEF IInv, NoWaitCycle
  <2>2. CASE p \in S
    <3>. DEFINE T == S \cap C
    <3>1. q \in T
      BY <1>4, <1>6, <1>7, <2>2 DEF Cycle
    <3>2. \A x \in T : WaitsFor(x) # {} /\ WaitsFor(x) \subseteq T
      BY <1>3, <1>6, <1>7 DEF Cycle
    <3>3. Cycle(T)
      BY <3>1, <3>2 DEF Cycle
    <3>. QED
      BY <3>3 DEF IInv, NoWaitCycle
  <2>. QED
    BY <2>1, <2>2
<1>. QED
  BY <1>2, <1>7 DEF IInv, NoWaitCycle

(* An attempt returns or goes to sleep.                                    *)
LEMMA AttemptKeeps ==
  ASSUME NEW p \in Proc, NEW ld, NEW cnt, IInv, Attempt(p, ld, cnt)
  PROVE  IInv'
<1>1. Return(p) \/ Sleep(p, ld, cnt)
  BY DEF Attempt
<1>. QED
  BY <1>1, ReturnKeeps, SleepKeeps

-----------------------------------------------------------------------------
(* Every step keeps the invariant.                                         *)
THEOREM NextIInv == IInv /\ [Next]_vars => IInv'
<1>1. SUFFICES ASSUME IInv, [Next]_vars PROVE IInv'
  OBVIOUS
<1>2. ASSUME NEW p \in Proc, reclock(p) PROVE IInv'
  BY <1>1, <1>2, AttemptKeeps DEF reclock
<1>3. ASSUME NEW p \in Proc, reclockAgain(p) PROVE IInv'
  BY <1>1, <1>3, AttemptKeeps DEF reclockAgain
<1>4. ASSUME NEW p \in Proc, reclockIntr(p) PROVE IInv'
  BY <1>1, <1>4, ReturnKeeps DEF reclockIntr
<1>5. ASSUME NEW p \in Proc, psignal(p) \/ unlock(p) \/ cleanlocks(p) PROVE IInv'
  BY <1>1, <1>5, UnchangedKeeps DEF psignal, unlock, cleanlocks
<1>6. ASSUME NEW r \in Remote, rreclock(r) PROVE IInv'
  <2>1. \/ sleeplcks' = sleeplcks
        \/ \E e : sleeplcks' = [sleeplcks EXCEPT ![r] = e]
    BY <1>6 DEF rreclock, Listed, Clean
  <2>. QED
    BY <1>1, <2>1, UnchangedKeeps, RemoteKeeps
<1>7. ASSUME NEW r \in Remote, runlock(r) PROVE IInv'
  <2>1. \E e : sleeplcks' = [sleeplcks EXCEPT ![r] = e]
    BY <1>7 DEF runlock, Clean
  <2>. QED
    BY <1>1, <2>1, RemoteKeeps
<1>8. CASE UNCHANGED vars
  BY <1>1, <1>8, UnchangedKeeps DEF vars
<1>. QED
  BY <1>1, <1>2, <1>3, <1>4, <1>5, <1>6, <1>7, <1>8 DEF Next

(* No local processes ever wait for each other in a circle.                *)
THEOREM DeadlockAvoided == Spec => []NoWaitCycle
<1>1. IInv => NoWaitCycle
  BY DEF IInv
<1>. QED
  BY InitIInv, NextIInv, <1>1, PTL DEF Spec

-----------------------------------------------------------------------------
(* The locks that FileLocks describes, byte by byte                        *)

(* No two owners ever hold locks that exclude each other: what reclock()   *)
(* promises its callers, and chklock() those who read and write.           *)
THEOREM LocksExclude == Locks!Spec => []Locks!NoConflict
<1>. DEFINE held == Held(v_filocks)
<1>1. Locks!Init => Locks!NoConflict
  BY DEF Locks!Init, Locks!NoConflict
<1>2. Locks!NoConflict /\ [Locks!Next]_held => Locks!NoConflict'
  <2>1. SUFFICES ASSUME Locks!NoConflict, [Locks!Next]_held PROVE Locks!NoConflict'
    OBVIOUS
  <2>2. ASSUME NEW o \in Owner, NEW r, Locks!Release(o, r) PROVE Locks!NoConflict'
    BY <2>1, <2>2 DEF Locks!Release, Locks!NoConflict
  <2>3. ASSUME NEW o \in Owner, NEW r, NEW t, Locks!Set(o, t, r) PROVE Locks!NoConflict'
    <3>. DEFINE new == {o} \X r \X {t}
    <3>1. \A x, y \in held : ~Locks!Excludes(x, y)
      BY <2>1 DEF Locks!NoConflict
    <3>2. \A x \in new, y \in held : ~Locks!Excludes(x, y) /\ ~Locks!Excludes(y, x)
      BY <2>3 DEF Locks!Set, Locks!Excludes
    <3>3. \A x, y \in new : ~Locks!Excludes(x, y)
      BY DEF Locks!Excludes
    <3>4. held' \subseteq held \cup new
      BY <2>3 DEF Locks!Set
    <3>. HIDE DEF held, new
    <3>5. \A x, y \in held' : ~Locks!Excludes(x, y)
      BY <3>1, <3>2, <3>3, <3>4
    <3>. QED
      BY <3>5 DEF Locks!NoConflict, held
  <2>4. CASE UNCHANGED held
    BY <2>1, <2>4 DEF Locks!NoConflict
  <2>. QED
    BY <2>1, <2>2, <2>3, <2>4 DEF Locks!Next
<1>. QED
  BY <1>1, <1>2, PTL DEF Locks!Spec

-----------------------------------------------------------------------------
(* The lock list, and the functions of flckadj()                           *)

LockType == {"F_RDLCK", "F_WRLCK"}
LockRec == [pid : Owner, type : LockType, start : Int, end : Int, wakeflg : BOOLEAN]
Asked == [pid : Owner, type : LockType \cup {"F_UNLCK"}, start : Int, end : Int, set : BOOLEAN]
LoopState ==
  [list : Seq(LockRec), reccnt : Int, ld : Asked, insrtp : Nat, flp : Nat, mem : Int,
   woken : SUBSET (Owner \X Int), ret : {"", "0", "ENOLCK"}]

(* m is l without its element i.                                           *)
Taken(S, l, i, m) ==
  /\ m \in Seq(S)
  /\ Len(m) = Len(l) - 1
  /\ \A k \in 1 .. Len(l) - 1 : m[k] = IF k < i THEN l[k] ELSE l[k + 1]

(* What RemoveAt() and InsertAt() leave where.                             *)
LEMMA TakenIs ==
  ASSUME NEW S, NEW l \in Seq(S), NEW i \in 1 .. Len(l), NEW m, m = RemoveAt(l, i)
  PROVE  Taken(S, l, i, m)
<1>1. i \in Nat /\ Len(l) \in Nat /\ 1 <= i /\ i <= Len(l)
  OBVIOUS
<1>2. PICK a : a = SubSeq(l, 1, i - 1)
  OBVIOUS
<1>3. PICK b : b = SubSeq(l, i + 1, Len(l))
  OBVIOUS
<1>4. a \in Seq(S) /\ Len(a) = i - 1 /\ \A k \in 1 .. i - 1 : a[k] = l[k]
  BY <1>1, <1>2
<1>5. b \in Seq(S) /\ Len(b) = Len(l) - i /\ \A k \in 1 .. Len(l) - i : b[k] = l[k + i]
  BY <1>1, <1>3
<1>6. PICK c : c = a \o b
  OBVIOUS
<1>7. /\ c \in Seq(S) /\ Len(c) = Len(l) - 1
      /\ \A k \in 1 .. Len(l) - 1 : c[k] = IF k < i THEN a[k] ELSE b[k - (i - 1)]
  <2>1. c \in Seq(S) /\ Len(c) = Len(a) + Len(b)
        /\ \A k \in 1 .. Len(a) + Len(b) : c[k] = IF k <= Len(a) THEN a[k] ELSE b[k - Len(a)]
    BY <1>4, <1>5, <1>6, ConcatProperties
  <2>2. Len(a) + Len(b) = Len(l) - 1 /\ \A k \in 1 .. Len(l) - 1 : k <= Len(a) <=> k < i
    BY <1>1, <1>4, <1>5
  <2> QED
    BY <1>4, <2>1, <2>2
<1>8. \A k \in 1 .. Len(l) - 1 : c[k] = IF k < i THEN l[k] ELSE l[k + 1]
  <2> TAKE k \in 1 .. Len(l) - 1
  <2>1. CASE k < i
    BY <1>1, <1>4, <1>7, <2>1
  <2>2. CASE ~(k < i)
    <3>1. k - (i - 1) \in 1 .. Len(l) - i /\ k - (i - 1) + i = k + 1
      BY <1>1, <2>2
    <3> QED
      BY <1>5, <1>7, <2>2, <3>1
  <2> QED
    BY <2>1, <2>2
<1>9. m = c
  BY ONLY <1>2, <1>3, <1>6, m = RemoveAt(l, i) DEF RemoveAt
<1> QED
  BY ONLY <1>7, <1>8, <1>9 DEF Taken

(* m is l with x in place i.                                               *)
Placed(S, l, i, x, m) ==
  /\ m \in Seq(S)
  /\ Len(m) = Len(l) + 1
  /\ \A k \in 1 .. Len(l) + 1 : m[k] = IF k < i THEN l[k] ELSE IF k = i THEN x ELSE l[k - 1]

(* All from place i on moves up.                                           *)
LEMMA PlacedIs ==
  ASSUME NEW S, NEW l \in Seq(S), NEW i \in 1 .. Len(l) + 1, NEW x \in S,
         NEW m, m = InsertAt(l, i, x)
  PROVE  Placed(S, l, i, x, m)
<1>1. i \in Nat /\ Len(l) \in Nat /\ 1 <= i /\ i <= Len(l) + 1
  OBVIOUS
<1>2. PICK a : a = SubSeq(l, 1, i - 1)
  OBVIOUS
<1>3. PICK b : b = SubSeq(l, i, Len(l))
  OBVIOUS
<1>4. a \in Seq(S) /\ Len(a) = i - 1 /\ \A k \in 1 .. i - 1 : a[k] = l[k]
  BY <1>1, <1>2
<1>5. /\ b \in Seq(S) /\ Len(b) = Len(l) - i + 1
      /\ \A k \in 1 .. Len(l) - i + 1 : b[k] = l[k + i - 1]
  BY <1>1, <1>3
<1>6. PICK c : c = a \o <<x>> \o b
  OBVIOUS
<1>7. PICK d : d = a \o <<x>>
  OBVIOUS
<1>8. d \in Seq(S) /\ Len(d) = i /\ \A k \in 1 .. i : d[k] = IF k < i THEN a[k] ELSE x
  BY <1>1, <1>4, <1>7
<1>9. /\ c \in Seq(S) /\ Len(c) = Len(l) + 1
      /\ \A k \in 1 .. Len(l) + 1 : c[k] = IF k <= i THEN d[k] ELSE b[k - i]
  <2>1. c = d \o b
    BY <1>6, <1>7
  <2>2. c \in Seq(S) /\ Len(c) = Len(d) + Len(b)
        /\ \A k \in 1 .. Len(d) + Len(b) : c[k] = IF k <= Len(d) THEN d[k] ELSE b[k - Len(d)]
    BY <1>5, <1>8, <2>1, ConcatProperties
  <2>3. Len(d) + Len(b) = Len(l) + 1
    BY <1>1, <1>5, <1>8
  <2> QED
    BY <1>8, <2>2, <2>3
<1>10. \A k \in 1 .. Len(l) + 1 : c[k] = IF k < i THEN l[k] ELSE IF k = i THEN x ELSE l[k - 1]
  <2> TAKE k \in 1 .. Len(l) + 1
  <2>1. CASE k <= i
    BY <1>1, <1>4, <1>8, <1>9, <2>1
  <2>2. CASE ~(k <= i)
    <3>1. k - i \in 1 .. Len(l) - i + 1 /\ k - i + i - 1 = k - 1
      BY <1>1, <2>2
    <3> QED
      BY <1>5, <1>9, <2>2, <3>1
  <2> QED
    BY <2>1, <2>2
<1>11. m = c
  BY ONLY <1>2, <1>3, <1>6, m = InsertAt(l, i, x) DEF InsertAt
<1> QED
  BY ONLY <1>9, <1>10, <1>11 DEF Placed

(* The greatest and the least of a set of numbers.                         *)
LEMMA MaxIs ==
  ASSUME NEW a \in Nat, NEW b \in Nat, NEW S, S \subseteq a .. b, S # {}
  PROVE  Max(S) \in S /\ \A x \in S : x <= Max(S)
<1>1. PICK B : B = {b - x : x \in S}
  OBVIOUS
<1>2. B \subseteq Nat /\ B # {}
  <2>1. \A x \in S : b - x \in Nat
    <3> TAKE x \in S
    <3>1. x \in a .. b
      OBVIOUS
    <3> QED
      BY <3>1
  <2> QED
    BY <1>1, <2>1
<1>3. PICK n \in B : \A m \in 0 .. n - 1 : m \notin B
  BY <1>2, NatMin
<1>4. PICK y \in S : n = b - y
  BY <1>1
<1>5. \A x \in S : x <= y
  <2> SUFFICES ASSUME NEW x \in S, ~(x <= y) PROVE FALSE
    OBVIOUS
  <2>1. b - x \in B /\ b - x \in 0 .. n - 1
    BY <1>1, <1>4
  <2> QED
    BY <1>3, <2>1
<1>6. \A x \in S : y >= x
  BY <1>5
<1> QED
  BY <1>5, <1>6 DEF Max

(* A set of naturals need not be finite to have a least.                   *)
LEMMA MinIs ==
  ASSUME NEW S, S \subseteq Nat, S # {}
  PROVE  Min(S) \in S /\ \A x \in S : Min(S) <= x
<1>1. PICK n \in S : \A m \in 0 .. n - 1 : m \notin S
  BY NatMin
<1>2. \A x \in S : n <= x
  BY <1>1
<1> QED
  BY <1>2 DEF Min

(* The place that insflck() looks for from lock i on: all up to there      *)
(* begin before byte b, and the next one does not.                         *)
LEMMA AfterIs ==
  ASSUME NEW l \in Seq(LockRec), NEW i \in 1 .. Len(l), NEW b \in Int
  PROVE  /\ After(l, i, b) \in i .. Len(l)
         /\ \A k \in i .. After(l, i, b) : k = i \/ l[k].start < b
         /\ After(l, i, b) < Len(l) => l[After(l, i, b) + 1].start >= b \/ l[i].start >= b
<1>1. i \in Nat /\ Len(l) \in Nat /\ 1 <= i /\ i <= Len(l)
  OBVIOUS
<1>2. PICK T : T = {j \in i .. Len(l) : \A k \in i .. j : l[k].start < b}
  OBVIOUS
<1>3. PICK a : a = After(l, i, b)
  OBVIOUS
<1>4. a = Max({i} \cup T)
  BY <1>1, <1>2, <1>3 DEF After
<1>5. {i} \cup T \subseteq i .. Len(l) /\ {i} \cup T # {}
  BY <1>1, <1>2
<1>6. a \in {i} \cup T /\ \A x \in {i} \cup T : x <= a
  BY <1>1, <1>4, <1>5, MaxIs
<1>7. a \in i .. Len(l)
  BY <1>5, <1>6
<1>8. \A k \in i .. a : k = i \/ l[k].start < b
  BY <1>1, <1>2, <1>6
<1>9. ASSUME a < Len(l), l[i].start < b PROVE l[a + 1].start >= b
  <2>1. \A k \in i .. a : l[k].start < b
    BY <1>8, <1>9
  <2>2. a + 1 \in i .. Len(l) /\ a + 1 \notin T
    BY <1>1, <1>6, <1>7, <1>9
  <2>3. ~ (l[a + 1].start < b)
    BY <1>1, <1>2, <1>7, <2>1, <2>2
  <2>4. l[a + 1] \in LockRec
    BY <1>1, <2>2
  <2> QED
    BY <2>3, <2>4 DEF LockRec
<1>10. l[i].start \in Int
  <2>1. l[i] \in LockRec
    OBVIOUS
  <2> QED
    BY ONLY <2>1 DEF LockRec
<1>11. a < Len(l) => (l[a + 1].start >= b \/ l[i].start >= b)
  <2>1. CASE l[i].start < b
    BY ONLY <1>9, <2>1
  <2>2. CASE ~ (l[i].start < b)
    BY ONLY <1>10, <2>2, b \in Int
  <2> QED
    BY ONLY <2>1, <2>2
<1> QED
  BY ONLY <1>3, <1>7, <1>8, <1>11

(* regflck() by where the request lies.                                    *)
LEMMA RegIs ==
  ASSUME NEW ld \in Asked, NEW f \in LockRec, f.start <= f.end, ld.start <= ld.end
  PROVE  /\ ld.start = f.end + 1 => regflck(ld, f) = <<"S_END", "E_AFTER">>
         /\ ld.start > f.end + 1 => regflck(ld, f) = <<"S_AFTER", "E_AFTER">>
         /\ ld.start <= f.end =>
              regflck(ld, f) =
                << IF ld.start > f.start THEN "S_MIDDLE"
                   ELSE IF ld.start = f.start THEN "S_START" ELSE "S_BEFORE",
                   IF ld.end < f.end
                     THEN IF ld.end = f.start - 1 THEN "E_START"
                          ELSE IF ld.end < f.start THEN "E_BEFORE" ELSE "E_MIDDLE"
                     ELSE IF ld.end = f.end THEN "E_END" ELSE "E_AFTER" >>
<1>1. {ld.start, ld.end, f.start, f.end} \subseteq Int
  BY DEF Asked, LockRec
<1> QED
  BY <1>1 DEF regflck

Begins(ld, f) ==
  IF f.start < ld.start THEN "S_MIDDLE" ELSE IF f.start = ld.start THEN "S_START" ELSE "S_BEFORE"

(* What a turn does about the lock f of the caller, by where they lie.     *)
Outcome(s, ld, f, same, t) ==
  \/ ld.end < f.start /\ (same => ld.end + 1 < f.start) /\ t = Stop(s)
  \/ same /\ ld.start < f.start /\ f.start <= ld.end + 1 /\ ld.end < f.end /\ t = Stop(MergeEnd(s))
  \/ same /\ f.start <= ld.start /\ ld.end <= f.end /\ t = [s EXCEPT !.ret = "0"]
  \/ ld.start = f.start /\ f.end <= ld.end /\ (same => f.end < ld.end) /\ t = Delete(Prev(s))
  \/ ld.start < f.start /\ f.end <= ld.end /\ (same => f.end < ld.end) /\ t = Delete(s)
  \/ same /\ ld.start < f.start /\ f.end = ld.end /\ t = Stop(Delete(s))
  \/ ~same /\ f.start <= ld.end /\ ld.end < f.end /\ t = Carve(s, Begins(ld, f))
  \/ ~same /\ f.start < ld.start /\ ld.start <= f.end /\ f.end <= ld.end /\ t = Skip(Shrink(s))
  \/ same /\ f.start < ld.start /\ ld.start <= f.end + 1 /\ f.end < ld.end /\ t = MergeStart(s)
  \/ ~same /\ ld.start = f.end + 1 /\ t = Skip(s)
  \/ f.end + 1 < ld.start /\ t = Skip([s EXCEPT !.insrtp = s.flp])

(* The cases of the switch of flckadj() are these, and there is one for    *)
(* every lock of the caller.                                               *)
LEMMA Outcomes ==
  ASSUME NEW s \in LoopState, NEW f, f = s.list[s.flp], f \in LockRec,
         f.start <= f.end, s.ld.start <= s.ld.end
  PROVE  \/ f.pid # s.ld.pid /\ AdjustOne(s) = Skip(s)
         \/ f.pid = s.ld.pid /\ Outcome(s, s.ld, f, s.ld.type = f.type, AdjustOne(s))
<1>1. CASE f.pid # s.ld.pid
  BY <1>1 DEF AdjustOne
<1>2. CASE f.pid = s.ld.pid
  <2>0. PICK ld : ld = s.ld
    OBVIOUS
  <2>1. ld \in Asked /\ {ld.start, ld.end, f.start, f.end} \subseteq Int /\ ld.start <= ld.end
    BY <2>0 DEF LoopState, Asked, LockRec
  <2>2. PICK reg : reg = regflck(ld, f)
    OBVIOUS
  <2>3. CASE ld.start > f.end + 1
    <3>1. reg = <<"S_AFTER", "E_AFTER">>
      BY <2>1, <2>2, <2>3, RegIs
    <3>2. AdjustOne(s) = Skip([s EXCEPT !.insrtp = s.flp])
      BY <1>2, <2>0, <2>2, <3>1 DEF AdjustOne, Spans
    <3> QED
      BY <1>2, <2>0, <2>1, <2>3, <3>2 DEF Outcome
  <2>4. CASE ld.start = f.end + 1
    <3>1. reg = <<"S_END", "E_AFTER">>
      BY <2>1, <2>2, <2>4, RegIs
    <3>2. AdjustOne(s) = IF ld.type = f.type THEN MergeStart(s) ELSE Skip(s)
      BY <1>2, <2>0, <2>2, <3>1 DEF AdjustOne, Spans
    <3> QED
      BY <1>2, <2>0, <2>1, <2>4, <3>2 DEF Outcome
  <2>5. CASE ld.start <= f.end
    <3>1. CASE ld.start > f.start
      <4>1. CASE ld.end < f.end
        <5>1. reg = <<"S_MIDDLE", "E_MIDDLE">>
          BY <2>1, <2>2, <2>5, <3>1, <4>1, RegIs
        <5>2. AdjustOne(s) = IF ld.type = f.type THEN [s EXCEPT !.ret = "0"] ELSE Carve(s, "S_MIDDLE")
          BY <1>2, <2>0, <2>2, <5>1 DEF AdjustOne, Spans
        <5> QED
          BY <1>2, <2>0, <2>1, <3>1, <4>1, <5>2 DEF Outcome, Begins
      <4>2. CASE ld.end = f.end
        <5>1. reg = <<"S_MIDDLE", "E_END">>
          BY <2>1, <2>2, <2>5, <3>1, <4>2, RegIs
        <5>2. AdjustOne(s) = IF ld.type = f.type THEN [s EXCEPT !.ret = "0"] ELSE Skip(Shrink(s))
          BY <1>2, <2>0, <2>2, <5>1 DEF AdjustOne, Spans
        <5> QED
          BY <1>2, <2>0, <2>1, <2>5, <3>1, <4>2, <5>2 DEF Outcome
      <4>3. CASE ld.end > f.end
        <5>1. reg = <<"S_MIDDLE", "E_AFTER">>
          BY <2>1, <2>2, <2>5, <3>1, <4>3, RegIs
        <5>2. AdjustOne(s) = IF ld.type = f.type THEN MergeStart(s) ELSE Skip(Shrink(s))
          BY <1>2, <2>0, <2>2, <5>1 DEF AdjustOne, Spans
        <5> QED
          BY <1>2, <2>0, <2>1, <2>5, <3>1, <4>3, <5>2 DEF Outcome
      <4> QED
        BY <2>1, <4>1, <4>2, <4>3
    <3>2. CASE ld.start = f.start
      <4>1. CASE ld.end < f.end
        <5>1. reg = <<"S_START", "E_MIDDLE">>
          BY <2>1, <2>2, <2>5, <3>2, <4>1, RegIs
        <5>2. AdjustOne(s) = IF ld.type = f.type THEN [s EXCEPT !.ret = "0"] ELSE Carve(s, "S_START")
          BY <1>2, <2>0, <2>2, <5>1 DEF AdjustOne, Spans
        <5> QED
          BY <1>2, <2>0, <2>1, <3>2, <4>1, <5>2 DEF Outcome, Begins
      <4>2. CASE ld.end = f.end
        <5>1. reg = <<"S_START", "E_END">>
          BY <2>1, <2>2, <2>5, <3>2, <4>2, RegIs
        <5>2. AdjustOne(s) = IF ld.type = f.type THEN [s EXCEPT !.ret = "0"] ELSE Delete(Prev(s))
          BY <1>2, <2>0, <2>2, <5>1 DEF AdjustOne, Spans
        <5> QED
          BY <1>2, <2>0, <2>1, <2>5, <3>2, <4>2, <5>2 DEF Outcome
      <4>3. CASE ld.end > f.end
        <5>1. reg = <<"S_START", "E_AFTER">>
          BY <2>1, <2>2, <2>5, <3>2, <4>3, RegIs
        <5>2. AdjustOne(s) = Delete(Prev(s))
          BY <1>2, <2>0, <2>2, <5>1 DEF AdjustOne, Spans
        <5> QED
          BY <1>2, <2>0, <2>1, <2>5, <3>2, <4>3, <5>2 DEF Outcome
      <4> QED
        BY <2>1, <4>1, <4>2, <4>3
    <3>3. CASE ld.start < f.start
      <4>1. CASE ld.end < f.start - 1
        <5>1. reg = <<"S_BEFORE", "E_BEFORE">>
          BY <2>1, <2>2, <2>5, <3>3, <4>1, RegIs
        <5>2. AdjustOne(s) = Stop(s)
          BY <1>2, <2>0, <2>2, <5>1 DEF AdjustOne, Spans
        <5> QED
          BY <1>2, <2>0, <2>1, <3>3, <4>1, <5>2 DEF Outcome
      <4>2. CASE ld.end = f.start - 1
        <5>1. reg = <<"S_BEFORE", "E_START">>
          BY <2>1, <2>2, <2>5, <3>3, <4>2, RegIs
        <5>2. AdjustOne(s) = Stop(IF ld.type = f.type THEN MergeEnd(s) ELSE s)
          BY <1>2, <2>0, <2>2, <5>1 DEF AdjustOne, Spans
        <5> QED
          BY <1>2, <2>0, <2>1, <3>3, <4>2, <5>2 DEF Outcome
      <4>3. CASE f.start <= ld.end /\ ld.end < f.end
        <5>1. reg = <<"S_BEFORE", "E_MIDDLE">>
          BY <2>1, <2>2, <2>5, <3>3, <4>3, RegIs
        <5>2. AdjustOne(s) = IF ld.type = f.type THEN Stop(MergeEnd(s)) ELSE Carve(s, "S_BEFORE")
          BY <1>2, <2>0, <2>2, <5>1 DEF AdjustOne, Spans
        <5> QED
          BY <1>2, <2>0, <2>1, <3>3, <4>3, <5>2 DEF Outcome, Begins
      <4>4. CASE ld.end = f.end
        <5>1. reg = <<"S_BEFORE", "E_END">>
          BY <2>1, <2>2, <2>5, <3>3, <4>4, RegIs
        <5>2. AdjustOne(s) = IF ld.type = f.type THEN Stop(Delete(s)) ELSE Delete(s)
          BY <1>2, <2>0, <2>2, <5>1 DEF AdjustOne, Spans
        <5> QED
          BY <1>2, <2>0, <2>1, <3>3, <4>4, <5>2 DEF Outcome
      <4>5. CASE ld.end > f.end
        <5>1. reg = <<"S_BEFORE", "E_AFTER">>
          BY <2>1, <2>2, <2>5, <3>3, <4>5, RegIs
        <5>2. AdjustOne(s) = Delete(s)
          BY <1>2, <2>0, <2>2, <5>1 DEF AdjustOne, Spans
        <5> QED
          BY <1>2, <2>0, <2>1, <3>3, <4>5, <5>2 DEF Outcome
      <4> QED
        BY <2>1, <4>1, <4>2, <4>3, <4>4, <4>5
    <3> QED
      BY <2>1, <3>1, <3>2, <3>3
  <2> QED
    BY <2>1, <2>3, <2>4, <2>5
<1> QED
  BY <1>1, <1>2

-----------------------------------------------------------------------------
(* What happens to the list                                                *)

Span(x) == x.start \in Byte /\ x.end \in Byte /\ x.start <= x.end
Good(l) == l \in Seq(LockRec) /\ \A k \in 1 .. Len(l) : Span(l[k])

(* Some lock on the list gives o a lock of type y on byte b.               *)
On(l, o, b, y) ==
  \E k \in 1 .. Len(l) : l[k].pid = o /\ l[k].start <= b /\ b <= l[k].end /\ l[k].type = y

(* m is l without what o has locked of the bytes from .. to.               *)
Less(l, m, o, from, to) ==
  \A p, b, y : b \in Int =>
    (On(m, p, b, y) <=> On(l, p, b, y) /\ ~(p = o /\ from <= b /\ b <= to))

(* The locks of m are those of l, except lock i.                           *)
Others(l, m, i) == \A k \in (1 .. Len(l)) \ {i} : \E j \in 1 .. Len(m) : m[j] = l[k]

(* The types of a lock on the list.                                        *)
LEMMA GoodElem ==
  ASSUME NEW l, Good(l), NEW k \in 1 .. Len(l)
  PROVE  /\ l[k] \in LockRec /\ l[k].start \in Nat /\ l[k].end \in Nat /\ l[k].start <= l[k].end
         /\ l[k].end <= LastByte /\ Len(l) \in Nat /\ LastByte \in Nat /\ l[k].pid \in Owner
         /\ l[k].type \in LockType
<1>1. l \in Seq(LockRec) /\ Span(l[k])
  BY DEF Good
<1>2. l[k] \in LockRec /\ Len(l) \in Nat
  BY <1>1
<1> QED
  BY <1>1, <1>2, SizeAssumption DEF Span, Byte, LockRec

(* Canonical, for two given locks.                                         *)
LEMMA CanonicalIs ==
  ASSUME NEW l, Good(l), Canonical(l), NEW i \in 1 .. Len(l), NEW j \in 1 .. Len(l)
  PROVE  /\ i <= j => l[i].start <= l[j].start
         /\ i < j /\ l[i].pid = l[j].pid =>
              l[i].end < l[j].start /\ (l[i].type = l[j].type => l[i].end + 1 < l[j].start)
<1>1. DOMAIN l = 1 .. Len(l) /\ l[i].start \in Nat
  BY GoodElem DEF Good
<1> QED
  BY <1>1 DEF Canonical

(* An owner has one lock at most on a byte.                                *)
LEMMA OneLock ==
  ASSUME NEW l, Good(l), Canonical(l), NEW i \in 1 .. Len(l), NEW j \in 1 .. Len(l),
         l[i].pid = l[j].pid, NEW b \in Int, l[i].start <= b, b <= l[i].end,
         l[j].start <= b, b <= l[j].end
  PROVE  i = j
<1>1. l[i].end \in Nat /\ l[j].end \in Nat /\ l[i].start \in Nat /\ l[j].start \in Nat
  BY GoodElem
<1>2. ~(i < j) /\ ~(j < i)
  BY <1>1, CanonicalIs
<1> QED
  BY <1>2

(* delflck() on the list: the bytes of the lock are free, all else is as   *)
(* before.                                                                 *)
LEMMA Deleted ==
  ASSUME NEW l, Good(l), Canonical(l), NEW i \in 1 .. Len(l), NEW m, m = RemoveAt(l, i)
  PROVE  /\ Good(m) /\ Canonical(m) /\ Others(l, m, i)
         /\ Less(l, m, l[i].pid, l[i].start, l[i].end)
         /\ Len(m) = Len(l) - 1
         /\ \A k \in 1 .. Len(l) - 1 : m[k] = IF k < i THEN l[k] ELSE l[k + 1]
<1>1. l \in Seq(LockRec) /\ Len(l) \in Nat
  BY DEF Good
<1>2. /\ m \in Seq(LockRec) /\ Len(m) = Len(l) - 1
      /\ \A k \in 1 .. Len(l) - 1 : m[k] = IF k < i THEN l[k] ELSE l[k + 1]
  <2>1. Taken(LockRec, l, i, m)
    BY ONLY <1>1, i \in 1 .. Len(l), m = RemoveAt(l, i), TakenIs
  <2> QED
    BY ONLY <2>1 DEF Taken
<1>3. Good(m)
  <2> SUFFICES ASSUME NEW k \in 1 .. Len(m) PROVE Span(m[k])
    BY <1>2 DEF Good
  <2>1. k \in 1 .. Len(l) /\ k + 1 \in 1 .. Len(l)
    BY <1>1, <1>2
  <2> QED
    BY <1>2, <2>1 DEF Good
<1>4. Canonical(m)
  <2> SUFFICES ASSUME NEW x \in 1 .. Len(m), NEW y \in 1 .. Len(m), x < y
               PROVE  /\ m[x].start <= m[y].start
                      /\ m[x].pid = m[y].pid =>
                           /\ m[x].end < m[y].start
                           /\ m[x].type = m[y].type => m[x].end + 1 < m[y].start
    BY <1>2 DEF Canonical
  <2>1. PICK u \in 1 .. Len(l) : m[x] = l[u] /\ (u = x \/ u = x + 1) /\ (u = x <=> x < i)
    <3>1. x \in 1 .. Len(l) /\ x + 1 \in 1 .. Len(l)
      BY <1>1, <1>2
    <3> QED
      BY <1>1, <1>2, <3>1
  <2>2. PICK v \in 1 .. Len(l) : m[y] = l[v] /\ (v = y \/ v = y + 1) /\ (v = y <=> y < i)
    <3>1. y \in 1 .. Len(l) /\ y + 1 \in 1 .. Len(l)
      BY <1>1, <1>2
    <3>2. y \in 1 .. Len(l) - 1 /\ y # y + 1
      BY <1>1, <1>2
    <3>3. m[y] = IF y < i THEN l[y] ELSE l[y + 1]
      BY <1>2, <3>2
    <3>4. CASE y < i
      BY <3>1, <3>3, <3>4
    <3>5. CASE ~(y < i)
      BY <3>1, <3>2, <3>3, <3>5
    <3> QED
      BY <3>4, <3>5
  <2>3. u < v
    BY <1>1, <1>2, <2>1, <2>2
  <2> QED
    BY <2>1, <2>2, <2>3, CanonicalIs
<1>5. \A k \in (1 .. Len(l)) \ {i} : \E j \in 1 .. Len(m) : m[j] = l[k]
  <2> TAKE k \in (1 .. Len(l)) \ {i}
  <2>1. CASE k < i
    BY <1>1, <1>2, <2>1
  <2>2. CASE k > i
    <3>1. k - 1 \in 1 .. Len(m) /\ ~(k - 1 < i) /\ k - 1 + 1 = k
      BY <1>1, <1>2, <2>2
    <3> QED
      BY <1>2, <3>1
  <2> QED
    BY <2>1, <2>2
<1>6. \A k \in 1 .. Len(m) : \E j \in (1 .. Len(l)) \ {i} : m[k] = l[j]
  <2> TAKE k \in 1 .. Len(m)
  <2>1. CASE k < i
    BY <1>1, <1>2, <2>1
  <2>2. CASE ~(k < i)
    <3>1. k + 1 \in (1 .. Len(l)) \ {i}
      BY <1>1, <1>2, <2>2
    <3> QED
      BY <1>1, <1>2, <2>2, <3>1
  <2> QED
    BY <2>1, <2>2
<1>7. Less(l, m, l[i].pid, l[i].start, l[i].end)
  <2> SUFFICES ASSUME NEW p, NEW b \in Int, NEW y
               PROVE  On(m, p, b, y) <=>
                        On(l, p, b, y) /\ ~(p = l[i].pid /\ l[i].start <= b /\ b <= l[i].end)
    BY DEF Less
  <2>1. ASSUME On(m, p, b, y)
        PROVE  On(l, p, b, y) /\ ~(p = l[i].pid /\ l[i].start <= b /\ b <= l[i].end)
    <3>1. PICK j \in (1 .. Len(l)) \ {i} :
            l[j].pid = p /\ l[j].start <= b /\ b <= l[j].end /\ l[j].type = y
      BY <1>6, <2>1 DEF On
    <3> QED
      BY <3>1, OneLock DEF On
  <2>2. ASSUME On(l, p, b, y), ~(p = l[i].pid /\ l[i].start <= b /\ b <= l[i].end)
        PROVE  On(m, p, b, y)
    <3>1. PICK j \in 1 .. Len(l) :
            l[j].pid = p /\ l[j].start <= b /\ b <= l[j].end /\ l[j].type = y
      BY <2>2 DEF On
    <3>2. j # i
      BY <2>2, <3>1
    <3> QED
      BY <1>5, <3>1, <3>2 DEF On
  <2> QED
    BY <2>1, <2>2
<1> QED
  BY <1>2, <1>3, <1>4, <1>5, <1>7 DEF Others

Shortened(l, i, e) == [l EXCEPT ![i] = [@ EXCEPT !.end = e, !.wakeflg = FALSE]]

(* A lock made shorter: the bytes after e are free.                        *)
LEMMA ShortenedIs ==
  ASSUME NEW l, Good(l), Canonical(l), NEW i \in 1 .. Len(l), NEW e \in Nat,
         l[i].start <= e, e <= l[i].end, NEW m, m = Shortened(l, i, e)
  PROVE  /\ Good(m) /\ Canonical(m) /\ Others(l, m, i)
         /\ Less(l, m, l[i].pid, e + 1, l[i].end)
         /\ Len(m) = Len(l)
         /\ m[i].pid = l[i].pid /\ m[i].type = l[i].type /\ m[i].start = l[i].start /\ m[i].end = e
         /\ \A k \in 1 .. Len(l) : k # i => m[k] = l[k]
<1>1. l \in Seq(LockRec) /\ Len(l) \in Nat /\ l[i] \in LockRec
  BY GoodElem DEF Good
<1>2. PICK f : f = [l[i] EXCEPT !.end = e, !.wakeflg = FALSE]
  OBVIOUS
<1>3. /\ f \in LockRec /\ f.pid = l[i].pid /\ f.type = l[i].type /\ f.start = l[i].start
      /\ f.end = e
  <2>1. PICK g \in LockRec : g = l[i]
    BY <1>1
  <2>2. e \in Int /\ f = [g EXCEPT !.end = e, !.wakeflg = FALSE]
    BY <1>2, <2>1
  <2>3. f \in LockRec /\ f.pid = g.pid /\ f.type = g.type /\ f.start = g.start /\ f.end = e
    BY <2>2 DEF LockRec
  <2> QED
    BY <2>1, <2>3
<1>4. m = [l EXCEPT ![i] = f]
  BY <1>2 DEF Shortened
<1>5. m \in Seq(LockRec) /\ Len(m) = Len(l) /\ m[i] = f /\ \A k \in 1 .. Len(l) : k # i => m[k] = l[k]
  BY <1>1, <1>3, <1>4
<1>6. Good(m)
  <2> SUFFICES ASSUME NEW k \in 1 .. Len(m) PROVE Span(m[k])
    BY <1>5 DEF Good
  <2>1. CASE k # i
    BY <1>5, <2>1 DEF Good
  <2>2. CASE k = i
    <3>1. l[i].start \in Nat /\ l[i].end <= LastByte /\ l[i].end \in Nat /\ LastByte \in Nat
      BY GoodElem
    <3> QED
      BY <1>3, <1>5, <2>2, <3>1 DEF Span, Byte
  <2> QED
    BY <2>1, <2>2
<1>7. \A k \in 1 .. Len(l) : /\ m[k].pid = l[k].pid /\ m[k].type = l[k].type
                             /\ m[k].start = l[k].start /\ m[k].end <= l[k].end
                             /\ m[k].end \in Nat /\ l[k].end \in Nat /\ l[k].start \in Nat
  <2> TAKE k \in 1 .. Len(l)
  <2>1. l[k].end \in Nat /\ l[k].start \in Nat
    BY GoodElem
  <2> QED
    BY <1>3, <1>5, <2>1
<1>8. Canonical(m)
  <2> SUFFICES ASSUME NEW x \in 1 .. Len(l), NEW y \in 1 .. Len(l), x < y
               PROVE  /\ m[x].start <= m[y].start
                      /\ m[x].pid = m[y].pid =>
                           /\ m[x].end < m[y].start
                           /\ m[x].type = m[y].type => m[x].end + 1 < m[y].start
    BY <1>5 DEF Canonical
  <2>1. /\ l[x].start <= l[y].start
        /\ l[x].pid = l[y].pid =>
             l[x].end < l[y].start /\ (l[x].type = l[y].type => l[x].end + 1 < l[y].start)
    BY CanonicalIs
  <2> QED
    BY <1>7, <2>1
<1>9. Less(l, m, l[i].pid, e + 1, l[i].end)
  <2> SUFFICES ASSUME NEW p, NEW b \in Int, NEW y
               PROVE  On(m, p, b, y) <=>
                        On(l, p, b, y) /\ ~(p = l[i].pid /\ e + 1 <= b /\ b <= l[i].end)
    BY DEF Less
  <2>1. ASSUME On(m, p, b, y)
        PROVE  On(l, p, b, y) /\ ~(p = l[i].pid /\ e + 1 <= b /\ b <= l[i].end)
    <3>1. PICK j \in 1 .. Len(l) :
            m[j].pid = p /\ m[j].start <= b /\ b <= m[j].end /\ m[j].type = y
      BY <1>5, <2>1 DEF On
    <3>2. l[j].pid = p /\ l[j].start <= b /\ b <= l[j].end /\ l[j].type = y
      BY <1>7, <3>1
    <3>3. ASSUME p = l[i].pid, e + 1 <= b, b <= l[i].end PROVE FALSE
      <4>1. l[i].start <= b
        BY <1>7, <3>3
      <4>2. j = i
        BY <3>2, <3>3, <4>1, OneLock
      <4> QED
        BY <1>3, <1>5, <3>1, <3>3, <4>2
    <3> QED
      BY <3>2, <3>3 DEF On
  <2>2. ASSUME On(l, p, b, y), ~(p = l[i].pid /\ e + 1 <= b /\ b <= l[i].end)
        PROVE  On(m, p, b, y)
    <3>1. PICK j \in 1 .. Len(l) :
            l[j].pid = p /\ l[j].start <= b /\ b <= l[j].end /\ l[j].type = y
      BY <2>2 DEF On
    <3>2. CASE j # i
      BY <1>5, <3>1, <3>2 DEF On
    <3>3. CASE j = i
      <4>1. b <= e
        BY <2>2, <3>1, <3>3
      <4> QED
        BY <1>3, <1>5, <3>1, <3>3, <4>1 DEF On
    <3> QED
      BY <3>2, <3>3
  <2> QED
    BY <2>1, <2>2
<1>10. Others(l, m, i)
  BY <1>5 DEF Others
<1> QED
  BY <1>3, <1>5, <1>6, <1>8, <1>9, <1>10

(* The lock f leaves x and its neighbours free.                            *)
Clear(f, x) ==
  f.pid = x.pid =>
    \/ f.end < x.start /\ (f.type = x.type => f.end + 1 < x.start)
    \/ x.end < f.start /\ (f.type = x.type => x.end + 1 < f.start)

(* The lock x may be put after lock a of l.                                *)
Slot(l, a, x) ==
  /\ Good(l) /\ Canonical(l) /\ x \in LockRec /\ Span(x) /\ a \in 0 .. Len(l)
  /\ \A k \in 1 .. Len(l) : Clear(l[k], x)
  /\ \A k \in 1 .. Len(l) : IF k <= a THEN l[k].start <= x.start ELSE x.start <= l[k].start

(* m is l with the bytes of x added.                                       *)
More(l, m, x) ==
  \A p, b, y :
    On(m, p, b, y) <=>
      On(l, p, b, y) \/ (p = x.pid /\ x.start <= b /\ b <= x.end /\ y = x.type)

(* insflck() in a place for the lock: its bytes are locked, all else is as *)
(* before.                                                                 *)
LEMMA Inserted ==
  ASSUME NEW l, NEW a, NEW x, Slot(l, a, x), NEW m, m = InsertAt(l, a + 1, x)
  PROVE  /\ Good(m) /\ Canonical(m) /\ Others(l, m, 0) /\ Len(m) = Len(l) + 1
         /\ \A k \in 1 .. Len(m) : m[k] = x \/ \E j \in 1 .. Len(l) : m[k] = l[j]
         /\ \A k \in 1 .. a : m[k] = l[k]
         /\ More(l, m, x)
<1>. /\ Good(l) /\ Canonical(l) /\ x \in LockRec /\ Span(x) /\ a \in 0 .. Len(l)
     /\ \A k \in 1 .. Len(l) : Clear(l[k], x)
     /\ \A k \in 1 .. Len(l) : IF k <= a THEN l[k].start <= x.start ELSE x.start <= l[k].start
  BY DEF Slot
<1>1. l \in Seq(LockRec) /\ Len(l) \in Nat /\ a \in Nat /\ a <= Len(l) /\ a + 1 \in 1 .. Len(l) + 1
  BY DEF Good
<1>2. /\ m \in Seq(LockRec) /\ Len(m) = Len(l) + 1
      /\ \A k \in 1 .. Len(l) + 1 :
           m[k] = IF k < a + 1 THEN l[k] ELSE IF k = a + 1 THEN x ELSE l[k - 1]
  <2>1. PICK i \in 1 .. Len(l) + 1 : i = a + 1
    BY <1>1
  <2>2. m = InsertAt(l, i, x)
    BY <2>1
  <2>3. Placed(LockRec, l, i, x, m)
    BY ONLY <1>1, <2>1, <2>2, x \in LockRec, PlacedIs
  <2> QED
    BY ONLY <2>1, <2>3 DEF Placed
<1>3. \A k \in 1 .. Len(m) : (k = a + 1 /\ m[k] = x) \/
        \E j \in 1 .. Len(l) : m[k] = l[j] /\ ((k <= a /\ j = k) \/ (k > a + 1 /\ j = k - 1))
  <2> TAKE k \in 1 .. Len(m)
  <2>1. CASE k <= a
    BY <1>1, <1>2, <2>1
  <2>2. CASE k = a + 1
    BY <1>1, <1>2, <2>2
  <2>3. CASE k > a + 1
    <3>1. k - 1 \in 1 .. Len(l) /\ m[k] = l[k - 1]
      BY <1>1, <1>2, <2>3
    <3> QED
      BY <2>3, <3>1
  <2> QED
    BY <1>1, <2>1, <2>2, <2>3
<1>4. \A j \in 1 .. Len(l) : \E k \in 1 .. Len(m) : m[k] = l[j]
  <2> TAKE j \in 1 .. Len(l)
  <2>1. CASE j <= a
    BY <1>1, <1>2, <2>1
  <2>2. CASE j > a
    <3>1. PICK k \in 1 .. Len(m) : k = j + 1
      BY <1>1, <1>2
    <3>2. k - 1 = j /\ ~(k < a + 1) /\ k # a + 1 /\ k \in 1 .. Len(l) + 1
      BY <1>1, <1>2, <2>2, <3>1
    <3>3. m[k] = l[k - 1]
      BY <1>2, <3>2
    <3> QED
      BY <3>2, <3>3
  <2> QED
    BY <1>1, <2>1, <2>2
<1>5. Good(m)
  BY <1>2, <1>3 DEF Good
<1>6. {x.start, x.end} \subseteq Nat /\ x.start <= x.end
  BY SizeAssumption DEF Span, Byte
<1>7. Canonical(m)
  <2> SUFFICES ASSUME NEW u \in 1 .. Len(m), NEW v \in 1 .. Len(m), u < v
               PROVE  /\ m[u].start <= m[v].start
                      /\ m[u].pid = m[v].pid =>
                           /\ m[u].end < m[v].start
                           /\ m[u].type = m[v].type => m[u].end + 1 < m[v].start
    <3>1. DOMAIN m = 1 .. Len(m)
      BY <1>2
    <3> QED
      BY <3>1 DEF Canonical
  <2>1. CASE u = a + 1
    <3>1. PICK j \in 1 .. Len(l) : m[v] = l[j] /\ v > a + 1 /\ j = v - 1
      BY <1>1, <1>2, <1>3, <2>1
    <3>2. x.start <= l[j].start /\ Clear(l[j], x)
      BY <1>1, <3>1
    <3>3. l[j].start \in Nat /\ l[j].end \in Nat /\ l[j].start <= l[j].end
      BY GoodElem
    <3>4. m[u] = x
      BY <1>1, <1>3, <2>1
    <3>5. x.pid = l[j].pid => x.end < l[j].start /\ (x.type = l[j].type => x.end + 1 < l[j].start)
      BY <1>6, <3>2, <3>3 DEF Clear
    <3> QED
      BY <3>1, <3>2, <3>4, <3>5
  <2>2. CASE v = a + 1
    <3>1. PICK j \in 1 .. Len(l) : m[u] = l[j] /\ j <= a
      BY <1>1, <1>2, <1>3, <2>2
    <3>2. l[j].start <= x.start /\ Clear(l[j], x)
      BY <1>1, <3>1
    <3>3. l[j].start \in Nat /\ l[j].end \in Nat /\ l[j].start <= l[j].end
      BY GoodElem
    <3>4. m[v] = x
      BY <1>1, <1>3, <2>2
    <3>5. l[j].pid = x.pid => l[j].end < x.start /\ (l[j].type = x.type => l[j].end + 1 < x.start)
      BY <1>6, <3>2, <3>3 DEF Clear
    <3> QED
      BY <3>1, <3>2, <3>4, <3>5
  <2>3. CASE u # a + 1 /\ v # a + 1
    <3>1. PICK i \in 1 .. Len(l) : m[u] = l[i] /\ ((u <= a /\ i = u) \/ (u > a + 1 /\ i = u - 1))
      BY <1>3, <2>3
    <3>2. PICK j \in 1 .. Len(l) : m[v] = l[j] /\ ((v <= a /\ j = v) \/ (v > a + 1 /\ j = v - 1))
      BY <1>3, <2>3
    <3>3. i < j
      BY <1>1, <1>2, <3>1, <3>2
    <3> QED
      BY <3>1, <3>2, <3>3, CanonicalIs
  <2> QED
    BY <2>1, <2>2, <2>3
<1>8. \A p, b, y : On(m, p, b, y) <=>
        On(l, p, b, y) \/ (p = x.pid /\ x.start <= b /\ b <= x.end /\ y = x.type)
  <2> TAKE p, b, y
  <2>1. m[a + 1] = x /\ a + 1 \in 1 .. Len(m)
    BY <1>1, <1>2
  <2>2. ASSUME On(m, p, b, y)
        PROVE  On(l, p, b, y) \/ (p = x.pid /\ x.start <= b /\ b <= x.end /\ y = x.type)
    <3>1. PICK k \in 1 .. Len(m) :
            m[k].pid = p /\ m[k].start <= b /\ b <= m[k].end /\ m[k].type = y
      BY <2>2 DEF On
    <3>2. m[k] = x \/ \E j \in 1 .. Len(l) : m[k] = l[j]
      BY <1>3
    <3> QED
      BY <3>1, <3>2 DEF On
  <2>3. ASSUME On(l, p, b, y) PROVE On(m, p, b, y)
    <3>1. PICK j \in 1 .. Len(l) :
            l[j].pid = p /\ l[j].start <= b /\ b <= l[j].end /\ l[j].type = y
      BY <2>3 DEF On
    <3> QED
      BY <1>4, <3>1 DEF On
  <2>4. ASSUME p = x.pid, x.start <= b, b <= x.end, y = x.type PROVE On(m, p, b, y)
    BY <2>1, <2>4 DEF On
  <2> QED
    BY <2>2, <2>3, <2>4
<1>9. Others(l, m, 0)
  BY <1>4 DEF Others
<1>10. \A k \in 1 .. Len(m) : m[k] = x \/ \E j \in 1 .. Len(l) : m[k] = l[j]
  BY <1>3
<1>11. \A k \in 1 .. a : m[k] = l[k]
  BY <1>1, <1>2
<1> QED
  BY <1>2, <1>5, <1>7, <1>8, <1>9, <1>10, <1>11 DEF More

(* The lock at i may be deleted before the insertion further on, or after. *)
LEMMA RemoveInserted ==
  ASSUME NEW l \in Seq(LockRec), NEW i \in 1 .. Len(l), NEW a \in i .. Len(l), NEW x \in LockRec
  PROVE  RemoveAt(InsertAt(l, a + 1, x), i) = InsertAt(RemoveAt(l, i), a, x)
<1>1. i \in Nat /\ a \in Nat /\ Len(l) \in Nat /\ 1 <= i /\ i <= a /\ a <= Len(l)
  OBVIOUS
<1>2. PICK j \in 1 .. Len(l) + 1 : j = a + 1
  BY <1>1
<1>3. PICK m : m = InsertAt(l, j, x)
  OBVIOUS
<1>4. /\ m \in Seq(LockRec) /\ Len(m) = Len(l) + 1
      /\ \A k \in 1 .. Len(l) + 1 : m[k] = IF k < j THEN l[k] ELSE IF k = j THEN x ELSE l[k - 1]
  <2>1. Placed(LockRec, l, j, x, m)
    BY ONLY <1>2, <1>3, l \in Seq(LockRec), x \in LockRec, PlacedIs
  <2> QED
    BY ONLY <2>1 DEF Placed
<1>5. PICK n : n = RemoveAt(m, i)
  OBVIOUS
<1>6. i \in 1 .. Len(m)
  BY <1>1, <1>4
<1>7. /\ n \in Seq(LockRec) /\ Len(n) = Len(m) - 1
      /\ \A k \in 1 .. Len(m) - 1 : n[k] = IF k < i THEN m[k] ELSE m[k + 1]
  <2>1. Taken(LockRec, m, i, n)
    BY ONLY <1>4, <1>5, <1>6, TakenIs
  <2> QED
    BY ONLY <2>1 DEF Taken
<1>8. PICK r : r = RemoveAt(l, i)
  OBVIOUS
<1>9. /\ r \in Seq(LockRec) /\ Len(r) = Len(l) - 1
      /\ \A k \in 1 .. Len(l) - 1 : r[k] = IF k < i THEN l[k] ELSE l[k + 1]
  <2>1. Taken(LockRec, l, i, r)
    BY ONLY <1>8, l \in Seq(LockRec), i \in 1 .. Len(l), TakenIs
  <2> QED
    BY ONLY <2>1 DEF Taken
<1>10. PICK q : q = InsertAt(r, a, x)
  OBVIOUS
<1>11. a \in 1 .. Len(r) + 1
  BY <1>1, <1>9
<1>12. /\ q \in Seq(LockRec) /\ Len(q) = Len(r) + 1
       /\ \A k \in 1 .. Len(r) + 1 : q[k] = IF k < a THEN r[k] ELSE IF k = a THEN x ELSE r[k - 1]
  <2>1. r \in Seq(LockRec) /\ x \in LockRec
    BY <1>9
  <2>2. Placed(LockRec, r, a, x, q)
    BY ONLY <1>10, <1>11, <2>1, PlacedIs
  <2> QED
    BY ONLY <2>2 DEF Placed
<1>13. Len(n) = Len(l) /\ Len(q) = Len(l)
  BY <1>1, <1>4, <1>7, <1>9, <1>12
<1>14. ASSUME NEW k \in 1 .. Len(l) PROVE n[k] = q[k]
  <2>1. k \in 1 .. Len(m) - 1 /\ k \in 1 .. Len(r) + 1 /\ k \in Nat
    BY <1>1, <1>4, <1>9
  <2>2. CASE k < i
    <3>1. n[k] = m[k] /\ k < j /\ k \in 1 .. Len(l) + 1
      BY <1>1, <1>2, <1>7, <2>1, <2>2
    <3>2. k < a /\ k \in 1 .. Len(l) - 1
      BY <1>1, <2>2
    <3> QED
      BY <1>4, <1>9, <1>12, <2>1, <2>2, <3>1, <3>2
  <2>3. CASE i <= k /\ k < a
    <3>1. PICK k1 \in 1 .. Len(l) + 1 : k1 = k + 1 /\ k1 < j
      BY <1>1, <1>2, <2>1, <2>3
    <3>2. n[k] = l[k1]
      BY <1>1, <1>4, <1>7, <2>1, <2>3, <3>1
    <3>3. k \in 1 .. Len(l) - 1 /\ ~(k < i)
      BY <1>1, <2>3
    <3> QED
      BY <1>9, <1>12, <2>1, <2>3, <3>1, <3>2, <3>3
  <2>4. CASE k = a
    <3>1. PICK k1 \in 1 .. Len(l) + 1 : k1 = k + 1 /\ k1 = j
      BY <1>1, <1>2, <2>1, <2>4
    <3>2. n[k] = x
      BY <1>1, <1>4, <1>7, <2>1, <2>4, <3>1
    <3> QED
      BY <1>1, <1>12, <2>1, <2>4, <3>2
  <2>5. CASE k > a
    <3>1. PICK k1 \in 1 .. Len(l) + 1 : k1 = k + 1 /\ k1 > j /\ k1 - 1 = k
      BY <1>1, <1>2, <2>1, <2>5
    <3>2. n[k] = l[k]
      <4>1. n[k] = m[k1]
        BY <1>1, <1>7, <2>1, <2>5, <3>1
      <4>2. m[k1] = l[k1 - 1]
        BY <1>2, <1>4, <3>1
      <4> QED
        BY <3>1, <4>1, <4>2
    <3>3. PICK k2 \in 1 .. Len(l) - 1 : k2 = k - 1 /\ k2 + 1 = k /\ ~(k2 < i)
      BY <1>1, <2>1, <2>5
    <3>4. q[k] = r[k2]
      BY <1>1, <1>12, <2>1, <2>5, <3>3
    <3> QED
      BY <1>9, <3>2, <3>3, <3>4
  <2> QED
    BY <1>1, <2>1, <2>2, <2>3, <2>4, <2>5
<1>15. n = q
  BY <1>7, <1>12, <1>13, <1>14, SeqEqual
<1> QED
  BY <1>2, <1>3, <1>5, <1>8, <1>10, <1>15

(* And likewise shortened.                                                 *)
LEMMA ShortenInserted ==
  ASSUME NEW l \in Seq(LockRec), NEW i \in 1 .. Len(l), NEW a \in i .. Len(l), NEW x \in LockRec,
         NEW e \in Int
  PROVE  Shortened(InsertAt(l, a + 1, x), i, e) = InsertAt(Shortened(l, i, e), a + 1, x)
<1>1. i \in Nat /\ a \in Nat /\ Len(l) \in Nat /\ 1 <= i /\ i <= a /\ a <= Len(l)
  OBVIOUS
<1>2. PICK j \in 1 .. Len(l) + 1 : j = a + 1
  BY <1>1
<1>3. PICK m : m = InsertAt(l, j, x)
  OBVIOUS
<1>4. /\ m \in Seq(LockRec) /\ Len(m) = Len(l) + 1
      /\ \A k \in 1 .. Len(l) + 1 : m[k] = IF k < j THEN l[k] ELSE IF k = j THEN x ELSE l[k - 1]
  <2>1. Placed(LockRec, l, j, x, m)
    BY ONLY <1>2, <1>3, l \in Seq(LockRec), x \in LockRec, PlacedIs
  <2> QED
    BY ONLY <2>1 DEF Placed
<1>5. i \in 1 .. Len(l) + 1 /\ i < j
  BY <1>1, <1>2
<1>6. m[i] = l[i] /\ l[i] \in LockRec
  BY <1>4, <1>5
<1>7. PICK f : f = [l[i] EXCEPT !.end = e, !.wakeflg = FALSE]
  OBVIOUS
<1>8. f \in LockRec
  BY <1>6, <1>7 DEF LockRec
<1>9. PICK n : n = Shortened(m, i, e)
  OBVIOUS
<1>10. n = [m EXCEPT ![i] = f]
  BY <1>6, <1>7, <1>9 DEF Shortened
<1>11. n \in Seq(LockRec) /\ Len(n) = Len(l) + 1
       /\ \A k \in 1 .. Len(l) + 1 : n[k] = IF k = i THEN f ELSE m[k]
  BY <1>4, <1>5, <1>8, <1>10
<1>12. PICK r : r = Shortened(l, i, e)
  OBVIOUS
<1>13. r \in Seq(LockRec) /\ Len(r) = Len(l)
       /\ \A k \in 1 .. Len(l) : r[k] = IF k = i THEN f ELSE l[k]
  <2>1. r = [l EXCEPT ![i] = f]
    BY <1>7, <1>12 DEF Shortened
  <2> QED
    BY <1>8, <2>1
<1>14. PICK q : q = InsertAt(r, j, x)
  OBVIOUS
<1>15. j \in 1 .. Len(r) + 1
  BY <1>13
<1>16. /\ q \in Seq(LockRec) /\ Len(q) = Len(r) + 1
       /\ \A k \in 1 .. Len(r) + 1 : q[k] = IF k < j THEN r[k] ELSE IF k = j THEN x ELSE r[k - 1]
  <2>1. r \in Seq(LockRec) /\ x \in LockRec
    BY <1>13
  <2>2. Placed(LockRec, r, j, x, q)
    BY ONLY <1>14, <1>15, <2>1, PlacedIs
  <2> QED
    BY ONLY <2>2 DEF Placed
<1>17. ASSUME NEW k \in 1 .. Len(l) + 1 PROVE n[k] = q[k]
  <2>1. CASE k < j
    <3>1. k \in 1 .. Len(l)
      BY <1>1, <1>2, <2>1
    <3> QED
      BY <1>4, <1>11, <1>13, <1>16, <2>1, <3>1
  <2>2. CASE k = j
    BY <1>4, <1>5, <1>11, <1>13, <1>16, <2>2
  <2>3. CASE k > j
    <3>1. PICK k1 \in 1 .. Len(l) : k1 = k - 1 /\ k1 # i
      BY <1>1, <1>2, <2>3
    <3>2. n[k] = l[k1]
      BY <1>1, <1>4, <1>5, <1>11, <2>3, <3>1
    <3>3. q[k] = r[k1]
      BY <1>1, <1>13, <1>16, <2>3, <3>1
    <3> QED
      BY <1>13, <3>1, <3>2, <3>3
  <2> QED
    BY <1>2, <2>1, <2>2, <2>3
<1>18. n = q
  BY <1>11, <1>13, <1>16, <1>17, SeqEqual
<1> QED
  BY <1>2, <1>3, <1>9, <1>12, <1>14, <1>18

(* What is left of the lock f after byte e.                                *)
Remainder(f, e) == Lock(f.pid, f.type, e + 1, f.end)

(* Every lock of m is x or one of l, but not lock i.                       *)
From(l, m, i, x) ==
  \A k \in 1 .. Len(m) : m[k] = x \/ \E j \in (1 .. Len(l)) \ {i} : m[k] = l[j]

(* Lock i of l can be cut after its byte e, which leaves x.                *)
Cut(l, i, e, x) ==
  /\ Good(l) /\ Canonical(l) /\ i \in 1 .. Len(l)
  /\ e \in Nat /\ l[i].start <= e /\ e < l[i].end /\ x = Remainder(l[i], e)

(* The lock that is split off.                                             *)
LEMMA TailIs ==
  ASSUME NEW l, NEW i, NEW e, NEW x, Cut(l, i, e, x)
  PROVE  /\ x \in LockRec /\ Span(x) /\ x.pid = l[i].pid /\ x.type = l[i].type
         /\ x.start = e + 1 /\ x.end = l[i].end
<1>. /\ Good(l) /\ i \in 1 .. Len(l) /\ e \in Nat
     /\ l[i].start <= e /\ e < l[i].end /\ x = Remainder(l[i], e)
  BY DEF Cut
<1>1. PICK f : f = l[i]
  OBVIOUS
<1>2. /\ f.start \in Nat /\ f.end \in Nat /\ f.end <= LastByte /\ LastByte \in Nat
      /\ f.pid \in Owner /\ f.type \in LockType
  BY <1>1, GoodElem
<1>3. x = [pid |-> f.pid, type |-> f.type, start |-> e + 1, end |-> f.end, wakeflg |-> FALSE]
  BY <1>1 DEF Remainder, Lock
<1>4. /\ x \in LockRec /\ x.pid = f.pid /\ x.type = f.type /\ x.start = e + 1 /\ x.end = f.end
      /\ x.wakeflg = FALSE
  BY <1>2, <1>3 DEF LockRec
<1>5. Span(x)
  BY <1>1, <1>2, <1>4 DEF Span, Byte
<1> QED
  BY <1>1, <1>4, <1>5

(* Where the tail belongs.                                                 *)
LEMMA TailPlace ==
  ASSUME NEW l, NEW i, NEW e, NEW x, Cut(l, i, e, x), NEW a, a = After(l, i, e + 1)
  PROVE  /\ a \in i .. Len(l)
         /\ \A k \in 1 .. Len(l) : IF k <= a THEN l[k].start <= e + 1 ELSE e + 1 <= l[k].start
         /\ \A k \in (1 .. Len(l)) \ {i} : Clear(l[k], x)
<1>. /\ Good(l) /\ Canonical(l) /\ i \in 1 .. Len(l)
     /\ e \in Nat /\ l[i].start <= e /\ e < l[i].end
  BY DEF Cut
<1>1. l \in Seq(LockRec) /\ Len(l) \in Nat /\ l[i].start \in Nat /\ l[i].end \in Nat /\ i \in Nat
  BY GoodElem DEF Good
<1>2. /\ a \in i .. Len(l)
      /\ \A k \in i .. a : k = i \/ l[k].start < e + 1
      /\ a < Len(l) => l[a + 1].start >= e + 1 \/ l[i].start >= e + 1
  <2>1. PICK b \in Int : b = e + 1
    OBVIOUS
  <2>2. /\ After(l, i, b) \in i .. Len(l)
        /\ \A k \in i .. After(l, i, b) : k = i \/ l[k].start < b
        /\ After(l, i, b) < Len(l) => l[After(l, i, b) + 1].start >= b \/ l[i].start >= b
    BY ONLY <1>1, i \in 1 .. Len(l), b \in Int, AfterIs
  <2> QED
    BY <2>1, <2>2
<1>3. ASSUME NEW k \in 1 .. Len(l)
      PROVE  IF k <= a THEN l[k].start <= e + 1 ELSE e + 1 <= l[k].start
  <2>1. l[k].start \in Nat /\ k \in Nat /\ a \in Nat
    BY <1>1, <1>2, GoodElem
  <2>2. CASE k <= a
    <3>1. CASE k < i
      <4>1. l[k].start <= l[i].start
        BY <1>1, <3>1, CanonicalIs
      <4> QED
        BY <1>1, <2>1, <2>2, <4>1
    <3>2. CASE k >= i
      <4>1. k \in i .. a
        BY <1>1, <2>1, <2>2, <3>2
      <4> QED
        BY <1>1, <1>2, <2>1, <2>2, <4>1
    <3> QED
      BY <1>1, <2>1, <3>1, <3>2
  <2>3. CASE ~(k <= a)
    <3>1. PICK n \in 1 .. Len(l) : n = a + 1
      BY <1>1, <2>1, <2>3
    <3>2. l[n].start >= e + 1 /\ l[n].start \in Nat
      BY <1>1, <1>2, <2>1, <2>3, <3>1, GoodElem
    <3>3. l[n].start <= l[k].start
      BY <2>1, <2>3, <3>1, CanonicalIs
    <3> QED
      BY <2>1, <2>3, <3>2, <3>3
  <2> QED
    BY <2>2, <2>3
<1>4. ASSUME NEW k \in (1 .. Len(l)) \ {i} PROVE Clear(l[k], x)
  <2>1. x.pid = l[i].pid /\ x.type = l[i].type /\ x.start = e + 1 /\ x.end = l[i].end
    BY TailIs
  <2>2. l[k].start \in Nat /\ l[k].end \in Nat /\ l[k].start <= l[k].end
    BY GoodElem
  <2>3. k < i /\ l[k].pid = l[i].pid =>
          l[k].end < l[i].start /\ (l[k].type = l[i].type => l[k].end + 1 < l[i].start)
    BY CanonicalIs
  <2>4. i < k /\ l[i].pid = l[k].pid =>
          l[i].end < l[k].start /\ (l[i].type = l[k].type => l[i].end + 1 < l[k].start)
    BY CanonicalIs
  <2>5. k < i \/ i < k
    BY <1>1
  <2> QED
    BY <1>1, <2>1, <2>2, <2>3, <2>4, <2>5 DEF Clear
<1> QED
  BY <1>2, <1>3, <1>4

(* A lock that is deleted when its rest is on the list: only the bytes up  *)
(* to e have gone.                                                         *)
LEMMA CarvedOut ==
  ASSUME NEW l, NEW i, NEW e, NEW x, Cut(l, i, e, x), NEW a, a = After(l, i, e + 1),
         NEW m, m = RemoveAt(InsertAt(l, a + 1, x), i)
  PROVE  /\ Good(m) /\ Canonical(m) /\ Others(l, m, i) /\ From(l, m, i, x)
         /\ Less(l, m, l[i].pid, l[i].start, e) /\ Len(m) = Len(l)
         /\ \A k \in 1 .. i - 1 : m[k] = l[k]
<1>. /\ Good(l) /\ Canonical(l) /\ i \in 1 .. Len(l)
     /\ e \in Nat /\ l[i].start <= e /\ e < l[i].end
  BY DEF Cut
<1>1. /\ l \in Seq(LockRec) /\ Len(l) \in Nat /\ i \in Nat /\ 1 <= i /\ i <= Len(l)
      /\ l[i].start \in Nat /\ l[i].end \in Nat
  BY GoodElem DEF Good
<1>2. /\ x \in LockRec /\ Span(x) /\ x.pid = l[i].pid /\ x.type = l[i].type
      /\ x.start = e + 1 /\ x.end = l[i].end
  BY TailIs
<1>3. /\ a \in i .. Len(l)
      /\ \A k \in 1 .. Len(l) : IF k <= a THEN l[k].start <= e + 1 ELSE e + 1 <= l[k].start
      /\ \A k \in (1 .. Len(l)) \ {i} : Clear(l[k], x)
  BY TailPlace
<1>4. PICK d : d = RemoveAt(l, i)
  OBVIOUS
<1>5. /\ Good(d) /\ Canonical(d) /\ Others(l, d, i)
      /\ Less(l, d, l[i].pid, l[i].start, l[i].end)
      /\ Len(d) = Len(l) - 1
      /\ \A k \in 1 .. Len(l) - 1 : d[k] = IF k < i THEN l[k] ELSE l[k + 1]
  BY ONLY <1>4, Good(l), Canonical(l), i \in 1 .. Len(l), Deleted
<1>6. \A k \in 1 .. Len(d) : \E j \in (1 .. Len(l)) \ {i} :
        d[k] = l[j] /\ ((k < i /\ j = k) \/ (i <= k /\ j = k + 1))
  <2> TAKE k \in 1 .. Len(d)
  <2>1. CASE k < i
    BY <1>1, <1>5, <2>1
  <2>2. CASE ~(k < i)
    <3>1. PICK j \in (1 .. Len(l)) \ {i} : j = k + 1
      BY <1>1, <1>5, <2>2
    <3> QED
      BY <1>1, <1>5, <2>2, <3>1
  <2> QED
    BY <2>1, <2>2
<1>7. PICK c : c = a - 1
  OBVIOUS
<1>8. c \in 0 .. Len(d) /\ c + 1 = a
  BY <1>1, <1>3, <1>5, <1>7
<1>9. \A k \in 1 .. Len(d) : Clear(d[k], x)
  BY <1>3, <1>6
<1>10. \A k \in 1 .. Len(d) : IF k <= c THEN d[k].start <= x.start ELSE x.start <= d[k].start
  <2> TAKE k \in 1 .. Len(d)
  <2>1. PICK j \in (1 .. Len(l)) \ {i} :
          d[k] = l[j] /\ ((k < i /\ j = k) \/ (i <= k /\ j = k + 1))
    BY <1>6
  <2>2. j <= a <=> k <= c
    BY <1>1, <1>3, <1>8, <2>1
  <2> QED
    BY <1>2, <1>3, <2>1, <2>2
<1>11. m = InsertAt(d, c + 1, x)
  <2>1. RemoveAt(InsertAt(l, a + 1, x), i) = InsertAt(RemoveAt(l, i), a, x)
    BY ONLY <1>1, <1>2, <1>3, i \in 1 .. Len(l), RemoveInserted
  <2> QED
    BY <1>4, <1>8, <2>1
<1>12. /\ Good(m) /\ Canonical(m) /\ Others(d, m, 0) /\ Len(m) = Len(d) + 1
       /\ \A k \in 1 .. Len(m) : m[k] = x \/ \E j \in 1 .. Len(d) : m[k] = d[j]
       /\ \A k \in 1 .. c : m[k] = d[k]
       /\ More(d, m, x)
  <2>1. Slot(d, c, x)
    BY ONLY <1>2, <1>5, <1>8, <1>9, <1>10, <1>11 DEF Slot
  <2> QED
    BY ONLY <2>1, <1>11, Inserted
<1>13. Others(l, m, i)
  <2> SUFFICES ASSUME NEW k \in (1 .. Len(l)) \ {i} PROVE \E j \in 1 .. Len(m) : m[j] = l[k]
    BY DEF Others
  <2>1. PICK n \in 1 .. Len(d) : d[n] = l[k]
    BY <1>5 DEF Others
  <2>2. n \in (1 .. Len(d)) \ {0}
    BY <1>1, <1>5
  <2>3. \E j \in 1 .. Len(m) : m[j] = d[n]
    BY <1>12, <2>2 DEF Others
  <2> QED
    BY <2>1, <2>3
<1>14. From(l, m, i, x)
  BY <1>6, <1>12 DEF From
<1>15. \A k \in 1 .. i - 1 : m[k] = l[k]
  <2> TAKE k \in 1 .. i - 1
  <2>1. k \in 1 .. c /\ k \in 1 .. Len(l) - 1 /\ k < i
    BY <1>1, <1>3, <1>7
  <2> QED
    BY <1>5, <1>12, <2>1
<1>16. Less(l, m, l[i].pid, l[i].start, e)
  <2> SUFFICES ASSUME NEW p, NEW b \in Int, NEW y
               PROVE  On(m, p, b, y) <=>
                        On(l, p, b, y) /\ ~(p = l[i].pid /\ l[i].start <= b /\ b <= e)
    BY DEF Less
  <2>1. On(d, p, b, y) <=> On(l, p, b, y) /\ ~(p = l[i].pid /\ l[i].start <= b /\ b <= l[i].end)
    BY <1>5 DEF Less
  <2>2. On(m, p, b, y) <=>
              On(d, p, b, y) \/ (p = l[i].pid /\ e + 1 <= b /\ b <= l[i].end /\ y = l[i].type)
    BY <1>2, <1>12 DEF More
  <2>3. ASSUME p = l[i].pid, l[i].start <= b, b <= l[i].end
        PROVE  On(l, p, b, y) <=> y = l[i].type
    BY <2>3, OneLock DEF On
  <2> QED
    BY <1>1, <2>1, <2>2, <2>3
<1> QED
  BY <1>1, <1>5, <1>12, <1>13, <1>14, <1>15, <1>16

(* Lock i of l keeps its bytes up to n, which is before e.                 *)
Keeps(l, i, n, e) == n \in Nat /\ l[i].start <= n /\ n < e

(* m is l, with x in its place, and lock i ending at byte n.               *)
InTwo(l, i, n, e, x, m) ==
  /\ Good(m) /\ Canonical(m) /\ Others(l, m, i)
  /\ \A k \in (1 .. Len(m)) \ {i} : m[k] = x \/ \E j \in (1 .. Len(l)) \ {i} : m[k] = l[j]
  /\ Less(l, m, l[i].pid, n + 1, e) /\ Len(m) = Len(l) + 1
  /\ \A k \in 1 .. i - 1 : m[k] = l[k]
  /\ m[i].pid = l[i].pid /\ m[i].type = l[i].type /\ m[i].start = l[i].start
  /\ m[i].end = n

(* A lock that is shortened when its rest is on the list: only the bytes   *)
(* from n + 1 to e have gone.                                              *)
LEMMA CarvedMiddle ==
  ASSUME NEW l, NEW i, NEW e, NEW x, Cut(l, i, e, x), NEW n, Keeps(l, i, n, e),
         NEW a, a = After(l, i, e + 1), NEW m, m = Shortened(InsertAt(l, a + 1, x), i, n)
  PROVE  InTwo(l, i, n, e, x, m)
<1>. /\ Good(l) /\ Canonical(l) /\ i \in 1 .. Len(l)
     /\ e \in Nat /\ l[i].start <= e /\ e < l[i].end
  BY DEF Cut
<1>. n \in Nat /\ l[i].start <= n /\ n < e
  BY DEF Keeps
<1>1. /\ l \in Seq(LockRec) /\ Len(l) \in Nat /\ i \in Nat /\ 1 <= i /\ i <= Len(l)
      /\ l[i].start \in Nat /\ l[i].end \in Nat
  BY GoodElem DEF Good
<1>2. /\ x \in LockRec /\ Span(x) /\ x.pid = l[i].pid /\ x.type = l[i].type
      /\ x.start = e + 1 /\ x.end = l[i].end
  BY TailIs
<1>3. /\ a \in i .. Len(l)
      /\ \A k \in 1 .. Len(l) : IF k <= a THEN l[k].start <= e + 1 ELSE e + 1 <= l[k].start
      /\ \A k \in (1 .. Len(l)) \ {i} : Clear(l[k], x)
  BY <1>1, TailPlace
<1>4. PICK d : d = Shortened(l, i, n)
  OBVIOUS
<1>5. /\ Good(d) /\ Canonical(d) /\ Others(l, d, i)
      /\ Less(l, d, l[i].pid, n + 1, l[i].end)
      /\ Len(d) = Len(l)
      /\ d[i].pid = l[i].pid /\ d[i].type = l[i].type /\ d[i].start = l[i].start /\ d[i].end = n
      /\ \A k \in 1 .. Len(l) : k # i => d[k] = l[k]
  <2>1. n <= l[i].end
    BY <1>1
  <2> QED
    BY <1>4, <2>1, ShortenedIs
<1>6. a \in 0 .. Len(d) /\ i <= a
  BY <1>1, <1>3, <1>5
<1>7. \A k \in 1 .. Len(d) : Clear(d[k], x)
  <2> TAKE k \in 1 .. Len(d)
  <2>1. CASE k # i
    BY <1>3, <1>5, <2>1
  <2>2. CASE k = i
    <3>1. d[k].end < x.start /\ d[k].end + 1 < x.start
      BY <1>2, <1>5, <2>2
    <3> QED
      BY <3>1 DEF Clear
  <2> QED
    BY <2>1, <2>2
<1>8. \A k \in 1 .. Len(d) : IF k <= a THEN d[k].start <= x.start ELSE x.start <= d[k].start
  <2> TAKE k \in 1 .. Len(d)
  <2>1. d[k].start = l[k].start
    BY <1>5
  <2> QED
    BY <1>2, <1>3, <1>5, <2>1
<1>9. m = InsertAt(d, a + 1, x)
  <2>1. Shortened(InsertAt(l, a + 1, x), i, n) = InsertAt(Shortened(l, i, n), a + 1, x)
    <3>1. n \in Int
      OBVIOUS
    <3> QED
      BY ONLY <1>1, <1>2, <1>3, <3>1, i \in 1 .. Len(l), ShortenInserted
  <2> QED
    BY <1>4, <2>1
<1>10. /\ Good(m) /\ Canonical(m) /\ Others(d, m, 0) /\ Len(m) = Len(d) + 1
       /\ \A k \in 1 .. Len(m) : m[k] = x \/ \E j \in 1 .. Len(d) : m[k] = d[j]
       /\ \A k \in 1 .. a : m[k] = d[k]
       /\ More(d, m, x)
  <2>1. Slot(d, a, x)
    BY ONLY <1>2, <1>5, <1>6, <1>7, <1>8, <1>9 DEF Slot
  <2> QED
    BY ONLY <2>1, <1>9, Inserted
<1>11. Others(l, m, i)
  <2> SUFFICES ASSUME NEW k \in (1 .. Len(l)) \ {i} PROVE \E j \in 1 .. Len(m) : m[j] = l[k]
    BY DEF Others
  <2>1. PICK q \in 1 .. Len(d) : d[q] = l[k]
    BY <1>5 DEF Others
  <2>2. q \in (1 .. Len(d)) \ {0}
    BY <1>1, <1>5
  <2>3. \E j \in 1 .. Len(m) : m[j] = d[q]
    BY <1>10, <2>2 DEF Others
  <2> QED
    BY <2>1, <2>3
<1>12. m[i] = d[i]
  <2>1. i \in 1 .. a
    BY <1>1, <1>3
  <2> QED
    BY <1>10, <2>1
<1>13. \A k \in (1 .. Len(m)) \ {i} : m[k] = x \/ \E j \in (1 .. Len(l)) \ {i} : m[k] = l[j]
  <2> SUFFICES ASSUME NEW k \in (1 .. Len(m)) \ {i}, m[k] # x
               PROVE  \E j \in (1 .. Len(l)) \ {i} : m[k] = l[j]
    OBVIOUS
  <2>1. \A u \in 1 .. Len(m) : m[u] = IF u < a + 1 THEN d[u] ELSE IF u = a + 1 THEN x ELSE d[u - 1]
    <3>1. PICK w \in 1 .. Len(d) + 1 : w = a + 1
      BY <1>1, <1>6
    <3>2. d \in Seq(LockRec) /\ m = InsertAt(d, w, x)
      BY <1>5, <1>9, <3>1 DEF Good
    <3>3. Placed(LockRec, d, w, x, m)
      <4>1. w \in 1 .. Len(d) + 1
        BY <3>1
      <4>2. d \in Seq(LockRec) /\ x \in LockRec
        BY <1>2, <3>2
      <4> QED
        BY ONLY <3>2, <4>1, <4>2, PlacedIs
    <3>4. Len(m) = Len(d) + 1
          /\ \A u \in 1 .. Len(d) + 1 : m[u] = IF u < w THEN d[u] ELSE IF u = w THEN x ELSE d[u - 1]
      BY ONLY <3>3 DEF Placed
    <3> QED
      BY ONLY <3>1, <3>4
  <2>2. k # a + 1
    BY <2>1
  <2>3. CASE k < a + 1
    <3>1. k \in (1 .. Len(l)) \ {i} /\ m[k] = d[k]
      BY <1>1, <1>3, <1>5, <2>1, <2>3
    <3> QED
      BY <1>5, <3>1
  <2>4. CASE k > a + 1
    <3>1. PICK u \in 1 .. Len(l) : u = k - 1 /\ u # i
      BY <1>1, <1>3, <1>5, <1>10, <2>4
    <3>2. m[k] = d[u]
      BY <1>1, <1>3, <2>1, <2>4, <3>1
    <3> QED
      BY <1>5, <3>1, <3>2
  <2> QED
    BY <1>1, <1>3, <2>2, <2>3, <2>4
<1>14. \A k \in 1 .. i - 1 : m[k] = l[k]
  <2> TAKE k \in 1 .. i - 1
  <2>1. k \in 1 .. a /\ k \in 1 .. Len(l) /\ k # i
    BY <1>1, <1>3
  <2> QED
    BY <1>5, <1>10, <2>1
<1>15. Less(l, m, l[i].pid, n + 1, e)
  <2> SUFFICES ASSUME NEW p, NEW b \in Int, NEW y
               PROVE  On(m, p, b, y) <=>
                        On(l, p, b, y) /\ ~(p = l[i].pid /\ n + 1 <= b /\ b <= e)
    BY DEF Less
  <2>1. On(d, p, b, y) <=> On(l, p, b, y) /\ ~(p = l[i].pid /\ n + 1 <= b /\ b <= l[i].end)
    BY <1>5 DEF Less
  <2>2. On(m, p, b, y) <=>
              On(d, p, b, y) \/ (p = l[i].pid /\ e + 1 <= b /\ b <= l[i].end /\ y = l[i].type)
    BY <1>2, <1>10 DEF More
  <2>3. ASSUME p = l[i].pid, l[i].start <= b, b <= l[i].end
        PROVE  On(l, p, b, y) <=> y = l[i].type
    BY <2>3, OneLock DEF On
  <2> QED
    BY <1>1, <2>1, <2>2, <2>3
<1> QED
  BY ONLY <1>5, <1>10, <1>11, <1>12, <1>13, <1>14, <1>15 DEF InTwo

(***************************************************************************)
(* The loop of flckadj(), which began with the list l0 and the request c.  *)
(* The locks that somebody may sleep on are on the list unless they have   *)
(* been awakened; only the caller has lost bytes; of the bytes that the    *)
(* request x has grown by, it had a lock of the same type before.          *)
(***************************************************************************)
Kept(l0, l, woken) ==
  \A k \in 1 .. Len(l0) : l0[k].wakeflg =>
    Address(l0[k]) \in woken \/ \E j \in 1 .. Len(l) : l[j] = l0[k]

Owned(l0, l, o) ==
  \A p, b, y : b \in Int =>
    /\ On(l, p, b, y) => On(l0, p, b, y)
    /\ p # o /\ On(l0, p, b, y) => On(l, p, b, y)

In(b, x) == x.start <= b /\ b <= x.end

Rest(l0, c, l, x) ==
  /\ x.start <= c.start /\ c.end <= x.end
  /\ \A b, y : b \in Int /\ ~In(b, x) => (On(l, c.pid, b, y) <=> On(l0, c.pid, b, y))
  /\ \A b, y : b \in Int /\ In(b, x) /\ ~In(b, c) => (On(l0, c.pid, b, y) <=> y = c.type)

(* A lock goes, or changes, and those who sleep on it are awakened.        *)
LEMMA KeptStep ==
  ASSUME NEW l0, NEW l, NEW w, Kept(l0, l, w), NEW m, NEW i \in 1 .. Len(l), Others(l, m, i),
         NEW v, v = w \cup Waiters(l[i])
  PROVE  Kept(l0, m, v)
<1>1. SUFFICES ASSUME NEW k \in 1 .. Len(l0), l0[k].wakeflg
               PROVE  Address(l0[k]) \in v \/ \E j \in 1 .. Len(m) : m[j] = l0[k]
  BY DEF Kept
<1>2. CASE Address(l0[k]) \in w
  BY <1>2
<1>3. ASSUME NEW j \in 1 .. Len(l), l[j] = l0[k]
      PROVE  Address(l0[k]) \in v \/ \E n \in 1 .. Len(m) : m[n] = l0[k]
  <2>1. CASE j = i
    <3>1. Address(l0[k]) \in Waiters(l[i])
      BY <1>1, <1>3, <2>1 DEF Waiters
    <3> QED
      BY <3>1
  <2>2. CASE j # i
    BY <1>3, <2>2 DEF Others
  <2> QED
    BY <2>1, <2>2
<1> QED
  BY <1>1, <1>2, <1>3 DEF Kept

(* It was a lock of the caller.                                            *)
LEMMA OwnedStep ==
  ASSUME NEW l0, NEW l, NEW o, Owned(l0, l, o), NEW m, NEW from, NEW to, Less(l, m, o, from, to)
  PROVE  Owned(l0, m, o)
<1>1. SUFFICES ASSUME NEW p, NEW b, NEW y, b \in Int
               PROVE  /\ On(m, p, b, y) => On(l0, p, b, y)
                      /\ p # o /\ On(l0, p, b, y) => On(m, p, b, y)
  BY DEF Owned
<1>2. On(m, p, b, y) <=> On(l, p, b, y) /\ ~(p = o /\ from <= b /\ b <= to)
  BY <1>1 DEF Less
<1>3. /\ On(l, p, b, y) => On(l0, p, b, y)
      /\ p # o /\ On(l0, p, b, y) => On(l, p, b, y)
  BY <1>1 DEF Owned
<1> QED
  BY <1>2, <1>3

(* The request has grown from x to z by bytes of one type of lock.         *)
Grown(l, c, x, z) ==
  /\ {x.start, x.end, z.start, z.end, c.start, c.end} \subseteq Int
  /\ z.start <= x.start /\ x.end <= z.end
  /\ \A b, y : b \in Int /\ In(b, z) /\ ~In(b, x) => (On(l, c.pid, b, y) <=> y = c.type)

(* The request may grow to the bytes of a lock of its type, and the bytes  *)
(* within it may go.                                                       *)
LEMMA RestStep ==
  ASSUME NEW l0, NEW c, NEW l, NEW x, Rest(l0, c, l, x), NEW z, Grown(l, c, x, z),
         NEW m, NEW from \in Int, NEW to \in Int, Less(l, m, c.pid, from, to),
         z.start <= from, to <= z.end
  PROVE  Rest(l0, c, m, z)
<1>1. {x.start, x.end, z.start, z.end, c.start, c.end} \subseteq Int
  BY DEF Grown
<1>2. z.start <= c.start /\ c.end <= z.end
  BY <1>1 DEF Rest, Grown
<1>3. \A b : b \in Int /\ In(b, x) => In(b, z)
  BY <1>1 DEF Grown, In
<1>4. \A b : b \in Int /\ In(b, c) => In(b, x)
  BY <1>1 DEF Rest, In
<1>5. ASSUME NEW b, NEW y, b \in Int, ~In(b, z) PROVE On(m, c.pid, b, y) <=> On(l0, c.pid, b, y)
  <2>1. On(l, c.pid, b, y) <=> On(l0, c.pid, b, y)
    BY <1>3, <1>5 DEF Rest
  <2>2. ~(from <= b /\ b <= to)
    BY <1>1, <1>5 DEF In
  <2> QED
    BY <1>5, <2>1, <2>2 DEF Less
<1>6. ASSUME NEW b, NEW y, b \in Int, In(b, z), ~In(b, c) PROVE On(l0, c.pid, b, y) <=> y = c.type
  <2>1. CASE In(b, x)
    BY <1>6, <2>1 DEF Rest
  <2>2. CASE ~In(b, x)
    <3>1. On(l, c.pid, b, y) <=> y = c.type
      BY <1>6, <2>2 DEF Grown
    <3>2. On(l, c.pid, b, y) <=> On(l0, c.pid, b, y)
      BY <1>6, <2>2 DEF Rest
    <3> QED
      BY <3>1, <3>2
  <2> QED
    BY <2>1, <2>2
<1> QED
  BY <1>2, <1>5, <1>6 DEF Rest

(* No lock of the caller before flp reaches the request or adjoins it; none*)
(* on the list, when the loop has ended.                                   *)
Behind(l, flp, x) ==
  \A k \in 1 .. Len(l) :
    IF flp = 0 THEN Clear(l[k], x)
    ELSE k < flp /\ l[k].pid = x.pid =>
           l[k].end < x.start /\ (l[k].type = x.type => l[k].end + 1 < x.start)

(* Where the search for the place of the request begins.                   *)
Point(l, flp, insrtp, x) ==
  /\ insrtp \in 0 .. Len(l) /\ (flp # 0 => insrtp <= flp)
  /\ IF insrtp = 0 THEN \A k \in 1 .. Len(l) : x.start <= l[k].start
     ELSE l[insrtp].start <= x.start

Whole(l, x) ==
  \E k \in 1 .. Len(l) :
    l[k].pid = x.pid /\ l[k].type = x.type /\ l[k].start <= x.start /\ x.end <= l[k].end

Loop(l0, c, r, s) ==
  /\ s \in LoopState /\ Good(s.list) /\ Canonical(s.list) /\ c \in Asked
  /\ Span(s.ld) /\ s.ld.pid = c.pid /\ s.ld.type = c.type
  /\ s.reccnt = r + Len(s.list)
  /\ Kept(l0, s.list, s.woken)
  /\ Owned(l0, s.list, c.pid)
  /\ s.ret \in {"", "0", "ENOLCK"}
  /\ s.ret # "ENOLCK" => Rest(l0, c, s.list, s.ld)
  /\ s.ret = "0" => Whole(s.list, s.ld)
  /\ s.ret = "" => Behind(s.list, s.flp, s.ld)
  /\ s.ret = "" /\ c.type # "F_UNLCK" => Point(s.list, s.flp, s.insrtp, s.ld)

Ended(s) == s.ret # "" \/ s.flp = 0 \/ s.flp > Len(s.list)

(* The turn from s to t ends the loop or brings its end nearer.             *)
Nearer(s, t) == Ended(t) \/ Len(t.list) - t.flp < Len(s.list) - s.flp

(* A turn is taken at the lock f.                                          *)
At(l0, c, r, s, f) ==
  /\ Loop(l0, c, r, s) /\ r \in Int /\ s.ret = ""
  /\ s.flp \in 1 .. Len(s.list) /\ f = s.list[s.flp]

(* The types of what a turn looks at.                                      *)
LEMMA AtIs ==
  ASSUME NEW l0, NEW c, NEW r, NEW s, NEW f, At(l0, c, r, s, f)
  PROVE  /\ s \in LoopState /\ Good(s.list) /\ Canonical(s.list) /\ c \in Asked
         /\ s.flp \in 1 .. Len(s.list) /\ f = s.list[s.flp] /\ f \in LockRec
         /\ {f.start, f.end, s.ld.start, s.ld.end} \subseteq Nat
         /\ f.start <= f.end /\ s.ld.start <= s.ld.end /\ s.ld.end <= LastByte
         /\ f.end <= LastByte /\ LastByte \in Nat
         /\ s.ld.pid = c.pid /\ s.ld.type = c.type /\ s.ld \in Asked
         /\ s.flp \in Nat /\ Len(s.list) \in Nat /\ s.insrtp \in Nat
         /\ s.reccnt = r + Len(s.list) /\ r \in Int
<1>1. /\ s \in LoopState /\ Good(s.list) /\ Canonical(s.list) /\ c \in Asked
      /\ s.flp \in 1 .. Len(s.list) /\ f = s.list[s.flp] /\ Span(s.ld)
      /\ s.ld.pid = c.pid /\ s.ld.type = c.type
      /\ s.reccnt = r + Len(s.list) /\ r \in Int
  BY DEF At, Loop
<1>2. /\ f \in LockRec /\ f.start \in Nat /\ f.end \in Nat /\ f.start <= f.end
      /\ f.end <= LastByte /\ Len(s.list) \in Nat /\ LastByte \in Nat
  BY <1>1, GoodElem
<1>3. s.ld \in Asked /\ s.flp \in Nat /\ s.insrtp \in Nat
  BY <1>1 DEF LoopState
<1>4. {s.ld.start, s.ld.end} \subseteq Nat /\ s.ld.start <= s.ld.end /\ s.ld.end <= LastByte
  BY <1>1, <1>2 DEF Span, Byte
<1> QED
  BY <1>1, <1>2, <1>3, <1>4

-----------------------------------------------------------------------------
(* The turns that leave the list alone                                     *)

(* Another owner's lock, or one that lies before the request, is passed    *)
(* over.                                                                   *)
LEMMA SkipStep ==
  ASSUME NEW l0, NEW c, NEW r, NEW s, NEW f, At(l0, c, r, s, f),
         f.pid = c.pid => f.end < s.ld.start /\ (f.type = c.type => f.end + 1 < s.ld.start)
  PROVE  Loop(l0, c, r, Skip(s)) /\ Nearer(s, Skip(s))
<1>1. /\ s \in LoopState /\ Good(s.list)
      /\ s.flp \in 1 .. Len(s.list) /\ f = s.list[s.flp] /\ s.flp \in Nat
      /\ s.ld.pid = c.pid /\ s.ld.type = c.type /\ s.insrtp \in Nat
  BY AtIs
<1>2. PICK t : t = Skip(s)
  OBVIOUS
<1>3. /\ t \in LoopState /\ t.list = s.list /\ t.reccnt = s.reccnt /\ t.ld = s.ld
      /\ t.insrtp = s.insrtp /\ t.flp = s.flp + 1 /\ t.woken = s.woken /\ t.ret = s.ret
  <2>1. PICK n \in Nat : n = s.flp + 1
    BY <1>1
  <2>2. t = [s EXCEPT !.flp = n]
    BY <1>2, <2>1 DEF Skip
  <2> QED
    BY <1>1, <2>1, <2>2 DEF LoopState
<1>4. Loop(l0, c, r, s) /\ s.ret = ""
  BY DEF At
<1>5. Behind(s.list, s.flp, s.ld)
  BY <1>4 DEF Loop
<1>6. Behind(t.list, t.flp, t.ld)
  <2> SUFFICES ASSUME NEW k \in 1 .. Len(s.list), k < s.flp + 1, s.list[k].pid = s.ld.pid
               PROVE  /\ s.list[k].end < s.ld.start
                      /\ s.list[k].type = s.ld.type => s.list[k].end + 1 < s.ld.start
    BY <1>1, <1>3 DEF Behind
  <2>1. CASE k < s.flp
    BY <1>1, <1>5, <2>1 DEF Behind
  <2>2. CASE k = s.flp
    BY <1>1, <2>2
  <2> QED
    BY <1>1, <2>1, <2>2
<1>7. c.type # "F_UNLCK" => Point(t.list, t.flp, t.insrtp, t.ld)
  <2>1. c.type # "F_UNLCK" => Point(s.list, s.flp, s.insrtp, s.ld)
    BY <1>4 DEF Loop
  <2> QED
    BY <1>1, <1>3, <2>1 DEF Point
<1>8. Loop(l0, c, r, t)
  BY <1>3, <1>4, <1>6, <1>7 DEF Loop
<1>9. Nearer(s, t)
  <2>1. Len(s.list) \in Nat
    BY <1>1 DEF Good
  <2>2. Len(t.list) - t.flp < Len(s.list) - s.flp
    BY ONLY <1>1, <1>3, <2>1
  <2> QED
    BY <2>2 DEF Nearer
<1> QED
  BY <1>2, <1>8, <1>9

(* The caller's lock lies after the request: nothing further on concerns   *)
(* it.                                                                     *)
LEMMA StopStep ==
  ASSUME NEW l0, NEW c, NEW r, NEW s, NEW f, At(l0, c, r, s, f), f.pid = c.pid,
         s.ld.end < f.start, f.type = c.type => s.ld.end + 1 < f.start
  PROVE  Loop(l0, c, r, Stop(s)) /\ Nearer(s, Stop(s))
<1>1. /\ s \in LoopState /\ Good(s.list) /\ Canonical(s.list)
      /\ s.flp \in 1 .. Len(s.list) /\ f = s.list[s.flp] /\ s.flp \in Nat
      /\ s.ld.pid = c.pid /\ s.ld.type = c.type /\ s.insrtp \in Nat
      /\ {f.start, f.end, s.ld.start, s.ld.end} \subseteq Nat /\ f.start <= f.end
  BY AtIs
<1>2. PICK t : t = Stop(s)
  OBVIOUS
<1>3. /\ t \in LoopState /\ t.list = s.list /\ t.reccnt = s.reccnt /\ t.ld = s.ld
      /\ t.insrtp = s.insrtp /\ t.flp = 0 /\ t.woken = s.woken /\ t.ret = s.ret
  BY <1>1, <1>2 DEF Stop, LoopState
<1>4. Loop(l0, c, r, s) /\ s.ret = ""
  BY DEF At
<1>5. Behind(s.list, s.flp, s.ld)
  BY <1>4 DEF Loop
<1>6. Behind(t.list, t.flp, t.ld)
  <2> SUFFICES ASSUME NEW k \in 1 .. Len(s.list), s.list[k].pid = s.ld.pid
               PROVE  Clear(s.list[k], s.ld)
    BY <1>3 DEF Behind, Clear
  <2>1. s.list[k].start \in Nat /\ s.list[k].end \in Nat
    BY <1>1, GoodElem
  <2>2. CASE k < s.flp
    BY <1>1, <1>5, <2>2 DEF Behind, Clear
  <2>3. CASE k = s.flp
    BY <1>1, <2>3 DEF Clear
  <2>4. CASE s.flp < k
    <3>1. f.start <= s.list[k].start /\ f.end < s.list[k].start
      BY <1>1, <2>4, CanonicalIs
    <3>2. s.ld.end + 1 < s.list[k].start
      <4>1. s.ld.end \in Nat /\ f.start \in Nat /\ f.end \in Nat /\ s.ld.end < f.start /\ f.start <= f.end
        BY <1>1
      <4> QED
        BY ONLY <2>1, <3>1, <4>1
    <3> QED
      BY <1>1, <2>1, <3>2 DEF Clear
  <2> QED
    BY <1>1, <2>2, <2>3, <2>4
<1>7. c.type # "F_UNLCK" => Point(t.list, t.flp, t.insrtp, t.ld)
  <2>1. c.type # "F_UNLCK" => Point(s.list, s.flp, s.insrtp, s.ld)
    BY <1>4 DEF Loop
  <2> QED
    BY <1>3, <2>1 DEF Point
<1>8. Loop(l0, c, r, t)
  BY <1>3, <1>4, <1>6, <1>7 DEF Loop
<1> QED
  BY <1>2, <1>3, <1>8 DEF Nearer, Ended

(* The caller has the whole region already.                                *)
LEMMA WholeStep ==
  ASSUME NEW l0, NEW c, NEW r, NEW s, NEW f, At(l0, c, r, s, f), f.pid = c.pid,
         f.type = c.type, f.start <= s.ld.start, s.ld.end <= f.end
  PROVE  Loop(l0, c, r, [s EXCEPT !.ret = "0"]) /\ Nearer(s, [s EXCEPT !.ret = "0"])
<1>1. /\ s \in LoopState /\ s.flp \in 1 .. Len(s.list) /\ f = s.list[s.flp]
      /\ s.ld.pid = c.pid /\ s.ld.type = c.type
  BY AtIs
<1>2. PICK t : t = [s EXCEPT !.ret = "0"]
  OBVIOUS
<1>3. /\ t \in LoopState /\ t.list = s.list /\ t.reccnt = s.reccnt /\ t.ld = s.ld
      /\ t.woken = s.woken /\ t.ret = "0"
  BY <1>1, <1>2 DEF LoopState
<1>4. Loop(l0, c, r, s) /\ s.ret = ""
  BY DEF At
<1>5. Whole(t.list, t.ld)
  BY <1>1, <1>3 DEF Whole
<1>6. Loop(l0, c, r, t)
  BY <1>3, <1>4, <1>5 DEF Loop
<1>7. Nearer(s, t)
  BY <1>3 DEF Nearer, Ended
<1> QED
  BY <1>2, <1>6, <1>7

(* The caller's lock lies before the request, which is to follow it.       *)
LEMMA AfterStep ==
  ASSUME NEW l0, NEW c, NEW r, NEW s, NEW f, At(l0, c, r, s, f), f.pid = c.pid,
         f.end + 1 < s.ld.start
  PROVE  /\ Loop(l0, c, r, Skip([s EXCEPT !.insrtp = s.flp]))
         /\ Nearer(s, Skip([s EXCEPT !.insrtp = s.flp]))
<1>1. /\ s \in LoopState /\ s.flp \in 1 .. Len(s.list) /\ f = s.list[s.flp] /\ s.flp \in Nat
      /\ s.ld.pid = c.pid /\ s.ld.type = c.type
      /\ {f.start, f.end, s.ld.start, s.ld.end} \subseteq Nat /\ f.start <= f.end
  BY AtIs
<1>2. PICK t : t = [s EXCEPT !.insrtp = s.flp]
  OBVIOUS
<1>3. /\ t \in LoopState /\ t.list = s.list /\ t.reccnt = s.reccnt /\ t.ld = s.ld
      /\ t.insrtp = s.flp /\ t.flp = s.flp /\ t.woken = s.woken /\ t.ret = s.ret
  BY <1>1, <1>2 DEF LoopState
<1>4. Loop(l0, c, r, s) /\ s.ret = "" /\ r \in Int
  BY DEF At
<1>5. Point(t.list, t.flp, t.insrtp, t.ld)
  BY <1>1, <1>3 DEF Point
<1>6. Loop(l0, c, r, t)
  BY <1>3, <1>4, <1>5 DEF Loop
<1>7. At(l0, c, r, t, f)
  BY <1>1, <1>3, <1>4, <1>6 DEF At
<1>8. f.end < t.ld.start /\ f.end + 1 < t.ld.start
  BY <1>1, <1>3
<1>9. Loop(l0, c, r, Skip(t)) /\ Nearer(t, Skip(t))
  BY <1>7, <1>8, SkipStep
<1>10. Nearer(s, Skip(t))
  BY <1>3, <1>9 DEF Nearer
<1> QED
  BY <1>2, <1>9, <1>10

-----------------------------------------------------------------------------
(* The turns that delete a lock                                            *)

(* Channels are addresses of locks.                                        *)
LEMMA WaitersAre ==
  ASSUME NEW f \in LockRec
  PROVE  Waiters(f) \subseteq Owner \X Int
<1>1. f.pid \in Owner /\ f.start \in Int
  BY DEF LockRec
<1> QED
  BY <1>1 DEF Waiters, Address

(* The fields of the state after a deletion.                               *)
LEMMA DeleteIs ==
  ASSUME NEW u \in LoopState, u.flp \in 1 .. Len(u.list), NEW t, t = Delete(u)
  PROVE  /\ t \in LoopState /\ t.list = RemoveAt(u.list, u.flp) /\ t.reccnt = u.reccnt - 1
         /\ t.ld = u.ld /\ t.insrtp = u.insrtp /\ t.flp = u.flp /\ t.mem = u.mem
         /\ t.woken = u.woken \cup Waiters(u.list[u.flp]) /\ t.ret = u.ret
<1>1. PICK i : i = u.flp
  OBVIOUS
<1>2. PICK l : l = u.list
  OBVIOUS
<1>3. l \in Seq(LockRec) /\ u.reccnt \in Int /\ u.woken \subseteq Owner \X Int /\ i \in 1 .. Len(l)
  BY <1>1, <1>2 DEF LoopState
<1>4. PICK m : m = RemoveAt(l, i)
  OBVIOUS
<1>5. m \in Seq(LockRec)
  <2>1. Taken(LockRec, l, i, m)
    BY ONLY <1>3, <1>4, TakenIs
  <2> QED
    BY ONLY <2>1 DEF Taken
<1>6. PICK w : w = u.woken \cup Waiters(l[i])
  OBVIOUS
<1>7. l[i] \in LockRec
  BY <1>3
<1>8. w \in SUBSET (Owner \X Int)
  BY <1>3, <1>6, <1>7, WaitersAre
<1>9. PICK n \in Int : n = u.reccnt - 1
  BY <1>3
<1>10. t = [u EXCEPT !.list = m, !.reccnt = n, !.woken = w]
  BY <1>1, <1>2, <1>4, <1>6, <1>9 DEF Delete, delflck
<1>11. /\ t \in LoopState /\ t.list = m /\ t.reccnt = n /\ t.ld = u.ld /\ t.insrtp = u.insrtp
       /\ t.flp = u.flp /\ t.mem = u.mem /\ t.woken = w /\ t.ret = u.ret
  BY <1>5, <1>8, <1>10 DEF LoopState
<1> QED
  BY <1>1, <1>2, <1>4, <1>6, <1>9, <1>11

(* The request x grows to z, which covers f and what f adds to it.         *)
Absorbs(x, f, z) ==
  /\ z \in Asked /\ Span(z) /\ z.pid = x.pid /\ z.type = x.type
  /\ z.start <= x.start /\ x.end <= z.end /\ z.start <= f.start /\ f.end <= z.end
  /\ z.start = x.start \/ (f.type = x.type /\ z.start = f.start /\ x.start <= f.end + 1)
  /\ z.end = x.end \/ (f.type = x.type /\ z.end = f.end /\ f.start <= x.end + 1)

(* Taking in a lock, the request grows by bytes of its type only.          *)
LEMMA AbsorbGrown ==
  ASSUME NEW l0, NEW c, NEW r, NEW s, NEW f, At(l0, c, r, s, f), f.pid = c.pid,
         NEW z, Absorbs(s.ld, f, z)
  PROVE  Grown(s.list, c, s.ld, z)
<1>1. /\ Good(s.list) /\ Canonical(s.list) /\ c \in Asked
      /\ s.flp \in 1 .. Len(s.list) /\ f = s.list[s.flp]
      /\ {f.start, f.end, s.ld.start, s.ld.end} \subseteq Nat /\ f.start <= f.end
      /\ s.ld.pid = c.pid /\ s.ld.type = c.type
  BY AtIs
<1>2. c.start \in Int /\ c.end \in Int /\ z.start \in Int /\ z.end \in Int
  BY <1>1 DEF Absorbs, Asked
<1>3. ASSUME NEW b, NEW y, b \in Int, In(b, z), ~In(b, s.ld)
      PROVE  On(s.list, c.pid, b, y) <=> y = c.type
  <2>1. f.type = c.type /\ f.start <= b /\ b <= f.end
    <3>1. /\ z.start = s.ld.start \/ (f.type = c.type /\ z.start = f.start /\ s.ld.start <= f.end + 1)
          /\ z.end = s.ld.end \/ (f.type = c.type /\ z.end = f.end /\ f.start <= s.ld.end + 1)
          /\ z.start <= f.start /\ f.end <= z.end
      BY <1>1 DEF Absorbs
    <3>2. z.start <= b /\ b <= z.end /\ (b < s.ld.start \/ s.ld.end < b)
      BY <1>1, <1>2, <1>3 DEF In
    <3>3. CASE b < s.ld.start
      BY <1>1, <1>2, <1>3, <3>1, <3>2, <3>3
    <3>4. CASE s.ld.end < b
      BY <1>1, <1>2, <1>3, <3>1, <3>2, <3>4
    <3> QED
      BY <3>2, <3>3, <3>4
  <2> QED
    BY <1>1, <1>3, <2>1, OneLock DEF On
<1> QED
  BY <1>1, <1>2, <1>3 DEF Grown, Absorbs

(* u is s with the request and its place changed, as the deletion of f     *)
(* needs it.                                                               *)
Readied(s, f, u) ==
  /\ u \in LoopState /\ u.list = s.list /\ u.flp = s.flp /\ u.woken = s.woken
  /\ u.reccnt = s.reccnt /\ u.ret = s.ret
  /\ Absorbs(s.ld, f, u.ld)
  /\ \/ u.insrtp = s.flp - 1 /\ u.ld.start = f.start
     \/ u.insrtp = s.insrtp /\ u.ld.start = s.ld.start /\ s.ld.start < f.start

(* After a deletion insrtp is still before the place for the request.      *)
LEMMA DeletePoint ==
  ASSUME NEW l0, NEW c, NEW r, NEW s, NEW f, At(l0, c, r, s, f), NEW u, Readied(s, f, u),
         c.type # "F_UNLCK", NEW m, m = RemoveAt(s.list, s.flp)
  PROVE  Point(m, s.flp, u.insrtp, u.ld)
<1>1. /\ Good(s.list) /\ Canonical(s.list)
      /\ s.flp \in 1 .. Len(s.list) /\ f = s.list[s.flp]
      /\ {f.start, f.end, s.ld.start, s.ld.end} \subseteq Nat
      /\ s.flp \in Nat /\ Len(s.list) \in Nat /\ s.insrtp \in Nat
  BY AtIs
<1>2. /\ Len(m) = Len(s.list) - 1
      /\ \A k \in 1 .. Len(s.list) - 1 : m[k] = IF k < s.flp THEN s.list[k] ELSE s.list[k + 1]
  BY <1>1, Deleted
<1>3. Point(s.list, s.flp, s.insrtp, s.ld)
  BY DEF At, Loop
<1>4. \A k \in 1 .. Len(m) : \E j \in 1 .. Len(s.list) : m[k] = s.list[j]
  <2> TAKE k \in 1 .. Len(m)
  <2>1. k \in 1 .. Len(s.list) /\ k + 1 \in 1 .. Len(s.list)
    BY <1>1, <1>2
  <2> QED
    BY <1>2, <2>1
<1>5. CASE u.insrtp = s.flp - 1 /\ u.ld.start = f.start
  <2>1. CASE s.flp = 1
    <3>1. \A k \in 1 .. Len(m) : f.start <= m[k].start
      <4> TAKE k \in 1 .. Len(m)
      <4>1. PICK j \in 1 .. Len(s.list) : m[k] = s.list[j]
        BY <1>4
      <4>2. s.flp <= j
        BY <2>1
      <4> QED
        BY <1>1, <4>1, <4>2, CanonicalIs
    <3>2. u.insrtp = 0 /\ Len(m) \in Nat
      BY <1>1, <1>2, <1>5, <2>1
    <3> QED
      BY <1>5, <2>1, <3>1, <3>2 DEF Point
  <2>2. CASE s.flp # 1
    <3>1. PICK n \in 1 .. Len(s.list) : n = u.insrtp
      BY <1>1, <1>5, <2>2
    <3>2. n < s.flp /\ n \in 0 .. Len(m) /\ n # 0 /\ n <= s.flp
      BY <1>1, <1>2, <1>5, <2>2, <3>1
    <3>3. m[n] = s.list[n]
      BY <1>1, <1>2, <3>2
    <3>4. s.list[n].start <= f.start
      BY <1>1, <3>2, CanonicalIs
    <3> QED
      BY <1>5, <3>1, <3>2, <3>3, <3>4 DEF Point
  <2> QED
    BY <2>1, <2>2
<1>6. CASE u.insrtp = s.insrtp /\ u.ld.start = s.ld.start /\ s.ld.start < f.start
  <2>1. CASE s.insrtp = 0
    <3>1. \A k \in 1 .. Len(m) : s.ld.start <= m[k].start
      BY <1>3, <1>4, <2>1 DEF Point
    <3>2. 0 \in 0 .. Len(m)
      BY <1>1, <1>2
    <3>3. Point(m, s.flp, 0, u.ld)
      BY <1>1, <1>6, <3>1, <3>2 DEF Point
    <3> QED
      BY <1>6, <2>1, <3>3
  <2>2. CASE s.insrtp # 0
    <3>1. PICK n \in 1 .. Len(s.list) : n = s.insrtp /\ s.list[n].start <= s.ld.start /\ n <= s.flp
      BY <1>1, <1>3, <2>2 DEF Point
    <3>2. n < s.flp
      BY <1>1, <1>6, <3>1
    <3>3. n \in 0 .. Len(m) /\ n # 0 /\ m[n] = s.list[n]
      BY <1>1, <1>2, <3>1, <3>2
    <3> QED
      BY <1>6, <3>1, <3>2, <3>3 DEF Point
  <2> QED
    BY <2>1, <2>2
<1> QED
  BY <1>5, <1>6 DEF Readied

(* After a deletion the locks before flp still are clear of the request.   *)
LEMMA DeleteBehind ==
  ASSUME NEW l0, NEW c, NEW r, NEW s, NEW f, At(l0, c, r, s, f), f.pid = c.pid,
         NEW z, Absorbs(s.ld, f, z), NEW m, m = RemoveAt(s.list, s.flp)
  PROVE  /\ Behind(m, s.flp, z)
         /\ f.type = c.type /\ z.end = f.end /\ z.start = s.ld.start => Behind(m, 0, z)
<1>1. /\ Good(s.list) /\ Canonical(s.list)
      /\ s.flp \in 1 .. Len(s.list) /\ f = s.list[s.flp]
      /\ {f.start, f.end, s.ld.start, s.ld.end} \subseteq Nat /\ f.start <= f.end
      /\ s.flp \in Nat /\ Len(s.list) \in Nat
      /\ s.ld.pid = c.pid /\ s.ld.type = c.type
  BY AtIs
<1>2. /\ Len(m) = Len(s.list) - 1
      /\ \A k \in 1 .. Len(s.list) - 1 : m[k] = IF k < s.flp THEN s.list[k] ELSE s.list[k + 1]
  BY <1>1, Deleted
<1>3. Behind(s.list, s.flp, s.ld)
  BY DEF At, Loop
<1>4. /\ z.pid = c.pid /\ z.type = c.type
      /\ z.start = s.ld.start \/ (f.type = c.type /\ z.start = f.start)
  BY <1>1 DEF Absorbs
<1>5. ASSUME NEW k \in 1 .. Len(s.list), k < s.flp, s.list[k].pid = c.pid
      PROVE  /\ s.list[k].end < z.start
             /\ s.list[k].type = c.type => s.list[k].end + 1 < z.start
  <2>1. CASE z.start = s.ld.start
    BY <1>1, <1>3, <1>5, <2>1 DEF Behind
  <2>2. CASE f.type = c.type /\ z.start = f.start
    BY <1>1, <1>5, <2>2, CanonicalIs
  <2> QED
    BY <1>4, <2>1, <2>2
<1>6. Behind(m, s.flp, z)
  <2> SUFFICES ASSUME NEW k \in 1 .. Len(m), k < s.flp, m[k].pid = z.pid
               PROVE  m[k].end < z.start /\ (m[k].type = z.type => m[k].end + 1 < z.start)
    BY <1>1 DEF Behind
  <2>1. k \in 1 .. Len(s.list) /\ m[k] = s.list[k]
    BY <1>1, <1>2
  <2> QED
    BY <1>4, <1>5, <2>1
<1>7. ASSUME f.type = c.type, z.end = f.end, z.start = s.ld.start PROVE Behind(m, 0, z)
  <2> SUFFICES ASSUME NEW k \in 1 .. Len(m), m[k].pid = z.pid PROVE Clear(m[k], z)
    BY DEF Behind, Clear
  <2>1. CASE k < s.flp
    <3>1. k \in 1 .. Len(s.list) /\ m[k] = s.list[k]
      BY <1>1, <1>2, <2>1
    <3> QED
      BY <1>4, <1>5, <2>1, <3>1 DEF Clear
  <2>2. CASE ~(k < s.flp)
    <3>1. PICK j \in 1 .. Len(s.list) : j = k + 1 /\ s.flp < j
      BY <1>1, <1>2, <2>2
    <3>2. m[k] = s.list[j]
      BY <1>1, <1>2, <2>2, <3>1
    <3>3. f.end < s.list[j].start /\ (f.type = s.list[j].type => f.end + 1 < s.list[j].start)
      BY <1>1, <1>4, <3>1, <3>2, CanonicalIs
    <3> QED
      BY <1>4, <1>7, <3>2, <3>3 DEF Clear
  <2> QED
    BY <2>1, <2>2
<1> QED
  BY <1>6, <1>7

(* The lock at flp is deleted, and the request may have been extended over *)
(* it.                                                                     *)
LEMMA DeleteStep ==
  ASSUME NEW l0, NEW c, NEW r, NEW s, NEW f, At(l0, c, r, s, f), f.pid = c.pid,
         NEW u, Readied(s, f, u)
  PROVE  /\ Loop(l0, c, r, Delete(u)) /\ Nearer(s, Delete(u))
         /\ f.type = c.type /\ u.ld.end = f.end /\ u.ld.start = s.ld.start =>
              Loop(l0, c, r, Stop(Delete(u))) /\ Nearer(s, Stop(Delete(u)))
<1>1. /\ Good(s.list) /\ Canonical(s.list)
      /\ s.flp \in 1 .. Len(s.list) /\ f = s.list[s.flp] /\ c \in Asked
      /\ s.flp \in Nat /\ Len(s.list) \in Nat /\ s.reccnt = r + Len(s.list) /\ r \in Int
      /\ s.ld.pid = c.pid /\ s.ld.type = c.type /\ {f.start, f.end} \subseteq Nat
  BY AtIs
<1>2. /\ u \in LoopState /\ u.list = s.list /\ u.flp = s.flp /\ u.woken = s.woken
      /\ u.reccnt = s.reccnt /\ u.ret = s.ret /\ Absorbs(s.ld, f, u.ld)
  BY DEF Readied
<1>3. PICK t : t = Delete(u)
  OBVIOUS
<1>4. /\ t \in LoopState /\ t.list = RemoveAt(s.list, s.flp) /\ t.reccnt = s.reccnt - 1
      /\ t.ld = u.ld /\ t.insrtp = u.insrtp /\ t.flp = s.flp
      /\ t.woken = s.woken \cup Waiters(f) /\ t.ret = s.ret
  BY <1>1, <1>2, <1>3, DeleteIs
<1>5. PICK m : m = RemoveAt(s.list, s.flp)
  OBVIOUS
<1>6. /\ Good(m) /\ Canonical(m) /\ Others(s.list, m, s.flp)
      /\ Less(s.list, m, f.pid, f.start, f.end) /\ Len(m) = Len(s.list) - 1
  BY <1>1, <1>5, Deleted
<1>7. Loop(l0, c, r, s) /\ s.ret = ""
  BY DEF At
<1>8. Span(u.ld) /\ u.ld.pid = c.pid /\ u.ld.type = c.type
      /\ u.ld.start <= f.start /\ f.end <= u.ld.end
  BY <1>1, <1>2 DEF Absorbs
<1>9. t.reccnt = r + Len(m)
  BY <1>1, <1>4, <1>6
<1>10. Kept(l0, m, t.woken)
  <2>1. Kept(l0, s.list, s.woken)
    BY <1>7 DEF Loop
  <2> QED
    BY <1>1, <1>4, <1>6, <2>1, KeptStep
<1>11. Owned(l0, m, c.pid)
  <2>1. Owned(l0, s.list, c.pid)
    BY <1>7 DEF Loop
  <2> QED
    BY <1>6, <2>1, OwnedStep
<1>12. Rest(l0, c, m, u.ld)
  <2>1. Rest(l0, c, s.list, s.ld)
    BY <1>7 DEF Loop
  <2>2. Grown(s.list, c, s.ld, u.ld)
    BY <1>2, AbsorbGrown
  <2>3. Less(s.list, m, c.pid, f.start, f.end) /\ f.start \in Int /\ f.end \in Int
    BY <1>1, <1>6
  <2> QED
    BY ONLY <1>8, <2>1, <2>2, <2>3, RestStep
<1>13. /\ Behind(m, s.flp, u.ld)
       /\ f.type = c.type /\ u.ld.end = f.end /\ u.ld.start = s.ld.start => Behind(m, 0, u.ld)
  BY <1>2, <1>5, DeleteBehind
<1>14. c.type # "F_UNLCK" => Point(m, s.flp, u.insrtp, u.ld)
  BY <1>5, DeletePoint
<1>15. Loop(l0, c, r, t)
  BY <1>1, <1>4, <1>5, <1>6, <1>7, <1>8, <1>9, <1>10, <1>11, <1>12, <1>13, <1>14 DEF Loop
<1>16. ASSUME f.type = c.type, u.ld.end = f.end, u.ld.start = s.ld.start
       PROVE  Loop(l0, c, r, Stop(t)) /\ Nearer(s, Stop(t))
  <2>1. PICK v : v = Stop(t)
    OBVIOUS
  <2>2. /\ v \in LoopState /\ v.list = m /\ v.reccnt = t.reccnt
        /\ v.ld = u.ld /\ v.insrtp = u.insrtp /\ v.flp = 0
        /\ v.woken = t.woken /\ v.ret = s.ret
    BY <1>4, <1>5, <2>1 DEF Stop, LoopState
  <2>3. Behind(m, 0, u.ld)
    BY <1>13, <1>16
  <2>4. c.type # "F_UNLCK" => Point(m, 0, u.insrtp, u.ld)
    BY <1>14 DEF Point
  <2>5. Loop(l0, c, r, v)
    BY <1>1, <1>6, <1>7, <1>8, <1>9, <1>10, <1>11, <1>12, <2>2, <2>3, <2>4 DEF Loop
  <2>6. Nearer(s, v)
    BY <2>2 DEF Nearer, Ended
  <2> QED
    BY <2>1, <2>5, <2>6
<1>17. Nearer(s, t)
  <2>1. Len(t.list) - t.flp < Len(s.list) - s.flp
    BY ONLY <1>1, <1>4, <1>5, <1>6
  <2> QED
    BY <2>1 DEF Nearer
<1> QED
  BY <1>3, <1>15, <1>16, <1>17

-----------------------------------------------------------------------------
(* The turns that shorten or split a lock                                  *)

(* Any change of the lock at flp within the bytes of the request.          *)
LEMMA ChangeStep ==
  ASSUME NEW l0, NEW c, NEW r, NEW s, NEW f, At(l0, c, r, s, f),
         NEW v \in LoopState, v.ld = s.ld, v.woken = s.woken \cup Waiters(f), v.ret = "",
         v.reccnt = r + Len(v.list), Good(v.list), Canonical(v.list),
         Others(s.list, v.list, s.flp), NEW from \in Int, NEW to \in Int,
         Less(s.list, v.list, c.pid, from, to), s.ld.start <= from, to <= s.ld.end,
         Behind(v.list, v.flp, v.ld),
         c.type # "F_UNLCK" => Point(v.list, v.flp, v.insrtp, v.ld)
  PROVE  Loop(l0, c, r, v)
<1>1. /\ s.flp \in 1 .. Len(s.list) /\ f = s.list[s.flp] /\ c \in Asked /\ s.ld \in Asked
      /\ {s.ld.start, s.ld.end} \subseteq Nat
      /\ s.ld.pid = c.pid /\ s.ld.type = c.type
  BY ONLY At(l0, c, r, s, f), AtIs
<1>2. Loop(l0, c, r, s) /\ s.ret = ""
  BY DEF At
<1>3. /\ Kept(l0, s.list, s.woken) /\ Owned(l0, s.list, c.pid) /\ Rest(l0, c, s.list, s.ld)
      /\ Span(s.ld)
  BY <1>2 DEF Loop
<1>4. Kept(l0, v.list, v.woken)
  BY <1>1, <1>3, KeptStep
<1>5. Owned(l0, v.list, c.pid)
  BY <1>3, OwnedStep
<1>6. Grown(s.list, c, s.ld, s.ld)
  <2>1. {c.start, c.end} \subseteq Int
    BY <1>1 DEF Asked
  <2>2. {s.ld.start, s.ld.end} \subseteq Int /\ s.ld.start <= s.ld.start /\ s.ld.end <= s.ld.end
    BY ONLY <1>1
  <2> QED
    BY ONLY <2>1, <2>2 DEF Grown
<1>7. Rest(l0, c, v.list, s.ld)
  BY <1>3, <1>6, RestStep
<1> QED
  BY <1>1, <1>3, <1>4, <1>5, <1>7 DEF Loop

(* The fields of the state after Shrink().                                 *)
LEMMA ShrinkIs ==
  ASSUME NEW s \in LoopState, s.flp \in 1 .. Len(s.list), NEW t, t = Shrink(s)
  PROVE  /\ t \in LoopState /\ t.list = Shortened(s.list, s.flp, s.ld.start - 1)
         /\ t.reccnt = s.reccnt /\ t.ld = s.ld /\ t.insrtp = s.flp /\ t.flp = s.flp
         /\ t.woken = s.woken \cup Waiters(s.list[s.flp]) /\ t.ret = s.ret
<1>1. PICK i : i = s.flp
  OBVIOUS
<1>2. PICK l : l = s.list
  OBVIOUS
<1>3. /\ l \in Seq(LockRec) /\ s.woken \subseteq Owner \X Int /\ i \in 1 .. Len(l) /\ i \in Nat
      /\ s.ld.start \in Int
  BY <1>1, <1>2 DEF LoopState, Asked
<1>4. PICK e \in Int : e = s.ld.start - 1
  BY <1>3
<1>5. PICK m : m = Shortened(l, i, e)
  OBVIOUS
<1>6. PICK g : g = [l[i] EXCEPT !.end = e, !.wakeflg = FALSE]
  OBVIOUS
<1>7. l[i] \in LockRec
  BY <1>3
<1>8. g \in LockRec
  BY <1>6, <1>7 DEF LockRec
<1>9. m = [l EXCEPT ![i] = g]
  BY <1>5, <1>6 DEF Shortened
<1>10. m \in Seq(LockRec)
  BY <1>3, <1>8, <1>9
<1>11. PICK w : w = s.woken \cup Waiters(l[i])
  OBVIOUS
<1>12. w \in SUBSET (Owner \X Int)
  BY <1>3, <1>7, <1>11, WaitersAre
<1>14. t = [s EXCEPT !.list = m, !.woken = w, !.insrtp = i]
  <2>1. [l EXCEPT ![i] = [@ EXCEPT !.end = e, !.wakeflg = FALSE]] = m
    BY <1>5 DEF Shortened
  <2> QED
    BY <1>1, <1>2, <1>4, <1>11, <2>1 DEF Shrink
<1>15. /\ t \in LoopState /\ t.list = m /\ t.reccnt = s.reccnt /\ t.ld = s.ld /\ t.insrtp = i
       /\ t.flp = s.flp /\ t.woken = w /\ t.ret = s.ret
  BY <1>3, <1>10, <1>12, <1>14 DEF LoopState
<1> QED
  BY <1>1, <1>2, <1>4, <1>5, <1>11, <1>15

(* The lock loses its end to the request.                                  *)
LEMMA ShrinkStep ==
  ASSUME NEW l0, NEW c, NEW r, NEW s, NEW f, At(l0, c, r, s, f), f.pid = c.pid,
         f.type # c.type, f.start < s.ld.start, s.ld.start <= f.end, f.end <= s.ld.end
  PROVE  Loop(l0, c, r, Skip(Shrink(s))) /\ Nearer(s, Skip(Shrink(s)))
<1>1. /\ s \in LoopState /\ Good(s.list) /\ Canonical(s.list)
      /\ s.flp \in 1 .. Len(s.list) /\ f = s.list[s.flp]
      /\ {f.start, f.end, s.ld.start, s.ld.end} \subseteq Nat
      /\ s.flp \in Nat /\ Len(s.list) \in Nat
      /\ s.ld.pid = c.pid /\ s.ld.type = c.type /\ s.reccnt = r + Len(s.list)
  BY AtIs
<1>2. PICK t : t = Shrink(s)
  OBVIOUS
<1>3. /\ t \in LoopState /\ t.list = Shortened(s.list, s.flp, s.ld.start - 1)
      /\ t.reccnt = s.reccnt /\ t.ld = s.ld /\ t.insrtp = s.flp /\ t.flp = s.flp
      /\ t.woken = s.woken \cup Waiters(f) /\ t.ret = s.ret
  BY <1>1, <1>2, ShrinkIs
<1>4. PICK e \in Nat : e = s.ld.start - 1 /\ e + 1 = s.ld.start
  BY <1>1
<1>5. PICK m : m = Shortened(s.list, s.flp, e)
  OBVIOUS
<1>6. /\ Good(m) /\ Canonical(m) /\ Others(s.list, m, s.flp)
      /\ Less(s.list, m, f.pid, e + 1, f.end)
      /\ Len(m) = Len(s.list)
      /\ m[s.flp].pid = f.pid /\ m[s.flp].type = f.type /\ m[s.flp].start = f.start
      /\ m[s.flp].end = e
      /\ \A k \in 1 .. Len(s.list) : k # s.flp => m[k] = s.list[k]
  <2>1. s.list[s.flp].start <= e /\ e <= s.list[s.flp].end
    BY <1>1, <1>4
  <2> QED
    BY <1>1, <1>5, <2>1, ShortenedIs
<1>7. PICK v : v = Skip(t)
  OBVIOUS
<1>8. /\ v \in LoopState /\ v.list = m /\ v.reccnt = s.reccnt /\ v.ld = s.ld
      /\ v.insrtp = s.flp /\ v.flp = s.flp + 1 /\ v.woken = s.woken \cup Waiters(f) /\ v.ret = s.ret
  <2>1. PICK n \in Nat : n = s.flp + 1
    BY <1>1
  <2>2. v = [t EXCEPT !.flp = n]
    BY <1>3, <1>7, <2>1 DEF Skip
  <2> QED
    BY <1>3, <1>4, <1>5, <2>1, <2>2 DEF LoopState
<1>9. Behind(s.list, s.flp, s.ld) /\ s.ret = ""
  BY DEF At, Loop
<1>10. Behind(m, s.flp + 1, s.ld)
  <2> SUFFICES ASSUME NEW k \in 1 .. Len(m), k < s.flp + 1, m[k].pid = s.ld.pid
               PROVE  m[k].end < s.ld.start /\ (m[k].type = s.ld.type => m[k].end + 1 < s.ld.start)
    BY <1>1 DEF Behind
  <2>1. CASE k < s.flp
    <3>1. k \in 1 .. Len(s.list) /\ m[k] = s.list[k] /\ s.flp # 0
      BY <1>1, <1>6, <2>1
    <3> QED
      BY <1>9, <2>1, <3>1 DEF Behind
  <2>2. CASE k = s.flp
    BY <1>1, <1>4, <1>6, <2>2
  <2> QED
    BY <1>1, <2>1, <2>2
<1>11. Point(m, s.flp + 1, s.flp, s.ld)
  BY <1>1, <1>6 DEF Point
<1>12. Less(s.list, m, c.pid, s.ld.start, f.end)
  BY <1>4, <1>6
<1>13. Loop(l0, c, r, v)
  <2>1. /\ s.ld.start \in Int /\ f.end \in Int /\ s.ld.start <= s.ld.start /\ f.end <= s.ld.end
        /\ v.reccnt = r + Len(v.list)
    BY <1>1, <1>6, <1>8
  <2>2. /\ Good(v.list) /\ Canonical(v.list) /\ Others(s.list, v.list, s.flp)
        /\ Less(s.list, v.list, c.pid, s.ld.start, f.end)
        /\ Behind(v.list, v.flp, v.ld) /\ Point(v.list, v.flp, v.insrtp, v.ld)
        /\ v.ld = s.ld /\ v.woken = s.woken \cup Waiters(f) /\ v.ret = ""
        /\ v \in LoopState
    BY <1>6, <1>8, <1>9, <1>10, <1>11, <1>12
  <2> QED
    BY ONLY At(l0, c, r, s, f), <2>1, <2>2, ChangeStep
<1>14. Nearer(s, v)
  <2>1. Len(v.list) - v.flp < Len(s.list) - s.flp
    BY ONLY <1>1, <1>6, <1>8
  <2> QED
    BY <2>1 DEF Nearer
<1> QED
  BY <1>2, <1>7, <1>13, <1>14

(* The fields of the state after Split().                                  *)
LEMMA SplitIs ==
  ASSUME NEW s \in LoopState, s.flp \in 1 .. Len(s.list), NEW t, t = Split(s)
  PROVE  \/ t = [s EXCEPT !.ret = "ENOLCK"]
         \/ /\ t \in LoopState
            /\ t.list = InsertAt(s.list, After(s.list, s.flp, s.ld.end + 1) + 1,
                                 Remainder(s.list[s.flp], s.ld.end))
            /\ t.reccnt = s.reccnt + 1 /\ t.ld = s.ld /\ t.insrtp = s.insrtp /\ t.flp = s.flp
            /\ t.woken = s.woken /\ t.ret = s.ret
<1>1. PICK i : i = s.flp
  OBVIOUS
<1>2. PICK l : l = s.list
  OBVIOUS
<1>3. /\ l \in Seq(LockRec) /\ i \in 1 .. Len(l) /\ i \in Nat /\ Len(l) \in Nat
      /\ s.ld.end \in Int /\ s.reccnt \in Int /\ s.mem \in Int
  <2>1. l \in Seq(LockRec) /\ s.ld \in Asked /\ s.reccnt \in Int /\ s.mem \in Int /\ i \in 1 .. Len(l)
    BY <1>1, <1>2 DEF LoopState
  <2> QED
    BY <2>1 DEF Asked
<1>4. PICK b \in Int : b = s.ld.end + 1
  BY <1>3
<1>5. PICK g : g = [l[i] EXCEPT !.start = b]
  OBVIOUS
<1>6. PICK x : x = Lock(g.pid, g.type, g.start, g.end)
  OBVIOUS
<1>7. l[i] \in LockRec
  BY <1>3
<1>8. g \in LockRec /\ g.pid = l[i].pid /\ g.type = l[i].type /\ g.start = b /\ g.end = l[i].end
  BY <1>5, <1>7 DEF LockRec
<1>9. x = Remainder(l[i], s.ld.end)
  BY <1>4, <1>6, <1>8 DEF Remainder
<1>10. x \in LockRec
  BY <1>6, <1>8 DEF Lock, LockRec
<1>11. PICK a : a = After(l, i, b)
  OBVIOUS
<1>12. a \in i .. Len(l)
  <2>1. After(l, i, b) \in i .. Len(l)
    BY ONLY <1>3, b \in Int, AfterIs
  <2> QED
    BY <1>11, <2>1
<1>13. PICK j \in 1 .. Len(l) + 1 : j = a + 1
  BY <1>3, <1>12
<1>14. PICK m : m = InsertAt(l, j, x)
  OBVIOUS
<1>15. m \in Seq(LockRec)
  <2>1. x \in LockRec /\ l \in Seq(LockRec)
    BY <1>3, <1>10
  <2>2. Placed(LockRec, l, j, x, m)
    BY ONLY <1>13, <1>14, <2>1, PlacedIs
  <2> QED
    BY ONLY <2>2 DEF Placed
<1>16. PICK n \in Int : n = s.reccnt + 1
  BY <1>3
<1>17. PICK q \in Int : q = s.mem - 1
  BY <1>3
<1>18. t = insflck(s, g, a)
  BY <1>1, <1>2, <1>4, <1>5, <1>11 DEF Split
<1>19. \/ t = [s EXCEPT !.ret = "ENOLCK"]
       \/ t = [s EXCEPT !.list = m, !.reccnt = n, !.mem = q]
  BY <1>2, <1>6, <1>13, <1>14, <1>16, <1>17, <1>18 DEF insflck
<1>20. CASE t = [s EXCEPT !.list = m, !.reccnt = n, !.mem = q]
  <2>1. /\ t \in LoopState /\ t.list = m /\ t.reccnt = n /\ t.ld = s.ld /\ t.insrtp = s.insrtp
        /\ t.flp = s.flp /\ t.woken = s.woken /\ t.ret = s.ret
    BY <1>15, <1>20 DEF LoopState
  <2> QED
    BY <1>1, <1>2, <1>4, <1>9, <1>11, <1>13, <1>14, <1>16, <2>1
<1> QED
  BY <1>19, <1>20

(* What is left after the request has been cut out of the lock f is clear. *)
LEMMA CarveClear ==
  ASSUME NEW l0, NEW c, NEW r, NEW s, NEW f, At(l0, c, r, s, f), f.pid = c.pid,
         f.type # c.type, s.ld.end < f.end,
         NEW h, NEW x, x = Remainder(f, s.ld.end),
         h = x \/ \E j \in (1 .. Len(s.list)) \ {s.flp} : h = s.list[j]
  PROVE  Clear(h, s.ld)
<1>1. /\ Good(s.list) /\ Canonical(s.list)
      /\ s.flp \in 1 .. Len(s.list) /\ f = s.list[s.flp]
      /\ {f.start, f.end, s.ld.start, s.ld.end} \subseteq Nat
      /\ s.flp \in Nat /\ s.ld.pid = c.pid /\ s.ld.type = c.type
  BY ONLY At(l0, c, r, s, f), AtIs
<1>2. CASE h = x
  <2>1. h.start = s.ld.end + 1 /\ h.type # s.ld.type
    BY <1>1, <1>2 DEF Remainder, Lock
  <2> QED
    BY <1>1, <2>1 DEF Clear
<1>3. ASSUME NEW j \in (1 .. Len(s.list)) \ {s.flp}, h = s.list[j] PROVE Clear(h, s.ld)
  <2>1. s.list[j].start \in Nat /\ s.list[j].end \in Nat
    BY <1>1, GoodElem
  <2>2. CASE j < s.flp
    <3>1. Behind(s.list, s.flp, s.ld)
      BY DEF At, Loop
    <3> QED
      BY <1>1, <1>3, <2>2, <3>1 DEF Behind, Clear
  <2>3. CASE s.flp < j
    <3>1. s.list[j].pid = f.pid => f.end < s.list[j].start
      BY <1>1, <2>3, CanonicalIs
    <3>2. s.list[j].pid = f.pid => s.ld.end + 1 < s.list[j].start
      BY <1>1, <2>1, <3>1
    <3> QED
      BY <1>1, <1>3, <2>1, <3>2 DEF Clear
  <2> QED
    BY <1>1, <2>2, <2>3
<1> QED
  BY <1>2, <1>3

(* v is s with all but the tail x of f gone from the list.                 *)
CutOut(s, f, x, v) ==
  /\ x = Remainder(f, s.ld.end) /\ v \in LoopState
  /\ v.list = RemoveAt(InsertAt(s.list, After(s.list, s.flp, s.ld.end + 1) + 1, x), s.flp)
  /\ v.ld = s.ld /\ v.woken = s.woken \cup Waiters(f) /\ v.ret = "" /\ v.reccnt = s.reccnt
  /\ v.flp = 0

(* The request begins at the lock or before it: the lock goes but for its  *)
(* rest.                                                                   *)
LEMMA CarveOutStep ==
  ASSUME NEW l0, NEW c, NEW r, NEW s, NEW f, At(l0, c, r, s, f), f.pid = c.pid,
         f.type # c.type, f.start <= s.ld.end, s.ld.end < f.end, s.ld.start <= f.start,
         NEW x, NEW v, CutOut(s, f, x, v),
         \/ v.insrtp = s.flp - 1 /\ s.ld.start = f.start
         \/ v.insrtp = s.insrtp /\ s.ld.start < f.start
  PROVE  Loop(l0, c, r, v)
<1>1. /\ Good(s.list) /\ Canonical(s.list)
      /\ s.flp \in 1 .. Len(s.list) /\ f = s.list[s.flp]
      /\ {f.start, f.end, s.ld.start, s.ld.end} \subseteq Nat
      /\ s.flp \in Nat /\ Len(s.list) \in Nat /\ s.insrtp \in Nat
      /\ s.ld.pid = c.pid /\ s.ld.type = c.type /\ s.reccnt = r + Len(s.list)
      /\ s.ld.start <= s.ld.end
  BY ONLY At(l0, c, r, s, f), AtIs
<1>2. PICK a : a = After(s.list, s.flp, s.ld.end + 1)
  OBVIOUS
<1>0. PICK m : m = RemoveAt(InsertAt(s.list, a + 1, x), s.flp)
  OBVIOUS
<1>3. Cut(s.list, s.flp, s.ld.end, x)
  BY <1>1 DEF Cut, CutOut
<1>4. /\ Good(m) /\ Canonical(m) /\ Others(s.list, m, s.flp) /\ From(s.list, m, s.flp, x)
      /\ Less(s.list, m, f.pid, f.start, s.ld.end) /\ Len(m) = Len(s.list)
      /\ \A k \in 1 .. s.flp - 1 : m[k] = s.list[k]
  BY ONLY <1>1, <1>2, <1>0, <1>3, CarvedOut
<1>5. Behind(m, 0, s.ld)
  <2> SUFFICES ASSUME NEW k \in 1 .. Len(m) PROVE Clear(m[k], s.ld)
    BY DEF Behind
  <2>1. m[k] = x \/ \E j \in (1 .. Len(s.list)) \ {s.flp} : m[k] = s.list[j]
    BY <1>4 DEF From
  <2> QED
    BY <2>1, CarveClear DEF CutOut
<1>6. x.start = s.ld.end + 1 /\ s.ld.start <= x.start
  <2>1. s.ld.start <= s.ld.end + 1
    BY <1>1
  <2> QED
    BY <1>1, <2>1 DEF CutOut, Remainder, Lock
<1>7. ASSUME c.type # "F_UNLCK" PROVE Point(m, 0, v.insrtp, s.ld)
  <2>1. Point(s.list, s.flp, s.insrtp, s.ld)
    BY <1>7 DEF At, Loop
  <2>2. CASE v.insrtp = 0
    <3>1. \A j \in (1 .. Len(s.list)) \ {s.flp} : s.ld.start <= s.list[j].start
      <4>1. CASE v.insrtp = s.flp - 1 /\ s.ld.start = f.start
        <5> TAKE j \in (1 .. Len(s.list)) \ {s.flp}
        <5>1. s.flp <= j
          BY <1>1, <2>2, <4>1
        <5> QED
          BY <1>1, <4>1, <5>1, CanonicalIs
      <4>2. CASE v.insrtp = s.insrtp
        BY <2>1, <2>2, <4>2 DEF Point
      <4> QED
        BY <4>1, <4>2
    <3>2. \A k \in 1 .. Len(m) : s.ld.start <= m[k].start
      BY <1>4, <1>6, <3>1 DEF From
    <3>3. 0 \in 0 .. Len(m)
      BY <1>1, <1>4
    <3> QED
      BY <2>2, <3>2, <3>3 DEF Point
  <2>3. CASE v.insrtp # 0
    <3>1. v.insrtp \in 1 .. s.flp - 1 /\ s.list[v.insrtp].start <= s.ld.start
      <4>1. CASE v.insrtp = s.flp - 1 /\ s.ld.start = f.start
        <5>1. PICK n \in 1 .. Len(s.list) : n = s.flp - 1 /\ n < s.flp
          <6>1. s.flp # 1
            BY <2>3, <4>1
          <6> QED
            BY <1>1, <6>1
        <5>2. s.list[n].start <= f.start
          BY <1>1, <5>1, CanonicalIs
        <5> QED
          BY <1>1, <2>3, <4>1, <5>1, <5>2
      <4>2. CASE v.insrtp = s.insrtp /\ s.ld.start < f.start
        <5>1. s.insrtp <= s.flp /\ s.list[s.insrtp].start <= s.ld.start
          BY <1>1, <2>1, <2>3, <4>2 DEF Point
        <5>2. s.insrtp # s.flp
          BY <1>1, <4>2, <5>1
        <5> QED
          BY <1>1, <2>3, <4>2, <5>1, <5>2
      <4> QED
        BY <4>1, <4>2
    <3>2. m[v.insrtp] = s.list[v.insrtp] /\ v.insrtp \in 0 .. Len(m)
      BY <1>1, <1>4, <3>1
    <3> QED
      BY <2>3, <3>1, <3>2 DEF Point
  <2> QED
    BY <2>2, <2>3
<1>8. /\ v.ld = s.ld /\ v.woken = s.woken \cup Waiters(f) /\ v.ret = "" /\ v.list = m
      /\ v.reccnt = r + Len(v.list) /\ Good(v.list) /\ Canonical(v.list)
      /\ Others(s.list, v.list, s.flp)
      /\ f.start \in Int /\ s.ld.end \in Int
      /\ Less(s.list, v.list, c.pid, f.start, s.ld.end)
      /\ s.ld.start <= f.start /\ s.ld.end <= s.ld.end
      /\ Behind(v.list, v.flp, v.ld)
      /\ c.type # "F_UNLCK" => Point(v.list, v.flp, v.insrtp, v.ld)
      /\ v \in LoopState
  <2>1. v.list = m
    BY <1>2, <1>0 DEF CutOut
  <2>2. /\ v.ld = s.ld /\ v.woken = s.woken \cup Waiters(f) /\ v.ret = "" /\ v.flp = 0
        /\ v.reccnt = s.reccnt /\ v \in LoopState
    BY DEF CutOut
  <2>3. f.start \in Int /\ s.ld.end \in Int /\ s.ld.start <= f.start /\ s.ld.end <= s.ld.end
    BY <1>1
  <2> QED
    BY <1>1, <1>4, <1>5, <1>7, <2>1, <2>2, <2>3
<1> QED
  BY ONLY At(l0, c, r, s, f), <1>8, ChangeStep

(* v is s with f shortened and its tail x put on the list.                 *)
CutInTwo(s, f, x, v) ==
  /\ x = Remainder(f, s.ld.end) /\ v \in LoopState
  /\ v.list = Shortened(InsertAt(s.list, After(s.list, s.flp, s.ld.end + 1) + 1, x),
                        s.flp, s.ld.start - 1)
  /\ v.ld = s.ld /\ v.woken = s.woken \cup Waiters(f) /\ v.ret = "" /\ v.reccnt = s.reccnt + 1
  /\ v.flp = 0 /\ v.insrtp = s.flp

(* The request lies in the middle of the lock, which becomes two.          *)
LEMMA CarveMiddleStep ==
  ASSUME NEW l0, NEW c, NEW r, NEW s, NEW f, At(l0, c, r, s, f), f.pid = c.pid,
         f.type # c.type, f.start < s.ld.start, s.ld.end < f.end,
         NEW x, NEW v, CutInTwo(s, f, x, v)
  PROVE  Loop(l0, c, r, v)
<1>1. /\ Good(s.list) /\ Canonical(s.list)
      /\ s.flp \in 1 .. Len(s.list) /\ f = s.list[s.flp]
      /\ {f.start, f.end, s.ld.start, s.ld.end} \subseteq Nat
      /\ s.flp \in Nat /\ Len(s.list) \in Nat /\ s.ld.start <= s.ld.end
      /\ s.ld.pid = c.pid /\ s.ld.type = c.type /\ s.reccnt = r + Len(s.list) /\ r \in Int
  BY ONLY At(l0, c, r, s, f), AtIs
<1>2. PICK a : a = After(s.list, s.flp, s.ld.end + 1)
  OBVIOUS
<1>0. PICK m : m = Shortened(InsertAt(s.list, a + 1, x), s.flp, s.ld.start - 1)
  OBVIOUS
<1>3. Cut(s.list, s.flp, s.ld.end, x)
  <2>1. f.start <= s.ld.end
    BY <1>1
  <2> QED
    BY <1>1, <2>1 DEF Cut, CutInTwo
<1>4. /\ Good(m) /\ Canonical(m) /\ Others(s.list, m, s.flp)
      /\ \A k \in (1 .. Len(m)) \ {s.flp} :
           m[k] = x \/ \E j \in (1 .. Len(s.list)) \ {s.flp} : m[k] = s.list[j]
      /\ Less(s.list, m, f.pid, s.ld.start, s.ld.end) /\ Len(m) = Len(s.list) + 1
      /\ m[s.flp].pid = f.pid /\ m[s.flp].type = f.type /\ m[s.flp].start = f.start
      /\ m[s.flp].end = s.ld.start - 1
  <2>0. f.start \in Nat /\ s.ld.start \in Nat /\ s.ld.end \in Nat
        /\ s.ld.start <= s.ld.end /\ f.start < s.ld.start
    BY <1>1
  <2>1. PICK n \in Nat : n = s.ld.start - 1 /\ n + 1 = s.ld.start /\ n < s.ld.end /\ f.start <= n
    BY ONLY <2>0
  <2>2. m = Shortened(InsertAt(s.list, a + 1, x), s.flp, n) /\ Keeps(s.list, s.flp, n, s.ld.end)
    BY <1>1, <1>0, <2>1 DEF Keeps
  <2>3. InTwo(s.list, s.flp, n, s.ld.end, x, m)
    BY ONLY <1>2, <1>3, <2>2, CarvedMiddle
  <2> QED
    BY ONLY <1>1, <2>1, <2>3 DEF InTwo
<1>5. Behind(m, 0, s.ld)
  <2> SUFFICES ASSUME NEW k \in 1 .. Len(m) PROVE Clear(m[k], s.ld)
    BY DEF Behind
  <2>1. CASE k # s.flp
    <3>1. m[k] = x \/ \E j \in (1 .. Len(s.list)) \ {s.flp} : m[k] = s.list[j]
      BY <1>4, <2>1
    <3> QED
      BY <3>1, CarveClear DEF CutInTwo
  <2>2. CASE k = s.flp
    <3>1. m[k].end < s.ld.start /\ m[k].type # s.ld.type
      BY <1>1, <1>4, <2>2
    <3> QED
      BY <3>1 DEF Clear
  <2> QED
    BY <2>1, <2>2
<1>6. Point(m, 0, s.flp, s.ld)
  BY <1>1, <1>4 DEF Point
<1>7. /\ v.ld = s.ld /\ v.woken = s.woken \cup Waiters(f) /\ v.ret = "" /\ v.list = m
      /\ v.reccnt = r + Len(v.list) /\ Good(v.list) /\ Canonical(v.list)
      /\ Others(s.list, v.list, s.flp)
      /\ s.ld.start \in Int /\ s.ld.end \in Int
      /\ Less(s.list, v.list, c.pid, s.ld.start, s.ld.end)
      /\ s.ld.start <= s.ld.start /\ s.ld.end <= s.ld.end
      /\ Behind(v.list, v.flp, v.ld)
      /\ Point(v.list, v.flp, v.insrtp, v.ld)
      /\ v \in LoopState
  <2>1. v.list = m
    BY <1>2, <1>0 DEF CutInTwo
  <2>2. /\ v.ld = s.ld /\ v.woken = s.woken \cup Waiters(f) /\ v.ret = "" /\ v.flp = 0
        /\ v.reccnt = s.reccnt + 1 /\ v.insrtp = s.flp /\ v \in LoopState
    BY DEF CutInTwo
  <2>3. /\ s.ld.start \in Int /\ s.ld.end \in Int /\ s.ld.start <= s.ld.start
        /\ s.ld.end <= s.ld.end /\ v.reccnt = r + Len(m)
    <3>1. v.reccnt = s.reccnt + 1 /\ Len(m) = Len(s.list) + 1
      BY <1>4, <2>2
    <3>2. s.reccnt = r + Len(s.list) /\ r \in Int /\ Len(s.list) \in Nat
      BY <1>1
    <3>3. v.reccnt = r + Len(m)
      BY ONLY <3>1, <3>2
    <3> QED
      BY <1>1, <3>3
  <2> QED
    BY <1>1, <1>4, <1>5, <1>6, <2>1, <2>2, <2>3
<1> QED
  BY ONLY At(l0, c, r, s, f), <1>7, ChangeStep

(* The request is cut out of a lock of another type, or there is no record *)
(* for that and the list is as it was.                                     *)
LEMMA CarveStep ==
  ASSUME NEW l0, NEW c, NEW r, NEW s, NEW f, At(l0, c, r, s, f), f.pid = c.pid,
         f.type # c.type, f.start <= s.ld.end, s.ld.end < f.end
  PROVE  Loop(l0, c, r, Carve(s, Begins(s.ld, f))) /\ Nearer(s, Carve(s, Begins(s.ld, f)))
<1>1. /\ s \in LoopState /\ Good(s.list) /\ Canonical(s.list)
      /\ s.flp \in 1 .. Len(s.list) /\ f = s.list[s.flp]
      /\ {f.start, f.end, s.ld.start, s.ld.end} \subseteq Nat
      /\ s.flp \in Nat /\ Len(s.list) \in Nat /\ f \in LockRec
      /\ s.ld.pid = c.pid /\ s.ld.type = c.type /\ s.reccnt = r + Len(s.list) /\ r \in Int
  BY ONLY At(l0, c, r, s, f), AtIs
<1>2. Loop(l0, c, r, s) /\ s.ret = ""
  BY DEF At
<1>3. PICK b : b = Begins(s.ld, f)
  OBVIOUS
<1>4. PICK t : t = Split(s)
  OBVIOUS
<1>5. CASE t = [s EXCEPT !.ret = "ENOLCK"]
  <2>1. /\ t \in LoopState /\ t.list = s.list /\ t.reccnt = s.reccnt /\ t.ld = s.ld
        /\ t.insrtp = s.insrtp /\ t.flp = s.flp /\ t.woken = s.woken /\ t.ret = "ENOLCK"
    BY <1>1, <1>5 DEF LoopState
  <2>2. Carve(s, b) = t
    BY <1>4, <2>1 DEF Carve
  <2>3. Loop(l0, c, r, t)
    BY <1>2, <2>1 DEF Loop
  <2>4. Nearer(s, t)
    BY <2>1 DEF Nearer, Ended
  <2> QED
    BY <1>3, <2>2, <2>3, <2>4
<1>6. ASSUME /\ t \in LoopState
             /\ t.list = InsertAt(s.list, After(s.list, s.flp, s.ld.end + 1) + 1,
                                  Remainder(s.list[s.flp], s.ld.end))
             /\ t.reccnt = s.reccnt + 1 /\ t.ld = s.ld /\ t.insrtp = s.insrtp /\ t.flp = s.flp
             /\ t.woken = s.woken /\ t.ret = s.ret
      PROVE  Loop(l0, c, r, Carve(s, b)) /\ Nearer(s, Carve(s, b))
  <2>1. PICK x : x = Remainder(f, s.ld.end)
    OBVIOUS
  <2>2. Cut(s.list, s.flp, s.ld.end, x)
    BY <1>1, <2>1 DEF Cut
  <2>3. PICK a : a = After(s.list, s.flp, s.ld.end + 1)
    OBVIOUS
  <2>4. x \in LockRec
    BY <2>2, TailIs
  <2>5. a \in s.flp .. Len(s.list)
    BY ONLY <2>2, <2>3, TailPlace
  <2>6. t.list = InsertAt(s.list, a + 1, x)
    BY <1>1, <1>6, <2>1, <2>3
  <2>7. /\ Len(t.list) = Len(s.list) + 1 /\ t.flp \in 1 .. Len(t.list)
        /\ t.list[t.flp] = f
    <3>1. PICK j \in 1 .. Len(s.list) + 1 : j = a + 1
      BY <1>1, <2>5
    <3>2. s.list \in Seq(LockRec)
      BY <1>1 DEF Good
    <3>3. /\ InsertAt(s.list, j, x) \in Seq(LockRec) /\ Len(InsertAt(s.list, j, x)) = Len(s.list) + 1
          /\ \A k \in 1 .. Len(s.list) + 1 :
               InsertAt(s.list, j, x)[k] =
                 IF k < j THEN s.list[k] ELSE IF k = j THEN x ELSE s.list[k - 1]
      <4>1. PICK l : l = s.list
        OBVIOUS
      <4>2. j \in 1 .. Len(l) + 1
        BY <3>1, <4>1
      <4>3. l \in Seq(LockRec) /\ x \in LockRec
        BY <2>4, <3>2, <4>1
      <4>4. Placed(LockRec, l, j, x, InsertAt(l, j, x))
        BY ONLY <4>2, <4>3, PlacedIs
      <4> QED
        BY ONLY <4>1, <4>4 DEF Placed
    <3>4. s.flp < j /\ s.flp \in 1 .. Len(s.list) + 1
      BY <1>1, <2>5, <3>1
    <3>5. t.list = InsertAt(s.list, j, x)
      BY <2>6, <3>1
    <3> QED
      BY <1>1, <1>6, <3>3, <3>4, <3>5
  <2>8. CASE b = "S_MIDDLE"
    <3>1. f.start < s.ld.start
      BY <1>3, <2>8 DEF Begins
    <3>2. PICK u : u = Shrink(t)
      OBVIOUS
    <3>3. /\ u \in LoopState /\ u.list = Shortened(t.list, t.flp, t.ld.start - 1)
          /\ u.reccnt = t.reccnt /\ u.ld = t.ld /\ u.insrtp = t.flp /\ u.flp = t.flp
          /\ u.woken = t.woken \cup Waiters(t.list[t.flp]) /\ u.ret = t.ret
      BY <1>6, <2>7, <3>2, ShrinkIs
    <3>4. PICK v : v = Stop(u)
      OBVIOUS
    <3>5. /\ v \in LoopState /\ v.list = u.list /\ v.reccnt = u.reccnt /\ v.ld = u.ld
          /\ v.insrtp = u.insrtp /\ v.flp = 0 /\ v.woken = u.woken /\ v.ret = u.ret
      BY <3>3, <3>4 DEF Stop, LoopState
    <3>6. CutInTwo(s, f, x, v)
      BY <1>2, <1>6, <2>1, <2>3, <2>6, <2>7, <3>3, <3>5 DEF CutInTwo
    <3>7. Loop(l0, c, r, v)
      BY <3>1, <3>6, CarveMiddleStep
    <3>8. Carve(s, b) = v
      BY <1>2, <1>4, <1>6, <2>8, <3>2, <3>4 DEF Carve
    <3>9. Nearer(s, v)
      BY <3>5 DEF Nearer, Ended
    <3> QED
      BY <3>7, <3>8, <3>9
  <2>9. CASE b # "S_MIDDLE"
    <3>1. s.ld.start <= f.start /\ (b = "S_START" <=> s.ld.start = f.start)
      BY <1>1, <1>3, <2>9 DEF Begins
    <3>2. PICK u : u = IF b = "S_START" THEN Prev(t) ELSE t
      OBVIOUS
    <3>3. /\ u \in LoopState /\ u.list = t.list /\ u.reccnt = t.reccnt /\ u.ld = t.ld
          /\ u.insrtp = (IF b = "S_START" THEN s.flp - 1 ELSE s.insrtp)
          /\ u.flp = t.flp /\ u.woken = t.woken /\ u.ret = t.ret
      <4>1. PICK n \in Nat : n = s.flp - 1
        BY <1>1
      <4>2. Prev(t) = [t EXCEPT !.insrtp = n]
        BY <1>6, <4>1 DEF Prev
      <4>3. CASE b = "S_START"
        <5>1. u = [t EXCEPT !.insrtp = n]
          BY <3>2, <4>2, <4>3
        <5> QED
          BY <1>6, <4>1, <4>3, <5>1 DEF LoopState
      <4>4. CASE b # "S_START"
        BY <1>6, <3>2, <4>4
      <4> QED
        BY <4>3, <4>4
    <3>4. PICK w : w = Delete(u)
      OBVIOUS
    <3>5. /\ w \in LoopState /\ w.list = RemoveAt(u.list, u.flp) /\ w.reccnt = u.reccnt - 1
          /\ w.ld = u.ld /\ w.insrtp = u.insrtp /\ w.flp = u.flp /\ w.mem = u.mem
          /\ w.woken = u.woken \cup Waiters(u.list[u.flp]) /\ w.ret = u.ret
      BY <2>7, <3>3, <3>4, DeleteIs
    <3>6. PICK v : v = Stop(w)
      OBVIOUS
    <3>7. /\ v \in LoopState /\ v.list = w.list /\ v.reccnt = w.reccnt /\ v.ld = w.ld
          /\ v.insrtp = w.insrtp /\ v.flp = 0 /\ v.woken = w.woken /\ v.ret = w.ret
      BY <3>5, <3>6 DEF Stop, LoopState
    <3>8. v.reccnt = s.reccnt
      BY <1>1, <1>6, <3>3, <3>5, <3>7
    <3>9. CutOut(s, f, x, v)
      BY <1>2, <1>6, <2>1, <2>3, <2>6, <2>7, <3>3, <3>5, <3>7, <3>8 DEF CutOut
    <3>10. \/ v.insrtp = s.flp - 1 /\ s.ld.start = f.start
           \/ v.insrtp = s.insrtp /\ s.ld.start < f.start
      BY <1>1, <3>1, <3>3, <3>5, <3>7
    <3>11. Loop(l0, c, r, v)
      BY <3>1, <3>9, <3>10, CarveOutStep
    <3>12. Carve(s, b) = v
      BY <1>2, <1>4, <1>6, <2>9, <3>2, <3>4, <3>6 DEF Carve
    <3>13. Nearer(s, v)
      BY <3>7 DEF Nearer, Ended
    <3> QED
      BY <3>11, <3>12, <3>13
  <2> QED
    BY <2>8, <2>9
<1>7. \/ t = [s EXCEPT !.ret = "ENOLCK"]
      \/ /\ t \in LoopState
         /\ t.list = InsertAt(s.list, After(s.list, s.flp, s.ld.end + 1) + 1,
                              Remainder(s.list[s.flp], s.ld.end))
         /\ t.reccnt = s.reccnt + 1 /\ t.ld = s.ld /\ t.insrtp = s.insrtp /\ t.flp = s.flp
         /\ t.woken = s.woken /\ t.ret = s.ret
  BY ONLY <1>1, <1>4, SplitIs
<1> QED
  BY <1>3, <1>5, <1>6, <1>7

-----------------------------------------------------------------------------
(* A turn of the loop                                                      *)

(* The request is extended, or its place moved, and the lock f deleted.    *)
LEMMA ReadyEnd ==
  ASSUME NEW l0, NEW c, NEW r, NEW s, NEW f, At(l0, c, r, s, f), f.pid = c.pid,
         f.type = c.type, s.ld.start < f.start, f.start <= s.ld.end + 1, s.ld.end < f.end
  PROVE  \E u : /\ Readied(s, f, u) /\ u.ld.end = f.end /\ u.ld.start = s.ld.start
               /\ MergeEnd(s) = Delete(u)
<1>1. /\ s \in LoopState /\ f = s.list[s.flp] /\ s.ld \in Asked
      /\ {f.start, f.end, s.ld.start, s.ld.end} \subseteq Nat
      /\ f.start <= f.end /\ s.ld.start <= s.ld.end /\ f.end <= LastByte /\ LastByte \in Nat
      /\ s.ld.pid = c.pid /\ s.ld.type = c.type
  BY AtIs
<1>2. PICK x \in Asked : x = s.ld
  BY <1>1
<1>3. PICK e \in Int : e = f.end
  BY <1>1
<1>4. PICK z : z = [x EXCEPT !.end = e]
  OBVIOUS
<1>5. z \in Asked /\ z.pid = x.pid /\ z.type = x.type /\ z.start = x.start /\ z.end = e
  BY <1>4 DEF Asked
<1>0. PICK u : u = [s EXCEPT !.ld.end = s.list[s.flp].end]
  OBVIOUS
<1>6. u = [s EXCEPT !.ld = z]
  BY <1>0, <1>1, <1>2, <1>3, <1>4 DEF LoopState
<1>7. /\ u \in LoopState /\ u.list = s.list /\ u.flp = s.flp /\ u.woken = s.woken
      /\ u.reccnt = s.reccnt /\ u.ret = s.ret /\ u.insrtp = s.insrtp /\ u.ld = z
  BY <1>1, <1>5, <1>6 DEF LoopState
<1>8. Absorbs(s.ld, f, z)
  BY <1>1, <1>2, <1>3, <1>5 DEF Absorbs, Span, Byte
<1>9. u.ld.end = f.end /\ u.ld.start = s.ld.start
  BY <1>2, <1>3, <1>5, <1>7
<1>10. Readied(s, f, u)
  BY <1>7, <1>8, <1>9 DEF Readied
<1>11. MergeEnd(s) = Delete(u)
  BY <1>0 DEF MergeEnd
<1> QED
  BY <1>9, <1>10, <1>11

(* The extension to the start of a lock, ready for its deletion.           *)
LEMMA ReadyStart ==
  ASSUME NEW l0, NEW c, NEW r, NEW s, NEW f, At(l0, c, r, s, f), f.pid = c.pid,
         f.type = c.type, f.start < s.ld.start, s.ld.start <= f.end + 1, f.end < s.ld.end
  PROVE  \E u : Readied(s, f, u) /\ MergeStart(s) = Delete(u)
<1>1. /\ s \in LoopState /\ f = s.list[s.flp] /\ s.ld \in Asked /\ s.flp \in 1 .. Len(s.list)
      /\ {f.start, f.end, s.ld.start, s.ld.end} \subseteq Nat /\ s.flp \in Nat
      /\ f.start <= f.end /\ s.ld.start <= s.ld.end /\ s.ld.end <= LastByte /\ LastByte \in Nat
      /\ s.ld.pid = c.pid /\ s.ld.type = c.type
  BY AtIs
<1>2. PICK x \in Asked : x = s.ld
  BY <1>1
<1>3. PICK e \in Int : e = f.start
  BY <1>1
<1>4. PICK z : z = [x EXCEPT !.start = e]
  OBVIOUS
<1>5. z \in Asked /\ z.pid = x.pid /\ z.type = x.type /\ z.end = x.end /\ z.start = e
  BY <1>4 DEF Asked
<1>6. PICK v : v = [s EXCEPT !.ld.start = s.list[s.flp].start]
  OBVIOUS
<1>7. v = [s EXCEPT !.ld = z]
  BY <1>1, <1>2, <1>3, <1>4, <1>6 DEF LoopState
<1>8. /\ v \in LoopState /\ v.list = s.list /\ v.flp = s.flp /\ v.woken = s.woken
      /\ v.reccnt = s.reccnt /\ v.ret = s.ret /\ v.ld = z
  BY <1>1, <1>5, <1>7 DEF LoopState
<1>9. PICK n \in Nat : n = s.flp - 1
  BY <1>1
<1>0. PICK u : u = Prev(v)
  OBVIOUS
<1>10. u = [v EXCEPT !.insrtp = n]
  BY <1>0, <1>8, <1>9 DEF Prev
<1>11. /\ u \in LoopState /\ u.list = s.list /\ u.flp = s.flp /\ u.woken = s.woken
       /\ u.reccnt = s.reccnt /\ u.ret = s.ret /\ u.insrtp = n /\ u.ld = z
  BY <1>8, <1>10 DEF LoopState
<1>12. Absorbs(s.ld, f, z)
  <2>1. /\ z.start = f.start /\ z.end = s.ld.end /\ z.pid = s.ld.pid /\ z.type = s.ld.type
        /\ z \in Asked /\ f.type = s.ld.type
    BY <1>1, <1>2, <1>3, <1>5
  <2>2. f.start < s.ld.start /\ s.ld.start <= f.end + 1 /\ f.end < s.ld.end
    OBVIOUS
  <2>3. z.start \in 0 .. LastByte /\ z.end \in 0 .. LastByte /\ z.start <= z.end
    BY ONLY <1>1, <2>1, <2>2
  <2>4. /\ z.start <= s.ld.start /\ s.ld.end <= z.end /\ z.start <= f.start /\ f.end <= z.end
        /\ s.ld.start <= f.end + 1
    BY ONLY <1>1, <2>1, <2>2
  <2> QED
    BY ONLY <2>1, <2>3, <2>4 DEF Absorbs, Span, Byte
<1>13. u.insrtp = s.flp - 1 /\ u.ld.start = f.start
  BY <1>3, <1>5, <1>9, <1>11
<1>14. Readied(s, f, u)
  BY <1>11, <1>12, <1>13 DEF Readied
<1>15. MergeStart(s) = Delete(u)
  BY <1>0, <1>6 DEF MergeStart
<1> QED
  BY <1>14, <1>15

(* The lock begins where the request does.                                 *)
LEMMA ReadyPrev ==
  ASSUME NEW l0, NEW c, NEW r, NEW s, NEW f, At(l0, c, r, s, f), f.pid = c.pid,
         s.ld.start = f.start, f.end <= s.ld.end, NEW u, u = Prev(s)
  PROVE  Readied(s, f, u)
<1>1. /\ s \in LoopState /\ f = s.list[s.flp] /\ s.ld \in Asked /\ s.flp \in 1 .. Len(s.list)
      /\ {f.start, f.end, s.ld.start, s.ld.end} \subseteq Nat /\ s.flp \in Nat
      /\ f.start <= f.end /\ s.ld.start <= s.ld.end /\ s.ld.end <= LastByte /\ LastByte \in Nat
  BY AtIs
<1>2. PICK n \in Nat : n = s.flp - 1
  BY <1>1
<1>3. u = [s EXCEPT !.insrtp = n]
  BY <1>2 DEF Prev
<1>4. /\ u \in LoopState /\ u.list = s.list /\ u.flp = s.flp /\ u.woken = s.woken
      /\ u.reccnt = s.reccnt /\ u.ret = s.ret /\ u.insrtp = n /\ u.ld = s.ld
  BY <1>1, <1>3 DEF LoopState
<1>5. Absorbs(s.ld, f, s.ld)
  BY <1>1 DEF Absorbs, Span, Byte
<1>6. u.insrtp = s.flp - 1 /\ u.ld.start = f.start
  BY <1>2, <1>4
<1> QED
  BY <1>4, <1>5, <1>6 DEF Readied

(* The lock lies within the request.                                       *)
LEMMA ReadySame ==
  ASSUME NEW l0, NEW c, NEW r, NEW s, NEW f, At(l0, c, r, s, f), f.pid = c.pid,
         s.ld.start < f.start, f.end <= s.ld.end
  PROVE  Readied(s, f, s)
<1>1. /\ s \in LoopState /\ s.ld \in Asked
      /\ {f.start, f.end, s.ld.start, s.ld.end} \subseteq Nat
      /\ f.start <= f.end /\ s.ld.start <= s.ld.end /\ s.ld.end <= LastByte /\ LastByte \in Nat
  BY AtIs
<1>2. Absorbs(s.ld, f, s.ld)
  BY <1>1 DEF Absorbs, Span, Byte
<1> QED
  BY <1>1, <1>2 DEF Readied

(* Every case of the switch keeps the invariant of the loop.               *)
LEMMA TurnStep ==
  ASSUME NEW l0, NEW c, NEW r, NEW s, NEW f, At(l0, c, r, s, f)
  PROVE  Loop(l0, c, r, AdjustOne(s)) /\ Nearer(s, AdjustOne(s))
<1>1. /\ s \in LoopState /\ f = s.list[s.flp] /\ f \in LockRec
      /\ {f.start, f.end, s.ld.start, s.ld.end} \subseteq Nat
      /\ f.start <= f.end /\ s.ld.start <= s.ld.end
      /\ s.ld.pid = c.pid /\ s.ld.type = c.type
  BY AtIs
<1>2. PICK same : same = (s.ld.type = f.type)
  OBVIOUS
<1>3. PICK t : t = AdjustOne(s)
  OBVIOUS
<1>4. \/ f.pid # s.ld.pid /\ t = Skip(s)
      \/ f.pid = s.ld.pid /\ Outcome(s, s.ld, f, s.ld.type = f.type, t)
  BY <1>1, <1>3, Outcomes
<1>5. CASE f.pid # c.pid
  <2>1. t = Skip(s)
    BY <1>1, <1>4, <1>5
  <2> QED
    BY <1>3, <1>5, <2>1, SkipStep
<1>6. CASE f.pid = c.pid
  <2>1. Outcome(s, s.ld, f, f.type = c.type, t)
    BY <1>1, <1>4, <1>6 DEF Outcome
  <2>2. ASSUME s.ld.end < f.start, f.type = c.type => s.ld.end + 1 < f.start, t = Stop(s)
        PROVE  Loop(l0, c, r, t) /\ Nearer(s, t)
    BY <1>6, <2>2, StopStep
  <2>3. ASSUME f.type = c.type, s.ld.start < f.start, f.start <= s.ld.end + 1,
               s.ld.end < f.end, t = Stop(MergeEnd(s))
        PROVE  Loop(l0, c, r, t) /\ Nearer(s, t)
    <3>1. PICK u : /\ Readied(s, f, u) /\ u.ld.end = f.end /\ u.ld.start = s.ld.start
                   /\ MergeEnd(s) = Delete(u)
      BY <1>6, <2>3, ReadyEnd
    <3> QED
      BY <1>6, <2>3, <3>1, DeleteStep
  <2>4. ASSUME f.type = c.type, f.start <= s.ld.start, s.ld.end <= f.end, t = [s EXCEPT !.ret = "0"]
        PROVE  Loop(l0, c, r, t) /\ Nearer(s, t)
    BY <1>6, <2>4, WholeStep
  <2>5. ASSUME s.ld.start = f.start, f.end <= s.ld.end, t = Delete(Prev(s))
        PROVE  Loop(l0, c, r, t) /\ Nearer(s, t)
    <3>1. PICK u : u = Prev(s)
      OBVIOUS
    <3>2. Readied(s, f, u)
      BY <1>6, <2>5, <3>1, ReadyPrev
    <3> QED
      BY <1>6, <2>5, <3>1, <3>2, DeleteStep
  <2>6. ASSUME s.ld.start < f.start, f.end <= s.ld.end, t = Delete(s)
        PROVE  Loop(l0, c, r, t) /\ Nearer(s, t)
    BY <1>6, <2>6, ReadySame, DeleteStep
  <2>7. ASSUME f.type = c.type, s.ld.start < f.start, f.end = s.ld.end, t = Stop(Delete(s))
        PROVE  Loop(l0, c, r, t) /\ Nearer(s, t)
    <3>1. Readied(s, f, s)
      BY <1>1, <1>6, <2>7, ReadySame
    <3> QED
      BY <1>6, <2>7, <3>1, DeleteStep
  <2>8. ASSUME f.type # c.type, f.start <= s.ld.end, s.ld.end < f.end, t = Carve(s, Begins(s.ld, f))
        PROVE  Loop(l0, c, r, t) /\ Nearer(s, t)
    BY <1>6, <2>8, CarveStep
  <2>9. ASSUME f.type # c.type, f.start < s.ld.start, s.ld.start <= f.end, f.end <= s.ld.end,
               t = Skip(Shrink(s))
        PROVE  Loop(l0, c, r, t) /\ Nearer(s, t)
    BY <1>6, <2>9, ShrinkStep
  <2>10. ASSUME f.type = c.type, f.start < s.ld.start, s.ld.start <= f.end + 1,
                f.end < s.ld.end, t = MergeStart(s)
         PROVE  Loop(l0, c, r, t) /\ Nearer(s, t)
    <3>1. PICK u : Readied(s, f, u) /\ MergeStart(s) = Delete(u)
      BY <1>6, <2>10, ReadyStart
    <3> QED
      BY <1>6, <2>10, <3>1, DeleteStep
  <2>11. ASSUME f.type # c.type, s.ld.start = f.end + 1, t = Skip(s)
         PROVE  Loop(l0, c, r, t) /\ Nearer(s, t)
    <3>1. f.end < s.ld.start
      BY <1>1, <2>11
    <3> QED
      BY <2>11, <3>1, SkipStep
  <2>12. ASSUME f.end + 1 < s.ld.start, t = Skip([s EXCEPT !.insrtp = s.flp])
         PROVE  Loop(l0, c, r, t) /\ Nearer(s, t)
    BY <1>6, <2>12, AfterStep
  <2> QED
    BY <1>3, <2>1, <2>2, <2>3, <2>4, <2>5, <2>6, <2>7, <2>8, <2>9, <2>10, <2>11, <2>12
    DEF Outcome
<1> QED
  BY <1>5, <1>6

-----------------------------------------------------------------------------
(* The loop                                                                *)

(* The types of the state of the loop.                                     *)
LEMMA LoopType ==
  ASSUME NEW l0, NEW c, NEW r, NEW s, Loop(l0, c, r, s)
  PROVE  /\ s \in LoopState /\ Good(s.list) /\ Canonical(s.list) /\ s.ld \in Asked
         /\ s.flp \in Nat /\ Len(s.list) \in Nat /\ s.insrtp \in Nat
         /\ {s.ld.start, s.ld.end} \subseteq Nat /\ s.ld.start <= s.ld.end
         /\ s.ld.end <= LastByte /\ LastByte \in Nat
<1>1. s \in LoopState /\ Good(s.list) /\ Canonical(s.list) /\ Span(s.ld)
  BY DEF Loop
<1>2. s.flp \in Nat /\ s.insrtp \in Nat /\ s.ld \in Asked
  BY <1>1 DEF LoopState
<1>3. Len(s.list) \in Nat
  BY <1>1 DEF Good
<1>4. {s.ld.start, s.ld.end} \subseteq Nat /\ s.ld.start <= s.ld.end /\ s.ld.end <= LastByte
  BY <1>1, SizeAssumption DEF Span, Byte
<1> QED
  BY <1>1, <1>2, <1>3, <1>4, SizeAssumption

(* So does every turn, and it ends the loop or comes nearer to the end of  *)
(* the list.                                                               *)
LEMMA TurnKeeps ==
  ASSUME NEW l0, NEW c, NEW r \in Int, NEW s, Loop(l0, c, r, s)
  PROVE  /\ Loop(l0, c, r, Turn(s))
         /\ Ended(s) => Turn(s) = s
         /\ ~Ended(s) => Nearer(s, Turn(s))
<1>1. CASE Ended(s)
  BY <1>1 DEF Turn, Ended
<1>2. CASE ~Ended(s)
  <2>1. s.ret = "" /\ s.flp # 0 /\ ~(s.flp > Len(s.list))
    BY <1>2 DEF Ended
  <2>2. s.flp \in Nat /\ Len(s.list) \in Nat
    BY LoopType
  <2>3. s.flp \in 1 .. Len(s.list)
    <3>1. PICK i \in Nat : i = s.flp
      BY <2>2
    <3>2. PICK n \in Nat : n = Len(s.list)
      BY <2>2
    <3>3. i # 0 /\ ~(i > n)
      BY <2>1, <3>1, <3>2
    <3>4. i \in 1 .. n
      BY ONLY <3>3, i \in Nat, n \in Nat
    <3> QED
      BY <3>1, <3>2, <3>4
  <2>4. PICK f : f = s.list[s.flp]
    OBVIOUS
  <2>5. At(l0, c, r, s, f)
    BY <2>1, <2>3, <2>4 DEF At
  <2>6. Turn(s) = AdjustOne(s)
    BY <1>2 DEF Turn, Ended
  <2> QED
    BY <1>2, <2>5, <2>6, TurnStep
<1> QED
  BY <1>1, <1>2

(* h[k] is the state after k turns.                                        *)
ScanFcn(s0, n, h) == h = [k \in 0 .. n |-> IF k = 0 THEN s0 ELSE Turn(h[k - 1])]

(* One more turn.                                                          *)
LEMMA ScanFcnStep ==
  ASSUME NEW s0, NEW n \in Nat, NEW h, ScanFcn(s0, n, h)
  PROVE  \E g : ScanFcn(s0, n + 1, g)
<1>1. PICK g : g = [k \in 0 .. n + 1 |-> IF k <= n THEN h[k] ELSE Turn(h[n])]
  OBVIOUS
<1>2. \A k \in 0 .. n + 1 : g[k] = IF k = 0 THEN s0 ELSE Turn(g[k - 1])
  <2> TAKE k \in 0 .. n + 1
  <2>1. \A j \in 0 .. n : g[j] = h[j]
    BY <1>1
  <2>2. \A j \in 0 .. n : h[j] = IF j = 0 THEN s0 ELSE Turn(h[j - 1])
    BY DEF ScanFcn
  <2>3. CASE k <= n
    <3>1. k \in 0 .. n /\ (k # 0 => k - 1 \in 0 .. n)
      BY <2>3
    <3> QED
      BY <2>1, <2>2, <3>1
  <2>4. CASE k = n + 1
    <3>1. g[k] = Turn(h[n]) /\ g[n] = h[n] /\ k # 0 /\ k - 1 = n
      BY <1>1, <2>4
    <3> QED
      BY <3>1
  <2> QED
    BY <2>3, <2>4
<1>3. g = [k \in 0 .. n + 1 |-> IF k = 0 THEN s0 ELSE Turn(g[k - 1])]
  BY <1>1, <1>2
<1> QED
  BY <1>3 DEF ScanFcn

(* The recursive function is defined for any number of turns.              *)
LEMMA ScanFcnExists ==
  ASSUME NEW s0, NEW n \in Nat
  PROVE  \E h : ScanFcn(s0, n, h)
<1>1. PICK B : B = {m \in Nat : ~ \E h : ScanFcn(s0, m, h)}
  OBVIOUS
<1>2. 0 \notin B
  <2>1. PICK h : h = [k \in 0 .. 0 |-> s0]
    OBVIOUS
  <2>2. h = [k \in 0 .. 0 |-> IF k = 0 THEN s0 ELSE Turn(h[k - 1])]
    BY <2>1
  <2> QED
    BY <1>1, <2>2 DEF ScanFcn
<1>3. ASSUME NEW m \in B, \A k \in 0 .. m - 1 : k \notin B PROVE FALSE
  <2>1. m \in Nat /\ m # 0 /\ ~ \E h : ScanFcn(s0, m, h)
    BY <1>1, <1>2
  <2>2. PICK k \in Nat : k + 1 = m /\ k \in 0 .. m - 1
    BY <2>1
  <2>3. \E h : ScanFcn(s0, k, h)
    BY <1>1, <1>3, <2>2
  <2>4. \E h : ScanFcn(s0, k + 1, h)
    BY ONLY <2>2, <2>3, ScanFcnStep
  <2> QED
    BY <2>1, <2>2, <2>4
<1>4. B = {}
  BY <1>1, <1>3, NatMin
<1> QED
  BY <1>1, <1>4

(* Scan() is its last value.                                               *)
LEMMA ScanIs ==
  ASSUME NEW s0, NEW n \in Nat
  PROVE  \E h : ScanFcn(s0, n, h) /\ Scan(s0, n) = h[n]
<1>1. PICK h : h = CHOOSE g : ScanFcn(s0, n, g)
  OBVIOUS
<1>2. ScanFcn(s0, n, h)
  BY <1>1, ScanFcnExists
<1>3. Scan(s0, n) = h[n]
  BY ONLY <1>1 DEF Scan, ScanFcn
<1> QED
  BY <1>2, <1>3

(* The turns are as many as the list had locks, and enough to end the loop.*)
LEMMA ScanKeeps ==
  ASSUME NEW l0, NEW c, NEW r \in Int, NEW s0, Loop(l0, c, r, s0), s0.flp # 0,
         NEW n, n = Len(s0.list)
  PROVE  Loop(l0, c, r, Scan(s0, n)) /\ Ended(Scan(s0, n))
<1>1. /\ s0 \in LoopState /\ n \in Nat /\ s0.flp \in Nat /\ s0.flp >= 1
  BY LoopType
<1>2. PICK h : ScanFcn(s0, n, h) /\ Scan(s0, n) = h[n]
  BY <1>1, ScanIs
<1>3. h[0] = s0 /\ \A k \in 1 .. n : h[k] = Turn(h[k - 1])
  <2>1. \A k \in 0 .. n : h[k] = IF k = 0 THEN s0 ELSE Turn(h[k - 1])
    BY <1>2 DEF ScanFcn
  <2>2. 0 \in 0 .. n /\ \A k \in 1 .. n : k \in 0 .. n /\ k # 0
    BY <1>1
  <2> QED
    BY <2>1, <2>2
<1>4. PICK B : B = {k \in Nat : k <= n /\ ~(Loop(l0, c, r, h[k]) /\
                      (Ended(h[k]) \/ Len(h[k].list) - h[k].flp <= n - 1 - k))}
  OBVIOUS
<1>5. 0 \notin B
  <2>1. Len(s0.list) - s0.flp <= n - 1 - 0
    BY <1>1
  <2> QED
    BY <1>3, <1>4, <2>1
<1>6. ASSUME NEW m \in B, \A k \in 0 .. m - 1 : k \notin B PROVE FALSE
  <2>1. /\ m \in Nat /\ m <= n /\ m # 0
        /\ ~(Loop(l0, c, r, h[m]) /\ (Ended(h[m]) \/ Len(h[m].list) - h[m].flp <= n - 1 - m))
    BY <1>4, <1>5
  <2>2. PICK k \in Nat : k + 1 = m /\ k \in 0 .. m - 1 /\ k <= n /\ k = m - 1
    BY <1>1, <2>1
  <2>3. PICK s : s = h[k]
    OBVIOUS
  <2>4. PICK t : t = h[m]
    OBVIOUS
  <2>5. Loop(l0, c, r, s) /\ (Ended(s) \/ Len(s.list) - s.flp <= n - 1 - k)
    BY <1>4, <1>6, <2>2, <2>3
  <2>6. t = Turn(s)
    <3>1. m \in 1 .. n
      BY <1>1, <2>1
    <3> QED
      BY <1>3, <2>2, <2>3, <2>4, <3>1
  <2>7. Loop(l0, c, r, t)
    BY <2>5, <2>6, TurnKeeps
  <2>8. CASE Ended(s)
    <3>1. t = s
      BY <2>5, <2>6, <2>8, TurnKeeps
    <3> QED
      BY <2>1, <2>4, <2>7, <2>8, <3>1
  <2>9. CASE ~Ended(s)
    <3>1. Nearer(s, t)
      BY <2>5, <2>6, <2>9, TurnKeeps
    <3>2. CASE Ended(t)
      BY <2>1, <2>4, <2>7, <3>2
    <3>3. CASE Len(t.list) - t.flp < Len(s.list) - s.flp
      <4>1. /\ s.flp \in Nat /\ t.flp \in Nat /\ Len(s.list) \in Nat /\ Len(t.list) \in Nat
        BY <2>5, <2>7, LoopType
      <4>2. Len(t.list) - t.flp <= n - 1 - m
        BY ONLY <1>1, <2>1, <2>2, <2>5, <2>9, <3>3, <4>1
      <4> QED
        BY <2>1, <2>4, <2>7, <4>2
    <3> QED
      BY <3>1, <3>2, <3>3 DEF Nearer
  <2> QED
    BY <2>8, <2>9
<1>7. B = {}
  <2>1. B \subseteq Nat
    BY <1>4
  <2> QED
    BY <1>6, <2>1, NatMin
<1>8. PICK t : t = h[n]
  OBVIOUS
<1>9. Loop(l0, c, r, t) /\ (Ended(t) \/ Len(t.list) - t.flp <= n - 1 - n)
  BY <1>1, <1>4, <1>7, <1>8
<1>10. t.flp \in Nat /\ Len(t.list) \in Nat
  BY <1>9, LoopType
<1>11. Ended(t)
  <2>1. CASE Len(t.list) - t.flp <= n - 1 - n
    <3>1. t.flp > Len(t.list)
      BY ONLY <1>1, <1>10, <2>1
    <3> QED
      BY <3>1 DEF Ended
  <2> QED
    BY <1>9, <2>1
<1> QED
  BY <1>2, <1>8, <1>9, <1>11

-----------------------------------------------------------------------------
(* What flckadj() does to the list                                         *)

(* The scan may begin at insrtp, or at the first lock.                     *)
Starts(l, x, i) ==
  LET flp == IF i = 0 THEN 1 ELSE i IN
  Behind(l, flp, x) /\ (x.type # "F_UNLCK" => Point(l, flp, i, x))

Start(l, c, cnt, mem, i) ==
  [list |-> l, reccnt |-> cnt, ld |-> c, insrtp |-> i, flp |-> IF i = 0 THEN 1 ELSE i,
   mem |-> mem, woken |-> {}, ret |-> ""]

(* The invariant holds where the loop begins.                              *)
LEMMA StartLoop ==
  ASSUME NEW l, Good(l), Canonical(l), NEW c \in Asked, Span(c), NEW cnt \in Int,
         NEW mem \in Int, NEW i \in Nat, Starts(l, c, i),
         NEW s, s = Start(l, c, cnt, mem, i)
  PROVE  Loop(l, c, cnt - Len(l), s) /\ s.flp # 0 /\ cnt - Len(l) \in Int /\ s.list = l
<1>1. l \in Seq(LockRec) /\ Len(l) \in Nat
  BY DEF Good
<1>2. PICK flp \in Nat : flp = (IF i = 0 THEN 1 ELSE i) /\ flp # 0
  OBVIOUS
<1>3. s = [list |-> l, reccnt |-> cnt, ld |-> c, insrtp |-> i, flp |-> flp, mem |-> mem,
           woken |-> {}, ret |-> ""]
  BY <1>2 DEF Start
<1>4. /\ s \in LoopState /\ s.list = l /\ s.reccnt = cnt /\ s.ld = c /\ s.insrtp = i
      /\ s.flp = flp /\ s.woken = {} /\ s.ret = ""
  BY ONLY <1>1, <1>3, cnt \in Int, mem \in Int, c \in Asked, i \in Nat, flp \in Nat DEF LoopState
<1>5. Behind(l, flp, c) /\ (c.type # "F_UNLCK" => Point(l, flp, i, c))
  BY <1>2 DEF Starts
<1>6. Kept(l, l, {}) /\ Owned(l, l, c.pid)
  BY DEF Kept, Owned
<1>7. Rest(l, c, l, c)
  <2>1. c.start \in Int /\ c.end \in Int
    BY DEF Asked
  <2> QED
    BY <2>1 DEF Rest
<1>8. cnt = (cnt - Len(l)) + Len(l)
  BY <1>1
<1>9. Loop(l, c, cnt - Len(l), s)
  BY <1>4, <1>5, <1>6, <1>7, <1>8 DEF Loop
<1>10. cnt - Len(l) \in Int
  BY <1>1
<1> QED
  BY <1>2, <1>4, <1>9, <1>10

(* blocked() finds such a place, and for F_UNLCK the whole list is scanned.*)
LEMMA InsertPointIs ==
  ASSUME Good(v_filocks), Canonical(v_filocks), NEW c \in Asked, NEW i, i = InsertPoint(c)
  PROVE  i \in Nat /\ Starts(v_filocks, c, i)
<1>1. PICK l : l = v_filocks
  OBVIOUS
<1>2. Good(l) /\ Canonical(l) /\ Len(l) \in Nat /\ DOMAIN l = 1 .. Len(l) /\ c.start \in Int
  BY <1>1 DEF Good, Asked
<1>3. PICK before : before = {k \in 1 .. Len(l) : l[k].start < c.start}
  OBVIOUS
<1>4. PICK own : own = {k \in before : l[k].pid = c.pid /\ c.start - 1 <= l[k].end}
  OBVIOUS
<1>5. i = IF own # {} THEN Min(own) ELSE Max(before \cup {0})
  BY <1>1, <1>2, <1>3, <1>4 DEF InsertPoint
<1>6. ASSUME NEW n \in before, i = n, \A k \in own : n <= k
      PROVE  i \in Nat /\ Starts(l, c, i)
  <2>1. n \in 1 .. Len(l) /\ l[n].start < c.start /\ n # 0 /\ n \in Nat /\ n \in 0 .. Len(l)
    BY <1>2, <1>3
  <2>2. ASSUME NEW k \in 1 .. Len(l), k < n, l[k].pid = c.pid
        PROVE  l[k].end < c.start /\ (l[k].type = c.type => l[k].end + 1 < c.start)
    <3>1. l[k].start <= l[n].start
      BY <1>2, <2>1, <2>2, CanonicalIs
    <3>2. l[k].start \in Nat /\ l[k].end \in Nat /\ l[n].start \in Nat
      BY <1>2, <2>1, GoodElem
    <3>3. k \in before
      BY <1>2, <1>3, <2>1, <3>1, <3>2
    <3>4. k \notin own
      BY <1>2, <1>6, <2>1, <2>2
    <3>5. ~(c.start - 1 <= l[k].end)
      BY <1>4, <2>2, <3>3, <3>4
    <3> QED
      BY <1>2, <3>2, <3>5
  <2>3. Behind(l, n, c)
    BY <2>1, <2>2 DEF Behind
  <2>4. Point(l, n, n, c)
    <3>1. l[n].start \in Nat
      BY <1>2, <2>1, GoodElem
    <3> QED
      BY <1>2, <2>1, <3>1 DEF Point
  <2> QED
    BY <1>6, <2>1, <2>3, <2>4 DEF Starts
<1>7. CASE own # {}
  <2>1. own \subseteq Nat /\ own \subseteq before
    BY <1>3, <1>4
  <2>2. Min(own) \in own /\ \A k \in own : Min(own) <= k
    BY <1>7, <2>1, MinIs
  <2> QED
    BY <1>1, <1>5, <1>6, <1>7, <2>1, <2>2
<1>8. CASE own = {} /\ before # {}
  <2>0. PICK S : S = before \cup {0}
    OBVIOUS
  <2>1. S \subseteq 0 .. Len(l) /\ S # {} /\ 0 \in Nat
    BY <1>2, <1>3, <2>0
  <2>2. i \in before \cup {0} /\ \A k \in before \cup {0} : k <= i
    <3>1. Max(S) \in S /\ \A k \in S : k <= Max(S)
      BY ONLY <1>2, <2>1, MaxIs
    <3> QED
      BY <1>5, <1>8, <2>0, <3>1
  <2>3. i # 0
    BY <1>3, <1>8, <2>2
  <2> QED
    BY <1>1, <1>6, <1>8, <2>2, <2>3
<1>9. CASE own = {} /\ before = {}
  <2>1. before \cup {0} \subseteq 0 .. Len(l)
    BY <1>2, <1>9
  <2>2. i = 0
    BY <1>2, <1>5, <1>9, <2>1, MaxIs
  <2>3. \A k \in 1 .. Len(l) : c.start <= l[k].start
    <3> TAKE k \in 1 .. Len(l)
    <3>1. l[k].start \in Nat /\ ~(l[k].start < c.start)
      BY <1>2, <1>3, <1>9, GoodElem
    <3> QED
      BY <1>2, <3>1
  <2>4. Behind(l, 1, c)
    BY <1>2 DEF Behind
  <2>5. Point(l, 1, 0, c)
    BY <1>2, <2>3 DEF Point
  <2> QED
    BY <1>1, <2>2, <2>4, <2>5 DEF Starts
<1> QED
  BY <1>7, <1>8, <1>9

(* F_UNLCK begins with the first lock.                                     *)
LEMMA UnlockStarts ==
  ASSUME NEW l, Good(l), NEW c, c.type = "F_UNLCK", NEW i, i \in {0, 1}
  PROVE  i \in Nat /\ Starts(l, c, i)
<1>1. Len(l) \in Nat
  BY DEF Good
<1>2. Behind(l, 1, c)
  BY <1>1 DEF Behind
<1> QED
  BY <1>2 DEF Starts

-----------------------------------------------------------------------------
(* m is l with the bytes of x as the request c wants them.                 *)
Fills(l, m, c, x) ==
  \A p, b, y : b \in Int =>
    (On(m, p, b, y) <=>
       IF p = c.pid /\ In(b, x) THEN y = c.type /\ c.type # "F_UNLCK" ELSE On(l, p, b, y))

Exact(l0, c, m) == Fills(l0, m, c, c)

(* No lock on the list is an unlock.                                       *)
LEMMA NotUnlocked ==
  ASSUME NEW l, Good(l), NEW p, NEW b
  PROVE  ~On(l, p, b, "F_UNLCK")
<1>1. \A k \in 1 .. Len(l) : l[k].type \in LockType
  BY GoodElem
<1> QED
  BY <1>1 DEF On, LockType

(* What is right for the grown request is right for the request that was   *)
(* made: the rest had its type already.                                    *)
LEMMA ExactIs ==
  ASSUME NEW l0, Good(l0), NEW c \in Asked, NEW l, Owned(l0, l, c.pid), NEW x \in Asked,
         Rest(l0, c, l, x), NEW m, Fills(l, m, c, x)
  PROVE  Exact(l0, c, m)
<1>1. {c.start, c.end, x.start, x.end} \subseteq Int
  BY DEF Asked
<1>2. \A b : b \in Int /\ In(b, c) => In(b, x)
  BY <1>1 DEF Rest, In
<1>3. ASSUME NEW p, NEW b, NEW y, b \in Int
      PROVE  On(m, p, b, y) <=>
               IF p = c.pid /\ In(b, c) THEN y = c.type /\ c.type # "F_UNLCK" ELSE On(l0, p, b, y)
  <2>1. On(m, p, b, y) <=>
          IF p = c.pid /\ In(b, x) THEN y = c.type /\ c.type # "F_UNLCK" ELSE On(l, p, b, y)
    BY <1>3 DEF Fills
  <2>2. CASE p # c.pid
    <3>1. On(l, p, b, y) <=> On(l0, p, b, y)
      BY <1>3, <2>2 DEF Owned
    <3> QED
      BY <2>1, <2>2, <3>1
  <2>3. CASE p = c.pid /\ ~In(b, x)
    <3>1. On(l, c.pid, b, y) <=> On(l0, c.pid, b, y)
      BY <1>3, <2>3 DEF Rest
    <3> QED
      BY <1>2, <1>3, <2>1, <2>3, <3>1
  <2>4. CASE p = c.pid /\ In(b, c)
    BY <1>2, <1>3, <2>1, <2>4
  <2>5. CASE p = c.pid /\ In(b, x) /\ ~In(b, c)
    <3>1. \A z : On(l0, c.pid, b, z) <=> z = c.type
      BY <1>3, <2>5 DEF Rest
    <3>2. c.type # "F_UNLCK"
      BY <3>1, NotUnlocked
    <3> QED
      BY <2>1, <2>5, <3>1, <3>2
  <2> QED
    BY <2>2, <2>3, <2>4, <2>5
<1> QED
  BY <1>3 DEF Exact, Fills

(* Nothing need be done when the caller has the region.                    *)
LEMMA WholeFills ==
  ASSUME NEW l, Good(l), Canonical(l), NEW c \in Asked, NEW x \in Asked,
         x.pid = c.pid, x.type = c.type, Whole(l, x)
  PROVE  Fills(l, l, c, x)
<1>1. PICK k \in 1 .. Len(l) :
        l[k].pid = x.pid /\ l[k].type = x.type /\ l[k].start <= x.start /\ x.end <= l[k].end
  BY DEF Whole
<1>2. /\ l[k].start \in Nat /\ l[k].end \in Nat /\ l[k].type \in LockType
      /\ x.start \in Int /\ x.end \in Int
  BY <1>1, GoodElem DEF Asked
<1>3. ASSUME NEW b, NEW y, b \in Int, In(b, x)
      PROVE  On(l, c.pid, b, y) <=> y = c.type /\ c.type # "F_UNLCK"
  <2>1. l[k].start <= b /\ b <= l[k].end
    BY <1>1, <1>2, <1>3 DEF In
  <2>2. c.type # "F_UNLCK"
    BY <1>1, <1>2 DEF LockType
  <2>3. On(l, c.pid, b, c.type)
    BY <1>1, <2>1 DEF On
  <2>4. ASSUME On(l, c.pid, b, y) PROVE y = c.type
    <3>1. PICK j \in 1 .. Len(l) :
            l[j].pid = c.pid /\ l[j].start <= b /\ b <= l[j].end /\ l[j].type = y
      BY <2>4 DEF On
    <3>2. j = k
      BY <1>1, <1>3, <2>1, <3>1, OneLock
    <3> QED
      BY <1>1, <3>1, <3>2
  <2> QED
    BY <2>2, <2>3, <2>4
<1> QED
  BY <1>3 DEF Fills

(* When no lock of the caller meets the region, no byte of it is the       *)
(* caller's.                                                               *)
LEMMA NoneOn ==
  ASSUME NEW l, Good(l), NEW x \in Asked, \A k \in 1 .. Len(l) : Clear(l[k], x),
         NEW b \in Int, In(b, x), NEW y
  PROVE  ~On(l, x.pid, b, y)
<1>1. SUFFICES ASSUME NEW k \in 1 .. Len(l), l[k].pid = x.pid, l[k].start <= b, b <= l[k].end
               PROVE  FALSE
  BY DEF On
<1>2. l[k].start \in Nat /\ l[k].end \in Nat /\ x.start \in Int /\ x.end \in Int
  BY GoodElem DEF Asked
<1>3. Clear(l[k], x)
  OBVIOUS
<1>4. l[k].end < x.start \/ x.end < l[k].start
  BY <1>1, <1>3 DEF Clear
<1>5. x.start <= b /\ b <= x.end
  BY DEF In
<1> QED
  BY ONLY <1>1, <1>2, <1>4, <1>5, b \in Int

(* Nothing remains to be done for F_UNLCK.                                 *)
LEMMA UnlockFills ==
  ASSUME NEW l, Good(l), NEW c \in Asked, NEW x \in Asked, x.pid = c.pid,
         c.type = "F_UNLCK", \A k \in 1 .. Len(l) : Clear(l[k], x)
  PROVE  Fills(l, l, c, x)
BY NoneOn DEF Fills

(* The lock that is inserted gives the region its type.                    *)
LEMMA InsertFills ==
  ASSUME NEW l, Good(l), NEW c \in Asked, NEW x \in Asked, x.pid = c.pid, x.type = c.type,
         c.type # "F_UNLCK", \A k \in 1 .. Len(l) : Clear(l[k], x),
         NEW z, z.pid = x.pid, z.type = x.type, z.start = x.start, z.end = x.end,
         NEW m, More(l, m, z)
  PROVE  Fills(l, m, c, x)
<1>1. \A p, b, y : On(m, p, b, y) <=> On(l, p, b, y) \/ (p = c.pid /\ In(b, x) /\ y = c.type)
  BY DEF More, In
<1>2. \A b, y : b \in Int /\ In(b, x) => ~On(l, c.pid, b, y)
  BY NoneOn
<1> QED
  BY <1>1, <1>2 DEF Fills

-----------------------------------------------------------------------------
(* The result u of a call with the request c, of a list l and cnt records. *)
Adjusts(l, c, cnt, u) ==
  /\ Good(u.list) /\ Canonical(u.list)
  /\ u.reccnt = cnt - Len(l) + Len(u.list)
  /\ u.ld \in Asked /\ u.ld.pid = c.pid
  /\ u.woken \subseteq Owner \X Int
  /\ Kept(l, u.list, u.woken)
  /\ u.ret \in {"0", "ENOLCK"}
  /\ u.ret = "0" => Exact(l, c, u.list)
  /\ u.ret = "ENOLCK" => Owned(l, u.list, c.pid)

(* The loop has ended without a result.                                    *)
Open(l0, c, r, s) == Loop(l0, c, r, s) /\ Ended(s) /\ s.ret = ""

(* At the end of the loop no lock of the caller meets the request.         *)
LEMMA OpenClear ==
  ASSUME NEW l0, NEW c, NEW r, NEW s, Open(l0, c, r, s), NEW k \in 1 .. Len(s.list)
  PROVE  Clear(s.list[k], s.ld)
<1>1. Behind(s.list, s.flp, s.ld)
  BY DEF Open, Loop
<1>2. s.flp \in Nat /\ Len(s.list) \in Nat
  BY LoopType DEF Open
<1>3. CASE s.flp = 0
  BY <1>1, <1>3 DEF Behind
<1>4. CASE s.flp # 0
  <2>1. s.flp > Len(s.list)
    BY <1>4 DEF Open, Ended
  <2>2. k < s.flp
    BY <1>2, <2>1
  <2> QED
    BY <1>1, <1>4, <2>2 DEF Behind, Clear
<1> QED
  BY <1>3, <1>4

Alike(x, y) == x.pid = y.pid /\ x.type = y.type /\ x.start = y.start /\ x.end = y.end

(* The place that After() finds is a place for the request.                *)
LEMMA PlaceIs ==
  ASSUME NEW l0, NEW c, NEW r, NEW s, Open(l0, c, r, s), c.type # "F_UNLCK",
         NEW a, a = After(s.list, s.insrtp, s.ld.start),
         NEW x \in LockRec, Alike(x, s.ld)
  PROVE  Slot(s.list, a, x)
<1>1. /\ Good(s.list) /\ Canonical(s.list) /\ s.insrtp \in Nat /\ Len(s.list) \in Nat
      /\ s.ld.start \in Nat
  BY LoopType DEF Open
<1>2. Span(s.ld) /\ Point(s.list, s.flp, s.insrtp, s.ld)
  BY DEF Open, Loop
<1>3. PICK l : l = s.list
  OBVIOUS
<1>4. PICK i : i = s.insrtp
  OBVIOUS
<1>5. PICK b \in Nat : b = s.ld.start
  BY <1>1
<1>6. Span(x) /\ x.start = b
  BY <1>2, <1>5 DEF Span, Alike
<1>7. \A k \in 1 .. Len(l) : Clear(l[k], x)
  <2> TAKE k \in 1 .. Len(l)
  <2>1. Clear(l[k], s.ld)
    BY <1>3, OpenClear
  <2> QED
    BY <2>1 DEF Clear, Alike
<1>8. /\ a \in 0 .. Len(l)
      /\ \A k \in 1 .. Len(l) : IF k <= a THEN l[k].start <= b ELSE b <= l[k].start
  <2>1. CASE i = 0
    <3>1. a = 0
      BY <1>4, <2>1 DEF After
    <3>2. \A k \in 1 .. Len(l) : b <= l[k].start
      BY <1>2, <1>3, <1>4, <1>5, <2>1 DEF Point
    <3>3. 0 \in 0 .. Len(l) /\ \A k \in 1 .. Len(l) : ~(k <= 0)
      BY <1>1, <1>3
    <3> QED
      BY <3>1, <3>2, <3>3
  <2>2. CASE i # 0
    <3>1. i \in 1 .. Len(l) /\ l[i].start <= b
      BY <1>1, <1>2, <1>3, <1>4, <1>5, <2>2 DEF Point
    <3>2. l \in Seq(LockRec) /\ b \in Int
      BY <1>1, <1>3 DEF Good
    <3>3. a = After(l, i, b)
      BY <1>3, <1>4, <1>5
    <3>4. /\ a \in i .. Len(l)
          /\ \A k \in i .. a : k = i \/ l[k].start < b
          /\ a < Len(l) => l[a + 1].start >= b \/ l[i].start >= b
      BY ONLY <3>1, <3>2, <3>3, AfterIs
    <3>5. i \in Nat /\ Len(l) \in Nat /\ a \in Nat /\ 1 <= i /\ i <= a /\ a <= Len(l)
      BY <1>1, <1>3, <3>1, <3>4
    <3>6. ASSUME NEW k \in 1 .. Len(l), k <= a PROVE l[k].start <= b
      <4>1. l[k].start \in Nat /\ l[i].start \in Nat
        BY <1>1, <1>3, <3>1, GoodElem
      <4>2. CASE k <= i
        <5>1. l[k].start <= l[i].start
          BY <1>1, <1>3, <3>1, <4>2, CanonicalIs
        <5> QED
          BY <3>1, <4>1, <5>1
      <4>3. CASE ~(k <= i)
        BY <3>4, <3>5, <3>6, <4>1, <4>3
      <4> QED
        BY <4>2, <4>3
    <3>7. ASSUME NEW k \in 1 .. Len(l), ~(k <= a) PROVE b <= l[k].start
      <4>1. PICK j \in 1 .. Len(l) : j = a + 1 /\ j <= k /\ i <= k /\ a < Len(l)
        BY <3>5, <3>7
      <4>2. l[j].start <= l[k].start /\ l[i].start <= l[k].start
        BY <1>1, <1>3, <3>1, <4>1, CanonicalIs
      <4>3. l[j].start \in Nat /\ l[i].start \in Nat /\ l[k].start \in Nat
        BY <1>1, <1>3, <3>1, GoodElem
      <4>4. l[j].start >= b \/ l[i].start >= b
        BY <3>4, <4>1
      <4> QED
        BY ONLY <4>2, <4>3, <4>4, b \in Nat
    <3> QED
      BY <3>5, <3>6, <3>7
  <2> QED
    BY <2>1, <2>2
<1> QED
  BY <1>1, <1>3, <1>5, <1>6, <1>7, <1>8 DEF Slot

(* The result when nothing is inserted after the loop.                     *)
LEMMA EndExact ==
  ASSUME NEW l, Good(l), NEW c, NEW cnt \in Int, NEW s, Loop(l, c, cnt - Len(l), s), Ended(s),
         s.ret = "" => c.type = "F_UNLCK",
         NEW u, u.list = s.list, u.reccnt = s.reccnt, u.ld = s.ld, u.woken = s.woken,
         u.ret = IF s.ret = "" THEN "0" ELSE s.ret
  PROVE  Adjusts(l, c, cnt, u)
<1>1. /\ Good(s.list) /\ Canonical(s.list) /\ s.ld \in Asked /\ s \in LoopState
  BY LoopType
<1>2. /\ s.ld.pid = c.pid /\ s.ld.type = c.type /\ c \in Asked
      /\ s.reccnt = cnt - Len(l) + Len(s.list)
      /\ Kept(l, s.list, s.woken) /\ Owned(l, s.list, c.pid) /\ s.ret \in {"", "0", "ENOLCK"}
      /\ s.ret # "ENOLCK" => Rest(l, c, s.list, s.ld)
      /\ s.ret = "0" => Whole(s.list, s.ld)
  BY DEF Loop
<1>3. s.woken \subseteq Owner \X Int
  BY <1>1 DEF LoopState
<1>4. ASSUME s.ret # "ENOLCK" PROVE Exact(l, c, s.list)
  <2>1. Fills(s.list, s.list, c, s.ld)
    <3>1. CASE s.ret = "0"
      BY <1>1, <1>2, <3>1, WholeFills
    <3>2. CASE s.ret = ""
      <4>1. \A k \in 1 .. Len(s.list) : Clear(s.list[k], s.ld)
        BY <3>2, OpenClear DEF Open
      <4> QED
        BY <1>1, <1>2, <3>2, <4>1, UnlockFills
    <3> QED
      BY <1>2, <1>4, <3>1, <3>2
  <2> QED
    BY <1>1, <1>2, <1>4, <2>1, ExactIs
<1> QED
  BY <1>1, <1>2, <1>3, <1>4 DEF Adjusts

(* The lock x is put after lock a.                                         *)
Entered(s, a, x, u) ==
  /\ u.list = InsertAt(s.list, a + 1, x) /\ u.reccnt = s.reccnt + 1 /\ u.ld = s.ld
  /\ u.woken = s.woken /\ u.ret = "0"

(* The result when what the request has become is inserted.                *)
LEMMA EndInserted ==
  ASSUME NEW l, Good(l), NEW c, NEW cnt \in Int, NEW s, Open(l, c, cnt - Len(l), s),
         c.type # "F_UNLCK", NEW a, a = After(s.list, s.insrtp, s.ld.start),
         NEW x, x = Lock(s.ld.pid, s.ld.type, s.ld.start, s.ld.end),
         NEW u, Entered(s, a, x, u)
  PROVE  Adjusts(l, c, cnt, u)
<1>1. /\ Good(s.list) /\ Canonical(s.list) /\ s.ld \in Asked /\ s \in LoopState
      /\ Len(s.list) \in Nat
  BY LoopType DEF Open
<1>2. /\ s.ld.pid = c.pid /\ s.ld.type = c.type /\ c \in Asked
      /\ s.reccnt = cnt - Len(l) + Len(s.list)
      /\ Kept(l, s.list, s.woken) /\ Owned(l, s.list, c.pid)
      /\ Rest(l, c, s.list, s.ld)
  BY DEF Open, Loop
<1>3. s.woken \subseteq Owner \X Int
  BY <1>1 DEF LoopState
<1>4. /\ x \in LockRec /\ x.pid = s.ld.pid /\ x.type = s.ld.type /\ x.start = s.ld.start
      /\ x.end = s.ld.end
  <2>1. PICK z \in Asked : z = s.ld
    BY <1>1
  <2>2. z.type # "F_UNLCK"
    BY <1>2, <2>1
  <2>3. x = Lock(z.pid, z.type, z.start, z.end)
    BY <2>1
  <2>4. /\ x \in LockRec /\ x.pid = z.pid /\ x.type = z.type /\ x.start = z.start
        /\ x.end = z.end
    BY ONLY <2>2, <2>3, z \in Asked DEF Lock, LockRec, Asked, LockType
  <2> QED
    BY <2>1, <2>4
<1>5. Slot(s.list, a, x)
  BY <1>4, PlaceIs DEF Alike
<1>6. PICK m : m = InsertAt(s.list, a + 1, x)
  OBVIOUS
<1>7. /\ Good(m) /\ Canonical(m) /\ Others(s.list, m, 0) /\ Len(m) = Len(s.list) + 1
      /\ More(s.list, m, x)
  BY ONLY <1>5, <1>6, Inserted
<1>8. u.reccnt = cnt - Len(l) + Len(m)
  <2>1. Len(l) \in Nat
    BY DEF Good
  <2> QED
    BY <1>1, <1>2, <1>7, <2>1 DEF Entered
<1>9. Kept(l, m, s.woken)
  <2>1. \A k \in 1 .. Len(s.list) : \E j \in 1 .. Len(m) : m[j] = s.list[k]
    <3>1. \A k \in 1 .. Len(s.list) : k \in (1 .. Len(s.list)) \ {0}
      OBVIOUS
    <3> QED
      BY <1>7, <3>1 DEF Others
  <2> QED
    BY <1>2, <2>1 DEF Kept
<1>10. Fills(s.list, m, c, s.ld)
  <2>1. \A k \in 1 .. Len(s.list) : Clear(s.list[k], s.ld)
    BY OpenClear
  <2> QED
    BY <1>1, <1>2, <1>4, <1>7, <2>1, InsertFills
<1>11. Exact(l, c, m)
  BY <1>1, <1>2, <1>10, ExactIs
<1> QED
  BY <1>1, <1>2, <1>3, <1>6, <1>7, <1>8, <1>9, <1>11 DEF Adjusts, Entered

Result(t) ==
  [list |-> t.list, reccnt |-> t.reccnt, ld |-> t.ld, woken |-> t.woken,
   ret |-> IF t.ret = "" THEN "0" ELSE t.ret]

LastTurn(c, s) ==
  IF s.ret # "" \/ c.type = "F_UNLCK" THEN s
  ELSE insflck(s, s.ld, After(s.list, s.insrtp, s.ld.start))

(* flckadj() in three steps.                                               *)
LEMMA FlckadjEnds ==
  ASSUME NEW c, NEW i, NEW cnt, NEW mem
  PROVE  flckadj(c, i, cnt, mem) =
           Result(LastTurn(c, Scan(Start(v_filocks, c, cnt, mem, i), Len(v_filocks))))
  BY Zenon DEF flckadj, Start, Result, LastTurn

(* The fields of the result.                                               *)
LEMMA ResultIs ==
  ASSUME NEW t
  PROVE  /\ Result(t).list = t.list /\ Result(t).reccnt = t.reccnt /\ Result(t).ld = t.ld
         /\ Result(t).woken = t.woken /\ Result(t).ret = IF t.ret = "" THEN "0" ELSE t.ret
  BY DEF Result

Insflcked(s, a, x, t) ==
  /\ t.list = InsertAt(s.list, a + 1, x) /\ t.reccnt = s.reccnt + 1 /\ t.ld = s.ld
  /\ t.woken = s.woken /\ t.ret = s.ret

(* There is no record, or the lock is inserted.                            *)
LEMMA InsflckIs ==
  ASSUME NEW s \in LoopState, NEW a \in Nat, NEW t, t = insflck(s, s.ld, a),
         NEW x, x = Lock(s.ld.pid, s.ld.type, s.ld.start, s.ld.end)
  PROVE  t = [s EXCEPT !.ret = "ENOLCK"] \/ Insflcked(s, a, x, t)
<1>1. CASE s.reccnt >= FLCKREC \/ s.mem = 0
  BY <1>1 DEF insflck
<1>2. CASE ~(s.reccnt >= FLCKREC \/ s.mem = 0)
  <2>1. t = [s EXCEPT !.list = InsertAt(@, a + 1, x), !.reccnt = @ + 1, !.mem = @ - 1]
    BY <1>2 DEF insflck
  <2> QED
    BY <2>1 DEF LoopState, Insflcked
<1> QED
  BY <1>1, <1>2

(* A grant leaves the other owners alone, and a failure takes nothing but  *)
(* bytes of the caller.                                                    *)
LEMMA FlckadjIs ==
  ASSUME Good(v_filocks), Canonical(v_filocks), NEW c \in Asked, Span(c), NEW cnt \in Int,
         NEW mem \in Int, NEW i \in Nat, Starts(v_filocks, c, i), NEW u,
         u = flckadj(c, i, cnt, mem)
  PROVE  Adjusts(v_filocks, c, cnt, u)
<1>1. PICK l : l = v_filocks
  OBVIOUS
<1>2. PICK s0 : s0 = Start(l, c, cnt, mem, i)
  OBVIOUS
<1>3. Good(l) /\ Canonical(l) /\ Starts(l, c, i)
  BY <1>1
<1>4. PICK r \in Int : r = cnt - Len(l)
  BY <1>3 DEF Good
<1>5. Loop(l, c, r, s0) /\ s0.flp # 0 /\ s0.list = l
  BY <1>2, <1>3, <1>4, StartLoop
<1>6. PICK s : s = Scan(s0, Len(v_filocks))
  OBVIOUS
<1>11. PICK t : t = LastTurn(c, s)
  OBVIOUS
<1>12. u = Result(t)
  BY <1>1, <1>2, <1>6, <1>11, FlckadjEnds
<1>7. s = Scan(s0, Len(l))
  BY <1>1, <1>6
<1>8. Loop(l, c, r, s) /\ Ended(s)
  BY <1>5, <1>7, ScanKeeps
<1>9. CASE s.ret # "" \/ c.type = "F_UNLCK"
  <2>1. u = Result(s)
    BY <1>9, <1>11, <1>12 DEF LastTurn
  <2>2. /\ u.list = s.list /\ u.reccnt = s.reccnt /\ u.ld = s.ld /\ u.woken = s.woken
        /\ u.ret = IF s.ret = "" THEN "0" ELSE s.ret
    BY <2>1, ResultIs
  <2> QED
    BY <1>1, <1>3, <1>4, <1>8, <1>9, <2>2, EndExact
<1>10. CASE s.ret = "" /\ c.type # "F_UNLCK"
  <2>1. s \in LoopState
    BY <1>8, LoopType
  <2>2. Open(l, c, r, s)
    BY <1>8, <1>10 DEF Open
  <2>3. PICK a : a = After(s.list, s.insrtp, s.ld.start)
    OBVIOUS
  <2>4. PICK x : x = Lock(s.ld.pid, s.ld.type, s.ld.start, s.ld.end)
    OBVIOUS
  <2>5. t = insflck(s, s.ld, a)
    BY <1>10, <1>11, <2>3 DEF LastTurn
  <2>6. u = Result(t)
    BY <1>12
  <2>7. a \in Nat
    <3>1. Len(s.list) \in Nat
      BY <1>8, LoopType
    <3>2. s.ld \in Asked /\ s.ld.pid = c.pid /\ s.ld.type = c.type
      BY <1>8, LoopType DEF Loop
    <3>3. x \in LockRec /\ Alike(x, s.ld)
      <4>1. PICK z \in Asked : z = s.ld
        BY <3>2
      <4>2. z.type # "F_UNLCK" /\ x = Lock(z.pid, z.type, z.start, z.end)
        BY <1>10, <2>4, <3>2, <4>1
      <4>3. x \in LockRec /\ Alike(x, z)
        BY ONLY <4>2, z \in Asked DEF Lock, LockRec, Asked, LockType, Alike
      <4> QED
        BY <4>1, <4>3
    <3>4. Slot(s.list, a, x)
      BY <1>10, <2>2, <2>3, <3>3, PlaceIs
    <3>5. a \in 0 .. Len(s.list)
      BY <3>4 DEF Slot
    <3> QED
      BY ONLY <3>1, <3>5
  <2>8. CASE t = [s EXCEPT !.ret = "ENOLCK"]
    <3>1. /\ t.list = s.list /\ t.reccnt = s.reccnt /\ t.ld = s.ld /\ t.woken = s.woken
          /\ t.ret = "ENOLCK" /\ t \in LoopState
      BY <2>1, <2>8 DEF LoopState
    <3>2. Loop(l, c, r, t) /\ Ended(t)
      BY <1>8, <3>1 DEF Loop, Ended
    <3>3. /\ u.list = t.list /\ u.reccnt = t.reccnt /\ u.ld = t.ld /\ u.woken = t.woken
          /\ u.ret = IF t.ret = "" THEN "0" ELSE t.ret
      BY <2>6, ResultIs
    <3>4. t.ret # ""
      BY <3>1
    <3> QED
      BY <1>1, <1>3, <1>4, <3>2, <3>3, <3>4, EndExact
  <2>9. ASSUME Insflcked(s, a, x, t) PROVE Adjusts(v_filocks, c, cnt, u)
    <3>1. Entered(s, a, x, u)
      BY <1>10, <2>6, <2>9, ResultIs DEF Entered, Insflcked
    <3> QED
      BY <1>1, <1>3, <1>4, <1>10, <2>2, <2>3, <2>4, <3>1, EndInserted
  <2>10. t = [s EXCEPT !.ret = "ENOLCK"] \/ Insflcked(s, a, x, t)
    BY ONLY <2>1, <2>4, <2>5, <2>7, InsflckIs
  <2> QED
    BY <2>8, <2>9, <2>10
<1> QED
  BY <1>9, <1>10

-----------------------------------------------------------------------------
(* What is asked for                                                       *)

(* A request is for bytes of the file.                                     *)
LEMMA RequestIs ==
  ASSUME NEW p \in Owner, NEW type, type \subseteq LockType \cup {"F_UNLCK"},
         NEW set, set \subseteq BOOLEAN, NEW c \in Request(p, type, set)
  PROVE  c \in Asked /\ Span(c) /\ c.pid = p /\ c.type \in type /\ c.set \in set
<1>1. PICK t \in type, x \in Region, b \in set :
        /\ c = [pid |-> p, type |-> t, start |-> x[1], end |-> x[2], set |-> b]
        /\ x[1] <= x[2]
  BY DEF Request
<1>2. x[1] \in Byte /\ x[2] \in Byte
  BY <1>1, RequestAssumption DEF Byte
<1>3. x[1] \in Int /\ x[2] \in Int
  BY <1>2, SizeAssumption DEF Byte
<1>4. c \in Asked
  BY <1>1, <1>3 DEF Asked
<1> QED
  BY <1>1, <1>2, <1>4 DEF Span

(* A request for a lock.                                                   *)
LEMMA LockRequestIs ==
  ASSUME NEW p \in Owner, NEW set, set \subseteq BOOLEAN, NEW c \in Request(p, Locking, set)
  PROVE  c \in Asked /\ Span(c) /\ c.pid = p /\ c.type \in LockType /\ c.set \in set
<1>1. Locking \subseteq LockType /\ Locking \subseteq LockType \cup {"F_UNLCK"}
  BY RequestAssumption DEF LockType
<1> QED
  BY <1>1, RequestIs

(* What flckadj() does for F_SETLK, F_SETLKW and the lock daemon.          *)
LEMMA AdjustmentIs ==
  ASSUME Good(v_filocks), Canonical(v_filocks), NEW c \in Asked, Span(c), NEW cnt \in Int,
         NEW u \in Adjustments(c, cnt)
  PROVE  Adjusts(v_filocks, c, cnt, u)
<1>1. c \in Asked /\ Span(c)
  OBVIOUS
<1>2. PICK mem \in Int : u = flckadj(c, InsertPoint(c), cnt, mem)
  BY DEF Adjustments, Mem
<1>3. InsertPoint(c) \in Nat /\ Starts(v_filocks, c, InsertPoint(c))
  BY <1>1, InsertPointIs
<1> QED
  BY <1>1, <1>2, <1>3, FlckadjIs

(* What it does for F_UNLCK.                                               *)
LEMMA UnlockingIs ==
  ASSUME Good(v_filocks), Canonical(v_filocks), NEW p \in Owner,
         NEW c \in Request(p, {"F_UNLCK"}, {TRUE}), reccnt \in Int, NEW u \in Unlockings(c)
  PROVE  Adjusts(v_filocks, c, reccnt, u)
<1>1. c \in Asked /\ Span(c) /\ c.type \in {"F_UNLCK"}
  <2>1. {"F_UNLCK"} \subseteq LockType \cup {"F_UNLCK"} /\ {TRUE} \subseteq BOOLEAN
    OBVIOUS
  <2> QED
    BY <2>1, RequestIs
<1>2. PICK i : i = IF v_filocks = <<>> THEN 0 ELSE 1
  OBVIOUS
<1>3. PICK mem \in Int : u = flckadj(c, i, reccnt, mem)
  BY <1>2 DEF Unlockings, Mem
<1>4. i \in Nat /\ Starts(v_filocks, c, i)
  BY <1>1, <1>2, UnlockStarts
<1> QED
  BY <1>1, <1>3, <1>4, FlckadjIs

-----------------------------------------------------------------------------
(* What is left of a list                                                  *)

LeftFcn(l, gone, n, h) ==
  h = [k \in 0 .. n |->
         IF k = 0 THEN <<>> ELSE IF k \in gone THEN h[k - 1] ELSE Append(h[k - 1], l[k])]

(* One more lock is looked at.                                             *)
LEMMA LeftFcnStep ==
  ASSUME NEW l, NEW gone, NEW n \in Nat, NEW h, LeftFcn(l, gone, n, h)
  PROVE  \E g : LeftFcn(l, gone, n + 1, g)
<1>1. PICK g : g = [k \in 0 .. n + 1 |-> IF k <= n THEN h[k]
                      ELSE IF k \in gone THEN h[n] ELSE Append(h[n], l[k])]
  OBVIOUS
<1>2. \A k \in 0 .. n + 1 :
        g[k] = IF k = 0 THEN <<>> ELSE IF k \in gone THEN g[k - 1] ELSE Append(g[k - 1], l[k])
  <2> TAKE k \in 0 .. n + 1
  <2>1. \A j \in 0 .. n : g[j] = h[j]
    BY <1>1
  <2>2. \A j \in 0 .. n :
          h[j] = IF j = 0 THEN <<>> ELSE IF j \in gone THEN h[j - 1] ELSE Append(h[j - 1], l[j])
    BY DEF LeftFcn
  <2>3. CASE k <= n
    <3>1. k \in 0 .. n /\ (k # 0 => k - 1 \in 0 .. n)
      BY <2>3
    <3> QED
      BY <2>1, <2>2, <3>1
  <2>4. CASE k = n + 1
    <3>1. k # 0 /\ k - 1 = n /\ ~(k <= n) /\ n \in 0 .. n
      BY <2>4
    <3>2. g[k] = (IF k \in gone THEN h[n] ELSE Append(h[n], l[k])) /\ g[n] = h[n]
      BY <1>1, <2>1, <3>1
    <3> QED
      BY <3>1, <3>2
  <2> QED
    BY <2>3, <2>4
<1>3. g = [k \in 0 .. n + 1 |->
             IF k = 0 THEN <<>> ELSE IF k \in gone THEN g[k - 1] ELSE Append(g[k - 1], l[k])]
  BY <1>1, <1>2
<1> QED
  BY <1>3 DEF LeftFcn

(* The recursive function is defined for a list of any length.             *)
LEMMA LeftFcnExists ==
  ASSUME NEW l, NEW gone, NEW n \in Nat
  PROVE  \E h : LeftFcn(l, gone, n, h)
<1>1. PICK B : B = {m \in Nat : ~ \E h : LeftFcn(l, gone, m, h)}
  OBVIOUS
<1>2. 0 \notin B
  <2>1. PICK h : h = [k \in 0 .. 0 |-> <<>>]
    OBVIOUS
  <2>2. h = [k \in 0 .. 0 |->
               IF k = 0 THEN <<>> ELSE IF k \in gone THEN h[k - 1] ELSE Append(h[k - 1], l[k])]
    BY <2>1
  <2> QED
    BY <1>1, <2>2 DEF LeftFcn
<1>3. ASSUME NEW m \in B, \A k \in 0 .. m - 1 : k \notin B PROVE FALSE
  <2>1. m \in Nat /\ m # 0 /\ ~ \E h : LeftFcn(l, gone, m, h)
    BY <1>1, <1>2
  <2>2. PICK k \in Nat : k + 1 = m /\ k \in 0 .. m - 1
    BY <2>1
  <2>3. \E h : LeftFcn(l, gone, k, h)
    BY <1>1, <1>3, <2>2
  <2>4. \E h : LeftFcn(l, gone, k + 1, h)
    BY ONLY <2>2, <2>3, LeftFcnStep
  <2> QED
    BY <2>1, <2>2, <2>4
<1>4. B = {}
  BY <1>1, <1>3, NatMin
<1> QED
  BY <1>1, <1>4

(* Without() is its last value.                                            *)
LEMMA LeftIs ==
  ASSUME NEW l, NEW gone, Len(l) \in Nat
  PROVE  \E h : LeftFcn(l, gone, Len(l), h) /\ Without(l, gone) = h[Len(l)]
<1>1. PICK h : h = CHOOSE g : LeftFcn(l, gone, Len(l), g)
  OBVIOUS
<1>2. LeftFcn(l, gone, Len(l), h)
  BY <1>1, LeftFcnExists
<1>3. Without(l, gone) = h[Len(l)]
  BY ONLY <1>1 DEF Without, LeftFcn
<1> QED
  BY <1>2, <1>3

(* m is what is left of the first n members of l, and e says where each of *)
(* them was.                                                               *)
Thinned(l, gone, n, m, e) ==
  /\ e \in [1 .. Len(m) -> (1 .. n) \ gone]
  /\ \A k \in 1 .. Len(m) : m[k] = l[e[k]]
  /\ \A j, k \in 1 .. Len(m) : j < k => e[j] < e[k]
  /\ \A j \in (1 .. n) \ gone : \E k \in 1 .. Len(m) : e[k] = j
  /\ Len(m) + Cardinality(gone \cap (1 .. n)) = n

(* One more of the list, that goes.                                        *)
LEMMA ThinnedGone ==
  ASSUME NEW l, NEW gone, NEW n \in Nat, NEW m, NEW e, Thinned(l, gone, n, m, e),
         Len(m) \in Nat, n + 1 \in gone
  PROVE  Thinned(l, gone, n + 1, m, e)
<1>1. (1 .. n + 1) \ gone = (1 .. n) \ gone
  <2>1. 1 .. n + 1 = (1 .. n) \cup {n + 1}
    OBVIOUS
  <2> QED
    BY <2>1
<1>2. Len(m) + Cardinality(gone \cap (1 .. n + 1)) = n + 1
  <2>1. PICK s : s = gone \cap (1 .. n)
    OBVIOUS
  <2>2. IsFiniteSet(s) /\ n + 1 \notin s
    <3>1. IsFiniteSet(1 .. n)
      BY FS_Interval
    <3> QED
      BY <2>1, <3>1, FS_Subset
  <2>3. gone \cap (1 .. n + 1) = s \cup {n + 1}
    <3>1. 1 .. n + 1 = (1 .. n) \cup {n + 1}
      OBVIOUS
    <3> QED
      BY <2>1, <3>1
  <2>4. Cardinality(s \cup {n + 1}) = Cardinality(s) + 1 /\ Cardinality(s) \in Nat
    BY <2>2, FS_AddElement, FS_CardinalityType
  <2>5. Len(m) + Cardinality(s) = n
    BY <2>1 DEF Thinned
  <2> QED
    <3>1. PICK c \in Nat : c = Cardinality(s)
      BY <2>4
    <3>2. PICK k \in Nat : k = Len(m)
      OBVIOUS
    <3>3. Cardinality(gone \cap (1 .. n + 1)) = c + 1 /\ k + c = n
      BY <2>3, <2>4, <2>5, <3>1, <3>2
    <3>4. k + (c + 1) = n + 1
      BY ONLY <3>3, c \in Nat, k \in Nat, n \in Nat
    <3> QED
      BY <3>2, <3>3, <3>4
<1> QED
  BY <1>1, <1>2 DEF Thinned

(* One more of the list, that stays.                                       *)
LEMMA ThinnedKept ==
  ASSUME NEW S, NEW l \in Seq(S), NEW gone, NEW n \in Nat, n + 1 \in 1 .. Len(l),
         NEW m \in Seq(S), NEW e, Thinned(l, gone, n, m, e), n + 1 \notin gone
  PROVE  \E d : Thinned(l, gone, n + 1, Append(m, l[n + 1]), d)
<1>1. PICK x : x = l[n + 1]
  OBVIOUS
<1>2. PICK a : a = Append(m, x)
  OBVIOUS
<1>3. PICK k0 \in Nat : k0 = Len(m)
  OBVIOUS
<1>4. x \in S
  BY <1>1
<1>5. Len(a) = k0 + 1 /\ a[k0 + 1] = x /\ \A k \in 1 .. k0 : a[k] = m[k]
  BY <1>2, <1>3, <1>4
<1>6. /\ e \in [1 .. k0 -> (1 .. n) \ gone]
      /\ \A k \in 1 .. k0 : m[k] = l[e[k]]
      /\ \A j, k \in 1 .. k0 : j < k => e[j] < e[k]
      /\ \A j \in (1 .. n) \ gone : \E k \in 1 .. k0 : e[k] = j
      /\ k0 + Cardinality(gone \cap (1 .. n)) = n
  BY <1>3 DEF Thinned
<1>7. PICK d : d = [k \in 1 .. k0 + 1 |-> IF k <= k0 THEN e[k] ELSE n + 1]
  OBVIOUS
<1>8. 1 .. n + 1 = (1 .. n) \cup {n + 1} /\ 1 .. k0 + 1 = (1 .. k0) \cup {k0 + 1}
  OBVIOUS
<1>9. d[k0 + 1] = n + 1 /\ \A k \in 1 .. k0 : d[k] = e[k]
  BY <1>7
<1>10. d \in [1 .. k0 + 1 -> (1 .. n + 1) \ gone]
  <2>1. \A k \in 1 .. k0 + 1 : d[k] \in (1 .. n + 1) \ gone
    BY <1>6, <1>8, <1>9
  <2> QED
    BY <1>7, <2>1
<1>11. \A k \in 1 .. k0 + 1 : a[k] = l[d[k]]
  BY <1>1, <1>5, <1>6, <1>8, <1>9
<1>12. \A j, k \in 1 .. k0 + 1 : j < k => d[j] < d[k]
  <2> SUFFICES ASSUME NEW j \in 1 .. k0 + 1, NEW k \in 1 .. k0 + 1, j < k PROVE d[j] < d[k]
    OBVIOUS
  <2>1. j \in 1 .. k0
    OBVIOUS
  <2>2. CASE k \in 1 .. k0
    BY <1>6, <1>9, <2>1, <2>2
  <2>3. CASE k = k0 + 1
    <3>1. e[j] \in 1 .. n
      BY <1>6, <2>1
    <3> QED
      BY <1>9, <2>1, <2>3, <3>1
  <2> QED
    BY <1>8, <2>2, <2>3
<1>13. \A j \in (1 .. n + 1) \ gone : \E k \in 1 .. k0 + 1 : d[k] = j
  BY <1>6, <1>8, <1>9
<1>14. k0 + 1 + Cardinality(gone \cap (1 .. n + 1)) = n + 1
  <2>1. gone \cap (1 .. n + 1) = gone \cap (1 .. n)
    BY <1>8
  <2>2. IsFiniteSet(gone \cap (1 .. n))
    <3>1. IsFiniteSet(1 .. n)
      BY FS_Interval
    <3> QED
      BY <3>1, FS_Subset
  <2>3. Cardinality(gone \cap (1 .. n)) \in Nat
    BY <2>2, FS_CardinalityType
  <2>4. k0 + Cardinality(gone \cap (1 .. n)) = n
    BY <1>6
  <2> QED
    <3>1. PICK c \in Nat : c = Cardinality(gone \cap (1 .. n))
      BY <2>3
    <3>2. Cardinality(gone \cap (1 .. n + 1)) = c /\ k0 + c = n
      BY <2>1, <2>4, <3>1
    <3>3. k0 + 1 + c = n + 1
      BY ONLY <3>2, c \in Nat, k0 \in Nat, n \in Nat
    <3> QED
      BY <3>2, <3>3
<1>15. Thinned(l, gone, n + 1, a, d)
  BY <1>5, <1>10, <1>11, <1>12, <1>13, <1>14 DEF Thinned
<1> QED
  BY <1>1, <1>2, <1>15

(* Without() leaves the others in their order, and counts.                 *)
LEMMA WithoutIs ==
  ASSUME NEW S, NEW l \in Seq(S), NEW gone, NEW m, m = Without(l, gone)
  PROVE  m \in Seq(S) /\ \E e : Thinned(l, gone, Len(l), m, e)
<1>1. Len(l) \in Nat
  OBVIOUS
<1>2. PICK h : LeftFcn(l, gone, Len(l), h) /\ Without(l, gone) = h[Len(l)]
  BY <1>1, LeftIs
<1>3. \A k \in 0 .. Len(l) :
        h[k] = IF k = 0 THEN <<>> ELSE IF k \in gone THEN h[k - 1] ELSE Append(h[k - 1], l[k])
  BY <1>2 DEF LeftFcn
<1>4. PICK B : B = {k \in Nat : k <= Len(l) /\
                      ~(h[k] \in Seq(S) /\ \E e : Thinned(l, gone, k, h[k], e))}
  OBVIOUS
<1>5. 0 \notin B
  <2>1. h[0] = <<>> /\ <<>> \in Seq(S) /\ Len(<<>>) = 0
    BY <1>1, <1>3
  <2>2. PICK e : e = [k \in 1 .. 0 |-> k]
    OBVIOUS
  <2>3. Cardinality(gone \cap (1 .. 0)) = 0
    <3>1. gone \cap (1 .. 0) = {}
      OBVIOUS
    <3> QED
      BY <3>1, FS_EmptySet
  <2>4. Thinned(l, gone, 0, <<>>, e)
    <3>1. e \in [1 .. 0 -> (1 .. 0) \ gone]
      BY <2>2
    <3> QED
      BY <2>1, <2>3, <3>1 DEF Thinned
  <2>5. h[0] \in Seq(S) /\ Thinned(l, gone, 0, h[0], e)
    BY <2>1, <2>4
  <2> QED
    BY <1>4, <2>5
<1>6. ASSUME NEW i \in B, \A k \in 0 .. i - 1 : k \notin B PROVE FALSE
  <2>1. /\ i \in Nat /\ i <= Len(l) /\ i # 0
        /\ ~(h[i] \in Seq(S) /\ \E e : Thinned(l, gone, i, h[i], e))
    BY <1>4, <1>5
  <2>2. PICK k \in Nat : k + 1 = i /\ k \in 0 .. i - 1 /\ k <= Len(l) /\ k = i - 1
    BY <1>1, <2>1
  <2>3. h[k] \in Seq(S) /\ \E e : Thinned(l, gone, k, h[k], e)
    BY <1>4, <1>6, <2>2
  <2>4. PICK e : Thinned(l, gone, k, h[k], e)
    BY <2>3
  <2>5. h[i] = IF i \in gone THEN h[k] ELSE Append(h[k], l[i])
    <3>1. i \in 0 .. Len(l)
      BY <1>1, <2>1
    <3> QED
      BY <1>3, <2>1, <2>2, <3>1
  <2>6. k + 1 \in 1 .. Len(l)
    BY <1>1, <2>1, <2>2
  <2>7. CASE i \in gone
    <3>1. Thinned(l, gone, k + 1, h[k], e)
      <4>1. Len(h[k]) \in Nat /\ k + 1 \in gone
        BY <2>2, <2>3, <2>7
      <4> QED
        BY <2>4, <4>1, ThinnedGone
    <3> QED
      BY <2>1, <2>2, <2>3, <2>5, <2>7, <3>1
  <2>8. CASE i \notin gone
    <3>1. \E d : Thinned(l, gone, k + 1, Append(h[k], l[k + 1]), d)
      <4>1. k + 1 \notin gone /\ h[k] \in Seq(S) /\ l \in Seq(S)
        BY <2>2, <2>3, <2>8
      <4> QED
        BY ONLY <2>2, <2>4, <2>6, <4>1, ThinnedKept
    <3>2. h[i] = Append(h[k], l[k + 1]) /\ l[k + 1] \in S
      BY <2>2, <2>5, <2>6, <2>8
    <3>3. h[i] \in Seq(S)
      BY <2>3, <3>2
    <3> QED
      BY <2>1, <2>2, <3>1, <3>2, <3>3
  <2> QED
    BY <2>7, <2>8
<1>7. B = {}
  <2>1. B \subseteq Nat
    BY <1>4
  <2> QED
    BY <1>6, <2>1, NatMin
<1> QED
  BY <1>1, <1>2, <1>4, <1>7

-----------------------------------------------------------------------------
OwnOf(l, p) == {i \in DOMAIN l : l[i].pid = p}

(* The locks of m are those of l that are not of p.                        *)
Purged(l, p, m) ==
  /\ \A j \in 1 .. Len(l) : l[j].pid # p => \E k \in 1 .. Len(m) : m[k] = l[j]
  /\ \A k \in 1 .. Len(m) : \E j \in 1 .. Len(l) : m[k] = l[j] /\ l[j].pid # p

(* cleanlocks() deletes the locks of one owner.                            *)
LEMMA PurgedIs ==
  ASSUME NEW l, Good(l), Canonical(l), NEW p, NEW own, own = OwnOf(l, p),
         NEW m, m = Without(l, own)
  PROVE  /\ Good(m) /\ Canonical(m) /\ Len(m) = Len(l) - Cardinality(own)
         /\ Purged(l, p, m)
<1>1. l \in Seq(LockRec) /\ Len(l) \in Nat /\ own = {i \in 1 .. Len(l) : l[i].pid = p}
  BY DEF Good, OwnOf
<1>2. m \in Seq(LockRec) /\ \E e : Thinned(l, own, Len(l), m, e)
  BY <1>1, WithoutIs
<1>3. PICK e : Thinned(l, own, Len(l), m, e)
  BY <1>2
<1>4. /\ e \in [1 .. Len(m) -> (1 .. Len(l)) \ own]
      /\ \A k \in 1 .. Len(m) : m[k] = l[e[k]]
      /\ \A j, k \in 1 .. Len(m) : j < k => e[j] < e[k]
      /\ \A j \in (1 .. Len(l)) \ own : \E k \in 1 .. Len(m) : e[k] = j
      /\ Len(m) + Cardinality(own \cap (1 .. Len(l))) = Len(l)
  BY <1>3 DEF Thinned
<1>5. \A k \in 1 .. Len(m) : e[k] \in (1 .. Len(l)) /\ e[k] \notin own
  BY <1>4
<1>6. Good(m)
  BY <1>2, <1>4, <1>5 DEF Good
<1>7. Canonical(m)
  <2> SUFFICES ASSUME NEW x \in 1 .. Len(m), NEW y \in 1 .. Len(m), x < y
               PROVE  /\ m[x].start <= m[y].start
                      /\ m[x].pid = m[y].pid =>
                           /\ m[x].end < m[y].start
                           /\ m[x].type = m[y].type => m[x].end + 1 < m[y].start
    BY <1>2 DEF Canonical
  <2>1. PICK i \in 1 .. Len(l) : i = e[x] /\ m[x] = l[i]
    BY <1>4, <1>5
  <2>2. PICK j \in 1 .. Len(l) : j = e[y] /\ m[y] = l[j]
    BY <1>4, <1>5
  <2>3. i < j
    BY <1>4, <2>1, <2>2
  <2> QED
    BY <2>1, <2>2, <2>3, CanonicalIs
<1>8. \A j \in 1 .. Len(l) : l[j].pid # p => \E k \in 1 .. Len(m) : m[k] = l[j]
  <2> SUFFICES ASSUME NEW j \in 1 .. Len(l), l[j].pid # p PROVE \E k \in 1 .. Len(m) : m[k] = l[j]
    OBVIOUS
  <2>1. j \notin own
    BY <1>1, Zenon
  <2>2. PICK k \in 1 .. Len(m) : e[k] = j
    BY <1>4, <2>1, Zenon
  <2>3. m[k] = l[e[k]]
    BY <1>4
  <2> QED
    BY <2>2, <2>3
<1>9. \A k \in 1 .. Len(m) : \E j \in 1 .. Len(l) : m[k] = l[j] /\ l[j].pid # p
  <2> SUFFICES ASSUME NEW k \in 1 .. Len(m)
               PROVE  \E j \in 1 .. Len(l) : m[k] = l[j] /\ l[j].pid # p
    OBVIOUS
  <2>1. e[k] \in 1 .. Len(l) /\ e[k] \notin own
    BY <1>5
  <2>2. l[e[k]].pid # p
    BY <1>1, <2>1, Zenon
  <2>3. m[k] = l[e[k]]
    BY <1>4
  <2> QED
    BY <2>1, <2>2, <2>3
<1>10. Len(m) = Len(l) - Cardinality(own)
  <2>1. own \cap (1 .. Len(l)) = own
    BY <1>1
  <2>2. IsFiniteSet(own)
    <3>1. IsFiniteSet(1 .. Len(l))
      BY <1>1, FS_Interval
    <3> QED
      BY <1>1, <3>1, FS_Subset
  <2>3. PICK c \in Nat : c = Cardinality(own)
    BY <2>2, FS_CardinalityType
  <2>4. PICK k \in Nat : k = Len(m)
    <3>1. m \in Seq(LockRec)
      BY <1>2
    <3>2. Len(m) \in Nat
      BY ONLY <3>1
    <3> QED
      BY <3>2
  <2>5. PICK n \in Nat : n = Len(l)
    BY <1>1
  <2>6. k + c = n
    BY <1>4, <2>1, <2>3, <2>4, <2>5
  <2>7. k = n - c
    BY ONLY <2>6, k \in Nat, c \in Nat, n \in Nat
  <2> QED
    BY <2>3, <2>4, <2>5, <2>7
<1> QED
  BY <1>6, <1>7, <1>8, <1>9, <1>10 DEF Purged

(* None of the bytes of p is locked any longer, all others are as before.  *)
LEMMA PurgedOn ==
  ASSUME NEW l, NEW p, NEW m, Purged(l, p, m), NEW o, NEW b, NEW y
  PROVE  On(m, o, b, y) <=> On(l, o, b, y) /\ o # p
<1>1. ASSUME On(m, o, b, y) PROVE On(l, o, b, y) /\ o # p
  <2>1. PICK k \in 1 .. Len(m) : m[k].pid = o /\ m[k].start <= b /\ b <= m[k].end /\ m[k].type = y
    BY <1>1 DEF On
  <2>2. PICK j \in 1 .. Len(l) : m[k] = l[j] /\ l[j].pid # p
    BY DEF Purged
  <2> QED
    BY <2>1, <2>2 DEF On
<1>2. ASSUME On(l, o, b, y), o # p PROVE On(m, o, b, y)
  <2>1. PICK j \in 1 .. Len(l) : l[j].pid = o /\ l[j].start <= b /\ b <= l[j].end /\ l[j].type = y
    BY <1>2 DEF On
  <2>2. PICK k \in 1 .. Len(m) : m[k] = l[j]
    BY <1>2, <2>1 DEF Purged
  <2> QED
    BY <2>1, <2>2 DEF On
<1> QED
  BY <1>1, <1>2

-----------------------------------------------------------------------------
(* How many entries sleeplcks has                                          *)

Lens(q) == [p \in Owner |-> Len(q[p])]

(* Entries is the sum of the lengths.                                      *)
LEMMA EntriesAre ==
  ASSUME NEW q, \A p \in Owner : Len(q[p]) \in Nat
  PROVE  FoldFunction(+, 0, [p \in Owner |-> Len(q[p])]) = Total(Lens(q), Owner)
<1> DEFINE f == [p \in Owner |-> Len(q[p])]
           G(h) == h = [s \in SUBSET Owner |->
                          IF s = {} THEN 0
                          ELSE f[CHOOSE x \in s : TRUE] + h[s \ {CHOOSE x \in s : TRUE}]]
<1>0. IsFiniteSet(Owner) /\ DOMAIN f = Owner
  BY FiniteAssumption DEF Owner
<1>1. \A h : G(h) <=> SumFcn(f, Owner, h)
  BY DEF SumFcn, First
<1>2. Ints(f, Owner)
  BY DEF Ints
<1>3. \E h : G(h)
  <2>1. PICK h : SumFcn(f, Owner, h)
    BY <1>0, <1>2, SumFcnExists
  <2> HIDE DEF G, f
  <2> QED
    BY <1>1, <2>1, Zenon
<1>4. PICK h : h = CHOOSE g : G(g)
  OBVIOUS
<1>5. G(h)
  BY <1>3, <1>4
<1>6. FoldFunction(+, 0, f) = h[Owner]
  BY <1>0, <1>4 DEF FoldFunction, FoldFunctionOnSet, MapThenFoldSet
<1>7. Total(f, Owner) = h[Owner]
  BY <1>0, <1>1, <1>2, <1>5, TotalOf
<1> QED
  BY <1>6, <1>7 DEF Lens

Counted(q) == Total(Lens(q), Owner)

(* The number of entries is a number.                                      *)
LEMMA CountedIs ==
  ASSUME NEW q, \A p \in Owner : Len(q[p]) \in Nat
  PROVE  Counted(q) \in Int
<1>1. Ints(Lens(q), Owner) /\ IsFiniteSet(Owner)
  BY FiniteAssumption DEF Ints, Lens, Owner
<1> QED
  BY <1>1, TotalType DEF Counted

(* When the entries of one owner change, it changes by as many.            *)
LEMMA CountedChange ==
  ASSUME NEW q, NEW r, \A p \in Owner : Len(q[p]) \in Nat /\ Len(r[p]) \in Nat,
         NEW o \in Owner, \A p \in Owner \ {o} : r[p] = q[p]
  PROVE  Counted(r) = Counted(q) + Len(r[o]) - Len(q[o])
<1>1. Ints(Lens(q), Owner) /\ Ints(Lens(r), Owner) /\ IsFiniteSet(Owner)
  BY FiniteAssumption DEF Ints, Lens, Owner
<1>2. \A p \in Owner \ {o} : Lens(q)[p] = Lens(r)[p]
  BY DEF Lens
<1>3. Total(Lens(r), Owner) = Total(Lens(q), Owner) + Lens(r)[o] - Lens(q)[o]
  BY <1>1, <1>2, TotalChange
<1> QED
  BY <1>3 DEF Counted, Lens

-----------------------------------------------------------------------------
(* The inductive invariant                                                 *)

(* Entries name the type and owner of a lock.                              *)
Slept == [type : LockType, start : Int, end : Int, blk : Owner]

(* A process in its call has one entry on sleeplcks, others have none.     *)
Called(p) ==
  IF lckdat[p] = None THEN sleeplcks[p] = <<>> /\ ~sig[p]
  ELSE lckdat[p] \in Request(p, Locking, SetFlck) /\ Len(sleeplcks[p]) = 1

Lists == Good(v_filocks) /\ Canonical(v_filocks)
Sleepers == sleeplcks \in [Owner -> Seq(Slept)]
Records == reccnt = Len(v_filocks) + Counted(sleeplcks)
Calls ==
  /\ lckdat = [p \in Proc |-> lckdat[p]] /\ wchan = [p \in Proc |-> wchan[p]]
  /\ sig \in [Proc -> BOOLEAN]
  /\ \A p \in Proc : Called(p) /\ (sig[p] => wchan[p] = None)

LInv == Lists /\ Sleepers /\ Records /\ Calls /\ SleeperBlocked

(* The lengths of the lists of entries.                                    *)
LEMMA SleptLen ==
  ASSUME NEW q, q \in [Owner -> Seq(Slept)]
  PROVE  \A p \in Owner : q[p] \in Seq(Slept) /\ Len(q[p]) \in Nat
<1> TAKE p \in Owner
<1>1. q[p] \in Seq(Slept)
  OBVIOUS
<1> QED
  BY ONLY <1>1

(* In terms of the model's own sum.                                        *)
LEMMA RecordsAre ==
  ASSUME Sleepers
  PROVE  Entries = Counted(sleeplcks)
<1>1. \A p \in Owner : Len(sleeplcks[p]) \in Nat
  BY SleptLen DEF Sleepers
<1>2. FoldFunction(+, 0, [p \in Owner |-> Len(sleeplcks[p])]) = Total(Lens(sleeplcks), Owner)
  BY ONLY <1>1, EntriesAre
<1> QED
  BY <1>2 DEF Entries, Counted

(* There are no locks and no entries at first.                             *)
LEMMA InitLInv == Init => LInv
<1> SUFFICES ASSUME Init PROVE LInv
  OBVIOUS
<1>0. Proc \subseteq Owner
  BY DEF Owner
<1>1. Lists
  BY DEF Init, Lists, Good, Canonical
<1>2. Sleepers
  <2>1. <<>> \in Seq(Slept)
    OBVIOUS
  <2>2. sleeplcks = [p \in Owner |-> <<>>]
    BY DEF Init
  <2> HIDE DEF Slept
  <2> QED
    BY ONLY <2>1, <2>2 DEF Sleepers
<1>3. Records
  <2>1. \A p \in Owner : Lens(sleeplcks)[p] = 0
    BY DEF Init, Lens
  <2>2. IsFiniteSet(Owner)
    BY FiniteAssumption DEF Owner
  <2>3. Total(Lens(sleeplcks), Owner) = 0
    BY ONLY <2>1, <2>2, TotalZero
  <2> QED
    BY <2>3 DEF Records, Counted, Init
<1>4. Calls
  BY <1>0 DEF Init, Calls, Called
<1>5. SleeperBlocked
  BY DEF Init, SleeperBlocked
<1> QED
  BY <1>1, <1>2, <1>3, <1>4, <1>5 DEF LInv

-----------------------------------------------------------------------------
(* Who sleeps                                                              *)

(* p, when asleep, sleeps on a lock that is there.                         *)
Waits(p) ==
  wchan[p] # None =>
    /\ lckdat[p] # None
    /\ \E i \in DOMAIN v_filocks :
         LET f == v_filocks[i] IN
         /\ Address(f) = wchan[p]
         /\ f.wakeflg
         /\ Conflicts(lckdat[p], f)
         /\ WaitsFor(p) = {f.pid}

(* SleeperBlocked, process by process.                                     *)
LEMMA WaitsIs == SleeperBlocked <=> \A p \in Proc : Waits(p)
  BY Zenon DEF SleeperBlocked, Waits

(* A lock that somebody sleeps on stays as it is, or its sleepers wake.    *)
LEMMA WaitsKept ==
  ASSUME NEW p, Waits(p), Good(v_filocks), Good(v_filocks'), NEW w,
         Kept(v_filocks, v_filocks', w),
         wchan'[p] # None =>
           /\ wchan'[p] = wchan[p] /\ wchan[p] \notin w
           /\ lckdat'[p] = lckdat[p] /\ sleeplcks'[p] = sleeplcks[p]
  PROVE  Waits(p)'
<1> SUFFICES ASSUME wchan'[p] # None
             PROVE  /\ lckdat'[p] # None
                    /\ \E i \in DOMAIN v_filocks' :
                         LET f == v_filocks'[i] IN
                         /\ Address(f) = wchan'[p]
                         /\ f.wakeflg
                         /\ Conflicts(lckdat'[p], f)
                         /\ WaitsFor(p)' = {f.pid}
  BY Zenon DEF Waits, Address, Conflicts
<1>1. /\ wchan'[p] = wchan[p] /\ wchan[p] \notin w /\ lckdat'[p] = lckdat[p]
      /\ WaitsFor(p)' = WaitsFor(p)
  BY DEF WaitsFor
<1>2. DOMAIN v_filocks = 1 .. Len(v_filocks) /\ DOMAIN v_filocks' = 1 .. Len(v_filocks')
  BY DEF Good
<1>3. lckdat[p] # None
  BY <1>1 DEF Waits
<1>4. PICK i \in 1 .. Len(v_filocks) :
        /\ Address(v_filocks[i]) = wchan[p] /\ v_filocks[i].wakeflg
        /\ Conflicts(lckdat[p], v_filocks[i]) /\ WaitsFor(p) = {v_filocks[i].pid}
  BY <1>1, <1>2 DEF Waits
<1>5. PICK j \in 1 .. Len(v_filocks') : v_filocks'[j] = v_filocks[i]
  BY <1>1, <1>4 DEF Kept
<1> QED
  BY <1>1, <1>2, <1>3, <1>4, <1>5

(* The step changes the list, and wakes those whose locks it changed.      *)
Relists(w) ==
  Good(v_filocks') /\ Canonical(v_filocks') /\ Kept(v_filocks, v_filocks', w) /\ Wake(w)

(* A step that leaves the list and the sleepers alone.                     *)
LEMMA RelistsSame ==
  ASSUME LInv, UNCHANGED <<v_filocks, wchan>>
  PROVE  Relists({})
<1>1. Good(v_filocks) /\ Canonical(v_filocks) /\ wchan = [p \in Proc |-> wchan[p]]
  BY DEF LInv, Lists, Calls
<1>2. Kept(v_filocks, v_filocks, {})
  BY DEF Kept
<1> QED
  BY <1>1, <1>2 DEF Relists, Wake

(* The sleepers that are left sleep on locks that are left.                *)
LEMMA RelistsKeeps ==
  ASSUME LInv, NEW w, Relists(w)
  PROVE  /\ Lists' /\ wchan' = [p \in Proc |-> wchan'[p]]
         /\ \A p \in Proc : wchan[p] = None => wchan'[p] = None
         /\ \A p \in Proc :
              (wchan[p] # None => lckdat'[p] = lckdat[p] /\ sleeplcks'[p] = sleeplcks[p])
                => Waits(p)'
<1>1. /\ Good(v_filocks) /\ \A p \in Proc : Waits(p)
  BY WaitsIs DEF LInv, Lists
<1>2. wchan' = [p \in Proc |-> IF wchan[p] \in w THEN None ELSE wchan[p]]
  BY DEF Relists, Wake
<1>3. \A p \in Proc : wchan'[p] = IF wchan[p] \in w THEN None ELSE wchan[p]
  BY <1>2
<1>4. Lists'
  BY DEF Relists, Lists, Good, Canonical, Span
<1>5. ASSUME NEW p \in Proc,
             wchan[p] # None => lckdat'[p] = lckdat[p] /\ sleeplcks'[p] = sleeplcks[p]
      PROVE  Waits(p)'
  <2>1. wchan'[p] # None =>
           /\ wchan'[p] = wchan[p] /\ wchan[p] \notin w
           /\ lckdat'[p] = lckdat[p] /\ sleeplcks'[p] = sleeplcks[p]
    BY <1>3, <1>5
  <2> QED
    BY <1>1, <2>1, WaitsKept DEF Relists
<1> QED
  BY <1>2, <1>3, <1>4, <1>5

-----------------------------------------------------------------------------
(* The entries and the record count                                        *)

(* When the list and the entries of one owner change, reccnt must change   *)
(* by as many.                                                             *)
LEMMA RecordsKeep ==
  ASSUME Lists, Lists', Sleepers, Records, NEW o \in Owner, NEW e \in Seq(Slept),
         sleeplcks' = [sleeplcks EXCEPT ![o] = e],
         reccnt' = reccnt + (Len(v_filocks') - Len(v_filocks)) + (Len(e) - Len(sleeplcks[o]))
  PROVE  Sleepers' /\ Records'
<1>1. PICK q : q = sleeplcks'
  OBVIOUS
<1>2. q \in [Owner -> Seq(Slept)] /\ q[o] = e /\ \A p \in Owner \ {o} : q[p] = sleeplcks[p]
  <2> HIDE DEF Slept
  <2> QED
    BY <1>1 DEF Sleepers
<1>3. \A p \in Owner : Len(sleeplcks[p]) \in Nat /\ Len(q[p]) \in Nat
  BY <1>2, SleptLen DEF Sleepers
<1>4. Counted(q) = Counted(sleeplcks) + Len(q[o]) - Len(sleeplcks[o])
  BY ONLY <1>2, <1>3, o \in Owner, CountedChange
<1>5. Counted(sleeplcks) \in Int
  BY ONLY <1>3, CountedIs
<1>6. Len(v_filocks) \in Nat /\ Len(v_filocks') \in Nat
  BY DEF Lists, Good
<1>7. PICK a \in Int : a = Counted(sleeplcks)
  BY <1>5
<1>8. PICK n \in Nat, m \in Nat : n = Len(v_filocks) /\ m = Len(v_filocks')
  BY <1>6
<1>9. PICK x \in Nat, y \in Nat : x = Len(e) /\ y = Len(sleeplcks[o])
  BY <1>2, <1>3
<1>10. reccnt = n + a /\ reccnt' = reccnt + (m - n) + (x - y)
  BY <1>7, <1>8, <1>9 DEF Records
<1>11. Counted(q) = a + x - y
  BY <1>2, <1>4, <1>7, <1>9
<1>12. reccnt' = m + Counted(q)
  BY ONLY <1>10, <1>11, a \in Int, n \in Nat, m \in Nat, x \in Nat, y \in Nat
<1>13. Records'
  BY <1>1, <1>8, <1>12 DEF Records, Counted, Lens
<1> QED
  BY <1>1, <1>2, <1>13 DEF Sleepers

(* reccnt is a number.                                                     *)
LEMMA RecordsInt ==
  ASSUME LInv
  PROVE  reccnt \in Int
<1>1. \A p \in Owner : Len(sleeplcks[p]) \in Nat
  BY SleptLen DEF Sleepers, LInv
<1>2. Counted(sleeplcks) \in Int
  BY ONLY <1>1, CountedIs
<1>3. Len(v_filocks) \in Nat
  BY DEF LInv, Lists, Good
<1> QED
  BY <1>2, <1>3 DEF LInv, Records

-----------------------------------------------------------------------------
(* What the steps have in common                                           *)

(* The call of p returns.                                                  *)
LEMMA EndKeeps ==
  ASSUME LInv, NEW p \in Proc, wchan[p] = None, NEW w, Relists(w), Return(p),
         sig' = [sig EXCEPT ![p] = FALSE],
         reccnt' = reccnt - Len(sleeplcks[p]) + (Len(v_filocks') - Len(v_filocks))
  PROVE  LInv'
<1>0. p \in Owner /\ Proc \subseteq Owner
  BY DEF Owner
<1>1. /\ Lists' /\ wchan' = [q \in Proc |-> wchan'[q]]
      /\ \A q \in Proc : wchan[q] = None => wchan'[q] = None
  BY RelistsKeeps
<1>2. /\ Lists /\ Sleepers /\ Records /\ sig \in [Proc -> BOOLEAN]
      /\ lckdat = [q \in Proc |-> lckdat[q]]
      /\ \A q \in Proc : Called(q) /\ (sig[q] => wchan[q] = None)
  BY DEF LInv, Calls
<1>3. /\ lckdat' = [lckdat EXCEPT ![p] = None]
      /\ sleeplcks' = [sleeplcks EXCEPT ![p] = <<>>]
  BY DEF Return
<1>4. /\ DOMAIN sleeplcks = Owner /\ Len(sleeplcks[p]) \in Nat
  BY <1>0, <1>2, SleptLen DEF Sleepers
<1>5. Sleepers' /\ Records'
  <2>1. <<>> \in Seq(Slept) /\ Len(<<>>) = 0
    OBVIOUS
  <2>2. Len(v_filocks) \in Nat /\ Len(v_filocks') \in Nat
    BY <1>1, <1>2 DEF Lists, Good
  <2>3. reccnt' = reccnt + (Len(v_filocks') - Len(v_filocks)) + (Len(<<>>) - Len(sleeplcks[p]))
    <3>1. PICK n \in Nat, m \in Nat, k \in Nat :
            n = Len(v_filocks) /\ m = Len(v_filocks') /\ k = Len(sleeplcks[p])
      BY <1>4, <2>2
    <3>2. reccnt \in Int
      BY RecordsInt
    <3>3. reccnt - k + (m - n) = reccnt + (m - n) + (0 - k)
      BY ONLY <3>2, n \in Nat, m \in Nat, k \in Nat
    <3> QED
      BY <2>1, <3>1, <3>3
  <2> QED
    BY ONLY <1>0, <1>1, <1>2, <1>3, <2>1, <2>3, RecordsKeep
<1>6. \A q \in Proc \ {p} :
        lckdat'[q] = lckdat[q] /\ sleeplcks'[q] = sleeplcks[q] /\ sig'[q] = sig[q]
  BY <1>0, <1>2, <1>3, <1>4
<1>7. lckdat'[p] = None /\ sleeplcks'[p] = <<>> /\ sig'[p] = FALSE
  BY <1>0, <1>2, <1>3, <1>4
<1>8. Calls'
  <2>1. lckdat' = [q \in Proc |-> lckdat'[q]] /\ sig' \in [Proc -> BOOLEAN]
    BY <1>2, <1>3
  <2>2. \A q \in Proc : Called(q)' /\ (sig'[q] => wchan'[q] = None)
    BY <1>1, <1>2, <1>6, <1>7 DEF Called
  <2> QED
    BY <1>1, <2>1, <2>2 DEF Calls
<1>9. SleeperBlocked'
  <2>1. ASSUME NEW q \in Proc PROVE Waits(q)'
    BY <1>6, <2>1, RelistsKeeps
  <2> QED
    BY <2>1, Zenon DEF SleeperBlocked, Waits
<1> QED
  BY <1>1, <1>5, <1>8, <1>9 DEF LInv

(* No call begins or ends; only a remote process has its entries changed.  *)
LEMMA OwnerKeeps ==
  ASSUME LInv, NEW w, Relists(w), NEW o \in Owner, NEW e \in Seq(Slept),
         o \in Proc => e = sleeplcks[o],
         sleeplcks' = [sleeplcks EXCEPT ![o] = e], UNCHANGED <<lckdat, sig>>,
         reccnt' = reccnt + (Len(v_filocks') - Len(v_filocks)) + (Len(e) - Len(sleeplcks[o]))
  PROVE  LInv'
<1>0. Proc \subseteq Owner
  BY DEF Owner
<1>1. /\ Lists' /\ wchan' = [q \in Proc |-> wchan'[q]]
      /\ \A q \in Proc : wchan[q] = None => wchan'[q] = None
  BY RelistsKeeps
<1>2. /\ Lists /\ Sleepers /\ Records /\ sig \in [Proc -> BOOLEAN]
      /\ lckdat = [q \in Proc |-> lckdat[q]]
      /\ \A q \in Proc : Called(q) /\ (sig[q] => wchan[q] = None)
  BY DEF LInv, Calls
<1>3. Sleepers' /\ Records'
  BY <1>1, <1>2, RecordsKeep
<1>4. \A q \in Proc : sleeplcks'[q] = sleeplcks[q]
  BY <1>0, <1>2 DEF Sleepers
<1>5. Calls'
  <2>1. \A q \in Proc : Called(q)' /\ (sig'[q] => wchan'[q] = None)
    BY <1>1, <1>2, <1>4 DEF Called
  <2> QED
    BY <1>1, <1>2, <2>1 DEF Calls
<1>6. SleeperBlocked'
  <2>1. ASSUME NEW q \in Proc PROVE Waits(q)'
    BY <1>4, <2>1, RelistsKeeps
  <2> QED
    BY <2>1, Zenon DEF SleeperBlocked, Waits
<1> QED
  BY <1>1, <1>3, <1>5, <1>6 DEF LInv

(* No call begins or ends and no entry changes.                            *)
LEMMA SameKeeps ==
  ASSUME LInv, NEW w, Relists(w), NEW o \in Owner, UNCHANGED <<sleeplcks, lckdat, sig>>,
         reccnt' = reccnt + (Len(v_filocks') - Len(v_filocks))
  PROVE  LInv'
<1>1. sleeplcks[o] \in Seq(Slept) /\ Len(sleeplcks[o]) \in Nat
  BY SleptLen DEF LInv, Sleepers
<1>2. sleeplcks' = [sleeplcks EXCEPT ![o] = sleeplcks[o]]
  BY DEF LInv, Sleepers
<1>3. reccnt' = reccnt + (Len(v_filocks') - Len(v_filocks))
                  + (Len(sleeplcks[o]) - Len(sleeplcks[o]))
  <2>1. Len(v_filocks) \in Nat /\ Len(v_filocks') \in Nat /\ reccnt \in Int
    BY RecordsInt DEF LInv, Lists, Relists, Good
  <2>2. PICK n \in Nat, m \in Nat, k \in Nat :
          n = Len(v_filocks) /\ m = Len(v_filocks') /\ k = Len(sleeplcks[o])
    BY <1>1, <2>1
  <2>3. reccnt + (m - n) = reccnt + (m - n) + (k - k)
    BY ONLY <2>1, n \in Nat, m \in Nat, k \in Nat
  <2> QED
    BY <2>2, <2>3
<1> QED
  BY <1>1, <1>2, <1>3, OwnerKeeps

-----------------------------------------------------------------------------
(* Going to sleep                                                          *)

(* blocked() finds the first of the locks that exclude the request.        *)
LEMMA FoundIs ==
  ASSUME Lists, NEW ld, Blockers(ld) # {}
  PROVE  \E i \in 1 .. Len(v_filocks) :
           Found(ld) = v_filocks[i] /\ Conflicts(ld, v_filocks[i])
<1>1. DOMAIN v_filocks = 1 .. Len(v_filocks) /\ Len(v_filocks) \in Nat
  BY DEF Lists, Good
<1>2. Blockers(ld) = {i \in 1 .. Len(v_filocks) : Conflicts(ld, v_filocks[i])}
  BY <1>1 DEF Blockers
<1>3. Blockers(ld) \subseteq Nat
  BY <1>1, <1>2
<1>4. PICK n : n = Min(Blockers(ld))
  OBVIOUS
<1>5. n \in Blockers(ld) /\ \A j \in Blockers(ld) : n <= j
  BY <1>3, <1>4, MinIs
<1>6. PICK i : i = CHOOSE k \in Blockers(ld) : \A j \in Blockers(ld) : k <= j
  OBVIOUS
<1>7. i \in Blockers(ld)
  BY <1>5, <1>6
<1>8. Found(ld) = v_filocks[i]
  BY <1>6 DEF Found
<1> QED
  BY <1>2, <1>7, <1>8

(* The list once somebody sleeps on the lock F.                            *)
Marked(l, F) ==
  [i \in DOMAIN l |-> IF l[i] = F THEN [l[i] EXCEPT !.wakeflg = TRUE] ELSE l[i]]

(* The mark changes nothing but wakeflg, and no lock that has its mark.    *)
LEMMA MarkedIs ==
  ASSUME NEW l, Good(l), Canonical(l), NEW F, NEW m, m = Marked(l, F)
  PROVE  /\ Good(m) /\ Canonical(m) /\ Len(m) = Len(l) /\ Kept(l, m, {})
         /\ \A i \in 1 .. Len(l) : Alike(m[i], l[i]) /\ (l[i] = F => m[i].wakeflg)
<1>1. l \in Seq(LockRec) /\ Len(l) \in Nat /\ DOMAIN l = 1 .. Len(l)
  BY DEF Good
<1>2. \A i \in 1 .. Len(l) : l[i] \in LockRec /\ Span(l[i])
  BY <1>1 DEF Good
<1>3. ASSUME NEW i \in 1 .. Len(l)
      PROVE  /\ m[i] \in LockRec /\ Alike(m[i], l[i]) /\ (l[i] = F => m[i].wakeflg)
             /\ (l[i].wakeflg => m[i] = l[i])
  <2>1. PICK x \in LockRec : x = l[i]
    BY <1>2
  <2>2. m[i] = IF x = F THEN [x EXCEPT !.wakeflg = TRUE] ELSE x
    BY <1>1, <2>1 DEF Marked
  <2>3. CASE x = F
    <3>1. m[i] = [x EXCEPT !.wakeflg = TRUE]
      BY <2>2, <2>3
    <3>2. m[i] \in LockRec /\ Alike(m[i], x) /\ m[i].wakeflg
      BY ONLY <3>1, x \in LockRec DEF LockRec, Alike
    <3>3. x.wakeflg => m[i] = x
      BY ONLY <3>1, x \in LockRec DEF LockRec
    <3> QED
      BY <2>1, <3>2, <3>3
  <2>4. CASE x # F
    <3>1. m[i] = x
      BY <2>2, <2>4
    <3> QED
      BY <2>1, <2>4, <3>1 DEF Alike
  <2> QED
    BY <2>3, <2>4
<1>4. m \in Seq(LockRec) /\ Len(m) = Len(l)
  <2>1. PICK n \in Nat : n = Len(l)
    BY <1>1
  <2>2. DOMAIN m = 1 .. n /\ m = [i \in 1 .. n |-> m[i]]
    BY <1>1, <2>1 DEF Marked
  <2>3. \A i \in 1 .. n : m[i] \in LockRec
    BY <1>3, <2>1
  <2> HIDE DEF LockRec
  <2>4. m \in [1 .. n -> LockRec]
    BY ONLY <2>2, <2>3
  <2>5. m \in Seq(LockRec) /\ Len(m) = n
    BY ONLY <2>4, n \in Nat
  <2> QED
    BY <2>1, <2>5
<1>5. Good(m)
  <2>1. \A i \in 1 .. Len(m) : Span(m[i])
    BY <1>2, <1>3, <1>4 DEF Span, Alike
  <2> QED
    BY <1>4, <2>1 DEF Good
<1>6. Canonical(m)
  <2>1. DOMAIN m = 1 .. Len(l)
    BY <1>1 DEF Marked
  <2>2. ASSUME NEW i \in 1 .. Len(l), NEW j \in 1 .. Len(l), i < j
        PROVE  /\ m[i].start <= m[j].start
               /\ m[i].pid = m[j].pid =>
                    /\ m[i].end < m[j].start
                    /\ m[i].type = m[j].type => m[i].end + 1 < m[j].start
    <3>1. Alike(m[i], l[i]) /\ Alike(m[j], l[j])
      BY <1>3
    <3>2. /\ l[i].start <= l[j].start
          /\ l[i].pid = l[j].pid =>
               /\ l[i].end < l[j].start
               /\ l[i].type = l[j].type => l[i].end + 1 < l[j].start
      BY <2>2, <1>1 DEF Canonical
    <3> QED
      BY <3>1, <3>2 DEF Alike
  <2> QED
    BY <2>1, <2>2 DEF Canonical
<1>7. Kept(l, m, {})
  BY <1>3, <1>4 DEF Kept
<1> QED
  BY <1>3, <1>4, <1>5, <1>6, <1>7

(* p goes to sleep on a lock that is there, and is listed as waiting for   *)
(* its owner.                                                              *)
LEMMA SleepWaits ==
  ASSUME LInv, NEW p \in Proc, NEW c \in Request(p, Locking, SetFlck), NEW cnt, Sleep(p, c, cnt),
         sleeplcks'[p] = <<Entry(c, Found(c).pid)>>, lckdat'[p] = c,
         wchan'[p] = Address(Found(c)), v_filocks' = Marked(v_filocks, Found(c))
  PROVE  Waits(p)'
<1>1. PICK i \in 1 .. Len(v_filocks) : Found(c) = v_filocks[i] /\ Conflicts(c, v_filocks[i])
  BY FoundIs DEF Sleep, LInv
<1>2. PICK l : l = v_filocks
  OBVIOUS
<1>3. PICK m : m = v_filocks'
  OBVIOUS
<1>4. PICK F : F = Found(c)
  OBVIOUS
<1>5. Good(l) /\ Canonical(l) /\ m = Marked(l, F) /\ i \in 1 .. Len(l) /\ F = l[i]
  BY <1>1, <1>2, <1>3, <1>4 DEF LInv, Lists
<1>6. Alike(m[i], F) /\ m[i].wakeflg /\ Len(m) = Len(l) /\ Good(m)
  BY <1>5, MarkedIs
<1>7. i \in DOMAIN m
  BY <1>5, <1>6 DEF Good
<1>8. Address(m[i]) = Address(F) /\ Conflicts(c, m[i])
  <2>1. Conflicts(c, F)
    BY <1>1, <1>4
  <2> QED
    BY <1>6, <2>1 DEF Address, Conflicts, Alike
<1>9. WaitsFor(p)' = {m[i].pid}
  <2>1. sleeplcks'[p] = <<Entry(c, F.pid)>> /\ Entry(c, F.pid).blk = F.pid
    BY <1>4 DEF Entry
  <2>2. WaitsFor(p)' = IF sleeplcks'[p] = <<>> THEN {} ELSE {Head(sleeplcks'[p]).blk}
    BY DEF WaitsFor
  <2>3. PICK e : e = Entry(c, F.pid)
    OBVIOUS
  <2>4. sleeplcks'[p] = <<e>> /\ <<e>> # <<>> /\ Head(<<e>>) = e
    BY <2>1, <2>3
  <2>5. WaitsFor(p)' = {e.blk}
    BY <2>2, <2>4
  <2> QED
    BY <1>6, <2>1, <2>3, <2>5 DEF Alike
<1>10. c # None
  BY NotARequest
<1> QED
  BY <1>3, <1>4, <1>6, <1>7, <1>8, <1>9, <1>10 DEF Waits

(* All others sleep as before.                                             *)
LEMMA SleepEnds ==
  ASSUME LInv, NEW p \in Proc, NEW c \in Request(p, Locking, SetFlck), NEW cnt,
         cnt = reccnt - Len(sleeplcks[p]), ~sig[p], Sleep(p, c, cnt), sig' = sig
  PROVE  LInv'
<1>0. p \in Owner /\ Proc \subseteq Owner
  BY DEF Owner
<1>2. /\ Lists /\ Sleepers /\ Records /\ sig \in [Proc -> BOOLEAN]
      /\ lckdat = [q \in Proc |-> lckdat[q]] /\ wchan = [q \in Proc |-> wchan[q]]
      /\ \A q \in Proc : Called(q) /\ (sig[q] => wchan[q] = None) /\ Waits(q)
  BY WaitsIs DEF LInv, Calls
<1>3. /\ v_filocks' = Marked(v_filocks, Found(c))
      /\ sleeplcks' = [sleeplcks EXCEPT ![p] = <<Entry(c, Found(c).pid)>>]
      /\ lckdat' = [lckdat EXCEPT ![p] = c]
      /\ wchan' = [wchan EXCEPT ![p] = Address(Found(c))]
      /\ reccnt' = cnt + 1
  BY DEF Sleep, Marked
<1>4. DOMAIN sleeplcks = Owner /\ Len(sleeplcks[p]) \in Nat /\ reccnt \in Int
  BY <1>0, <1>2, SleptLen, RecordsInt DEF Sleepers
<1>5. PICK e : e = Entry(c, Found(c).pid)
  OBVIOUS
<1>6. /\ sleeplcks'[p] = <<Entry(c, Found(c).pid)>> /\ lckdat'[p] = c
      /\ wchan'[p] = Address(Found(c))
  BY <1>0, <1>2, <1>3, <1>4
<1>7. \A q \in Proc \ {p} :
        /\ lckdat'[q] = lckdat[q] /\ sleeplcks'[q] = sleeplcks[q]
        /\ wchan'[q] = wchan[q] /\ sig'[q] = sig[q]
  BY <1>0, <1>2, <1>3, <1>4
<1>8. /\ Good(v_filocks') /\ Canonical(v_filocks') /\ Len(v_filocks') = Len(v_filocks)
      /\ Kept(v_filocks, v_filocks', {})
  BY <1>2, <1>3, MarkedIs DEF Lists
<1>9. Lists'
  BY <1>8 DEF Lists, Good, Canonical, Span
<1>10. e \in Slept
  <2>1. PICK i \in 1 .. Len(v_filocks) : Found(c) = v_filocks[i]
    BY <1>2, FoundIs DEF Sleep
  <2>2. PICK f \in LockRec : f = Found(c)
    BY <1>2, <2>1 DEF Lists, Good
  <2>3. c \in Asked /\ c.type \in LockType
    BY <1>0, LockRequestIs, RequestAssumption
  <2>4. e = [type |-> c.type, start |-> c.start, end |-> c.end, blk |-> f.pid]
    BY <1>5, <2>2 DEF Entry
  <2> QED
    BY ONLY <2>3, <2>4, f \in LockRec DEF Slept, Asked, LockRec
<1>11. Sleepers' /\ Records'
  <2>1. <<e>> \in Seq(Slept) /\ Len(<<e>>) = 1
    BY <1>10
  <2>7. Len(v_filocks) \in Nat
    BY <1>2 DEF Lists, Good
  <2>2. PICK k \in Nat, n \in Nat : k = Len(sleeplcks[p]) /\ n = Len(v_filocks)
    BY <1>4, <2>7
  <2>3. reccnt - k + 1 = reccnt + (n - n) + (1 - k)
    BY ONLY <1>4, k \in Nat, n \in Nat
  <2>4. reccnt' = reccnt - k + 1
    BY <1>3, <2>2
  <2>5. reccnt' = reccnt + (Len(v_filocks') - Len(v_filocks)) + (Len(<<e>>) - Len(sleeplcks[p]))
    BY ONLY <2>4, <2>3, <1>8, <2>1, <2>2
  <2>6. sleeplcks' = [sleeplcks EXCEPT ![p] = <<e>>]
    BY <1>3, <1>5
  <2> QED
    BY ONLY <1>0, <1>2, <1>9, <2>1, <2>5, <2>6, RecordsKeep
<1>12. Calls'
  <2>1. lckdat' = [q \in Proc |-> lckdat'[q]] /\ wchan' = [q \in Proc |-> wchan'[q]]
    BY <1>2, <1>3
  <2>2. Called(p)' /\ ~sig'[p]
    <3>1. c # None
      BY NotARequest
    <3>2. Len(sleeplcks'[p]) = 1
      BY <1>5, <1>6
    <3> QED
      BY <1>6, <3>1, <3>2 DEF Called
  <2>3. \A q \in Proc \ {p} : Called(q)' /\ (sig'[q] => wchan'[q] = None)
    BY <1>2, <1>7 DEF Called
  <2> QED
    BY <1>2, <2>1, <2>2, <2>3 DEF Calls
<1>13. SleeperBlocked'
  <2>1. Waits(p)'
    BY <1>3, <1>6, SleepWaits
  <2>2. ASSUME NEW q \in Proc \ {p} PROVE Waits(q)'
    <3>1. /\ wchan'[q] = wchan[q] /\ wchan[q] \notin {}
          /\ lckdat'[q] = lckdat[q] /\ sleeplcks'[q] = sleeplcks[q]
      BY <1>7
    <3>2. Waits(q) /\ Good(v_filocks)
      BY <1>2 DEF Lists
    <3> QED
      BY ONLY <1>8, <3>1, <3>2, WaitsKept
  <2>3. \A q \in Proc : Waits(q)'
    BY <2>1, <2>2
  <2> QED
    BY <2>3, Zenon DEF SleeperBlocked, Waits
<1> QED
  BY <1>9, <1>11, <1>12, <1>13 DEF LInv

-----------------------------------------------------------------------------
(* The actions                                                             *)

(* The list after flckadj().                                               *)
LEMMA AdjustedRelists ==
  ASSUME LInv, NEW c, NEW cnt \in Int, NEW t, Adjusts(v_filocks, c, cnt, t), Adjusted(t)
  PROVE  Relists(t.woken) /\ t.reccnt = cnt + (Len(v_filocks') - Len(v_filocks))
<1>1. v_filocks' = t.list /\ Wake(t.woken)
  BY DEF Adjusted
<1>2. /\ Good(t.list) /\ Canonical(t.list) /\ t.reccnt = cnt - Len(v_filocks) + Len(t.list)
      /\ Kept(v_filocks, t.list, t.woken)
  BY DEF Adjusts
<1>3. Relists(t.woken)
  BY <1>1, <1>2 DEF Relists
<1>4. PICK n \in Nat, m \in Nat : n = Len(v_filocks) /\ m = Len(t.list)
  BY <1>2 DEF Good, LInv, Lists
<1>5. cnt - n + m = cnt + (m - n)
  OBVIOUS
<1> QED
  BY <1>1, <1>2, <1>3, <1>4, <1>5

(* Granted, tested and refused attempts.                                   *)
LEMMA AnswerRelists ==
  ASSUME LInv, NEW c \in Asked, Span(c), NEW cnt \in Int,
         Granted(c, cnt) \/ Tested(c, cnt) \/ Refused(c, cnt)
  PROVE  \E w : Relists(w) /\ reccnt' = cnt + (Len(v_filocks') - Len(v_filocks))
<1>1. CASE Granted(c, cnt)
  <2>1. PICK t \in Adjustments(c, cnt) : Adjusted(t) /\ reccnt' = t.reccnt
    BY <1>1 DEF Granted
  <2>2. Adjusts(v_filocks, c, cnt, t)
    BY AdjustmentIs DEF LInv, Lists
  <2> QED
    BY <2>1, <2>2, AdjustedRelists
<1>2. CASE Tested(c, cnt) \/ Refused(c, cnt)
  <2>1. reccnt' = cnt /\ UNCHANGED <<v_filocks, wchan>>
    BY <1>2 DEF Tested, Refused
  <2>2. PICK n \in Nat : n = Len(v_filocks)
    BY DEF LInv, Lists, Good
  <2>3. cnt = cnt + (n - n)
    BY n \in Nat
  <2> QED
    BY <2>1, <2>2, <2>3, RelistsSame
<1> QED
  BY <1>1, <1>2

(* An attempt to lock, once the entry of the process is not counted.       *)
LEMMA AttemptEnds ==
  ASSUME LInv, NEW p \in Proc, NEW c \in Request(p, Locking, SetFlck), wchan[p] = None,
         ~sig[p], NEW cnt, cnt = reccnt - Len(sleeplcks[p]), Attempt(p, c, cnt), sig' = sig
  PROVE  LInv'
<1>0. p \in Owner /\ sig \in [Proc -> BOOLEAN]
  BY DEF Owner, LInv, Calls
<1>1. Len(sleeplcks[p]) \in Nat /\ reccnt \in Int
  BY <1>0, SleptLen, RecordsInt DEF LInv, Sleepers
<1>2. cnt \in Int
  BY <1>1
<1>3. CASE Sleep(p, c, cnt)
  BY <1>3, SleepEnds
<1>4. CASE Return(p) /\ (Granted(c, cnt) \/ Tested(c, cnt) \/ Refused(c, cnt))
  <2>1. c \in Asked /\ Span(c)
    BY <1>0, LockRequestIs, RequestAssumption
  <2>2. PICK w : Relists(w) /\ reccnt' = cnt + (Len(v_filocks') - Len(v_filocks))
    BY <1>0, <1>2, <1>4, <2>1, AnswerRelists
  <2>3. sig' = [sig EXCEPT ![p] = FALSE]
    BY <1>0
  <2> QED
    BY <1>4, <2>2, <2>3, EndKeeps
<1> QED
  BY <1>3, <1>4 DEF Attempt

(* A call begins, without an entry.                                        *)
LEMMA reclockKeeps ==
  ASSUME LInv, NEW p \in Proc, reclock(p)
  PROVE  LInv'
<1>1. PICK c \in Request(p, Locking, SetFlck) : Attempt(p, c, reccnt)
  BY DEF reclock
<1>2. lckdat[p] = None /\ sig' = sig
  BY DEF reclock
<1>3. Called(p) /\ Waits(p) /\ reccnt \in Int
  BY RecordsInt, WaitsIs DEF LInv, Calls
<1>4. ~sig[p] /\ sleeplcks[p] = <<>> /\ wchan[p] = None
  BY <1>2, <1>3 DEF Called, Waits
<1>5. reccnt = reccnt - Len(sleeplcks[p])
  <2>1. Len(sleeplcks[p]) = 0
    BY <1>4
  <2> QED
    BY ONLY <1>3, <2>1
<1> QED
  BY <1>1, <1>2, <1>4, <1>5, AttemptEnds

(* The call goes on, and its entry is taken away first.                    *)
LEMMA reclockAgainKeeps ==
  ASSUME LInv, NEW p \in Proc, reclockAgain(p)
  PROVE  LInv'
<1>1. /\ lckdat[p] # None /\ wchan[p] = None /\ ~sig[p]
      /\ Attempt(p, lckdat[p], reccnt - 1) /\ sig' = sig
  BY DEF reclockAgain
<1>2. Called(p)
  BY DEF LInv, Calls
<1>3. lckdat[p] \in Request(p, Locking, SetFlck) /\ Len(sleeplcks[p]) = 1
  BY <1>1, <1>2 DEF Called
<1>4. reccnt - 1 = reccnt - Len(sleeplcks[p])
  BY <1>3
<1> QED
  BY <1>1, <1>3, <1>4, AttemptEnds

(* The call is interrupted.                                                *)
LEMMA reclockIntrKeeps ==
  ASSUME LInv, NEW p \in Proc, reclockIntr(p)
  PROVE  LInv'
<1>1. /\ lckdat[p] # None /\ sig[p] /\ Return(p) /\ reccnt' = reccnt - 1
      /\ sig' = [sig EXCEPT ![p] = FALSE] /\ UNCHANGED <<v_filocks, wchan>>
  BY DEF reclockIntr
<1>2. Called(p) /\ (sig[p] => wchan[p] = None)
  BY DEF LInv, Calls
<1>3. Len(sleeplcks[p]) = 1 /\ wchan[p] = None
  BY <1>1, <1>2 DEF Called
<1>4. Relists({})
  BY <1>1, RelistsSame
<1>5. reccnt' = reccnt - Len(sleeplcks[p]) + (Len(v_filocks') - Len(v_filocks))
  <2>1. Len(v_filocks) \in Nat
    BY DEF LInv, Lists, Good
  <2>2. PICK n \in Nat : n = Len(v_filocks)
    BY <2>1
  <2>3. reccnt \in Int
    BY RecordsInt
  <2>4. reccnt - 1 = reccnt - 1 + (n - n)
    BY ONLY <2>3, n \in Nat
  <2>5. Len(v_filocks') = n
    BY <1>1, <2>2
  <2> QED
    BY <1>1, <1>3, <2>2, <2>4, <2>5
<1> QED
  BY <1>1, <1>3, <1>4, <1>5, EndKeeps

(* A signal ends the sleep.                                                *)
LEMMA psignalKeeps ==
  ASSUME LInv, NEW p \in Proc, psignal(p)
  PROVE  LInv'
<1>1. /\ lckdat[p] # None /\ ~sig[p] /\ sig' = [sig EXCEPT ![p] = TRUE]
      /\ wchan' = [wchan EXCEPT ![p] = None]
      /\ UNCHANGED <<v_filocks, reccnt, sleeplcks, lckdat>>
  BY DEF psignal
<1>2. /\ Lists /\ Sleepers /\ Records /\ sig \in [Proc -> BOOLEAN]
      /\ lckdat = [q \in Proc |-> lckdat[q]] /\ wchan = [q \in Proc |-> wchan[q]]
      /\ \A q \in Proc : Called(q) /\ (sig[q] => wchan[q] = None) /\ Waits(q)
  BY WaitsIs DEF LInv, Calls
<1>3. \A q \in Proc : wchan'[q] = (IF q = p THEN None ELSE wchan[q])
  BY <1>1, <1>2
<1>4. Lists' /\ Sleepers' /\ Records'
  <2>1. Counted(sleeplcks') = Counted(sleeplcks)
    BY <1>1
  <2> QED
    BY <1>1, <1>2 DEF Lists, Good, Canonical, Span, Sleepers, Records, Counted, Lens
<1>5. Calls'
  <2>1. wchan' = [q \in Proc |-> wchan'[q]] /\ sig' \in [Proc -> BOOLEAN]
    BY <1>1, <1>2
  <2>2. \A q \in Proc : Called(q)' /\ (sig'[q] => wchan'[q] = None)
    BY <1>1, <1>2, <1>3 DEF Called
  <2> QED
    BY <1>1, <1>2, <2>1, <2>2 DEF Calls
<1>6. SleeperBlocked'
  <2>1. ASSUME NEW q \in Proc PROVE Waits(q)'
    <3>1. Good(v_filocks) /\ Good(v_filocks') /\ Kept(v_filocks, v_filocks', {})
      BY <1>1, <1>2 DEF Lists, Kept
    <3>2. wchan'[q] # None =>
            /\ wchan'[q] = wchan[q] /\ wchan[q] \notin {}
            /\ lckdat'[q] = lckdat[q] /\ sleeplcks'[q] = sleeplcks[q]
      BY <1>1, <1>3
    <3>3. Waits(q)
      BY <1>2
    <3> QED
      BY ONLY <3>1, <3>2, <3>3, WaitsKept
  <2> QED
    BY <2>1, Zenon DEF SleeperBlocked, Waits
<1> QED
  BY <1>4, <1>5, <1>6 DEF LInv

(* F_UNLCK by a local process.                                             *)
LEMMA UnlockedRelists ==
  ASSUME LInv, NEW o \in Owner, NEW c \in Request(o, {"F_UNLCK"}, {TRUE}),
         NEW t \in Unlockings(c), Adjusted(t)
  PROVE  /\ Relists(t.woken) /\ t.reccnt = reccnt + (Len(v_filocks') - Len(v_filocks))
         /\ Adjusts(v_filocks, c, reccnt, t)
<1>1. reccnt \in Int
  BY RecordsInt
<1>2. Adjusts(v_filocks, c, reccnt, t)
  BY <1>1, UnlockingIs DEF LInv, Lists
<1> QED
  BY <1>1, <1>2, AdjustedRelists

(* The list changes, and nothing else.                                     *)
LEMMA unlockKeeps ==
  ASSUME LInv, NEW p \in Proc, unlock(p)
  PROVE  LInv'
<1>1. PICK c \in Request(p, {"F_UNLCK"}, {TRUE}) :
        \E t \in Unlockings(c) : Adjusted(t) /\ reccnt' = t.reccnt
  BY DEF unlock
<1>2. PICK t \in Unlockings(c) : Adjusted(t) /\ reccnt' = t.reccnt
  BY <1>1
<1>3. p \in Owner
  BY DEF Owner
<1>4. Relists(t.woken) /\ reccnt' = reccnt + (Len(v_filocks') - Len(v_filocks))
  BY <1>2, <1>3, UnlockedRelists
<1>5. UNCHANGED <<sleeplcks, lckdat, sig>>
  BY DEF unlock
<1> QED
  BY <1>3, <1>4, <1>5, SameKeeps

(* Those who sleep on the locks that close() deletes are awakened.         *)
LEMMA cleanlocksKeeps ==
  ASSUME LInv, NEW p \in Proc, cleanlocks(p)
  PROVE  LInv'
<1>1. PICK own : own = {i \in DOMAIN v_filocks : v_filocks[i].pid = p}
  OBVIOUS
<1>2. PICK w : w = UNION {Waiters(v_filocks[i]) : i \in own}
  OBVIOUS
<1>3. /\ v_filocks' = Without(v_filocks, own) /\ reccnt' = reccnt - Cardinality(own)
      /\ Wake(w) /\ UNCHANGED <<sleeplcks, lckdat, sig>>
  BY <1>1, <1>2 DEF cleanlocks
<1>4. PICK l : l = v_filocks
  OBVIOUS
<1>5. PICK m : m = v_filocks'
  OBVIOUS
<1>6. /\ Good(l) /\ Canonical(l) /\ own = OwnOf(l, p)
      /\ m = Without(l, own)
  BY <1>1, <1>3, <1>4, <1>5 DEF LInv, Lists, OwnOf
<1>12. own = {i \in 1 .. Len(l) : l[i].pid = p}
  BY <1>6 DEF Good, OwnOf
<1>7. /\ Good(m) /\ Canonical(m) /\ Len(m) = Len(l) - Cardinality(own)
      /\ Purged(l, p, m)
  BY ONLY <1>6, PurgedIs
<1>8. Kept(l, m, w)
  <2> SUFFICES ASSUME NEW k \in 1 .. Len(l), l[k].wakeflg
               PROVE  Address(l[k]) \in w \/ \E j \in 1 .. Len(m) : m[j] = l[k]
    BY DEF Kept
  <2>1. CASE l[k].pid = p
    <3>1. k \in own
      BY <1>12, <2>1
    <3>2. Address(l[k]) \in Waiters(l[k])
      BY DEF Waiters
    <3> QED
      BY <1>2, <1>4, <3>1, <3>2
  <2>2. CASE l[k].pid # p
    BY <1>7, <2>2 DEF Purged
  <2> QED
    BY <2>1, <2>2
<1>9. Relists(w)
  BY <1>3, <1>4, <1>5, <1>7, <1>8 DEF Relists
<1>10. reccnt' = reccnt + (Len(v_filocks') - Len(v_filocks))
  <2>1. Len(l) \in Nat /\ Len(m) \in Nat
    BY <1>6, <1>7 DEF Good
  <2>2. IsFiniteSet(own)
    <3>1. IsFiniteSet(1 .. Len(l))
      BY <2>1, FS_Interval
    <3> QED
      BY <1>12, <3>1, FS_Subset
  <2>3. PICK c \in Nat : c = Cardinality(own)
    BY <2>2, FS_CardinalityType
  <2>4. PICK n \in Nat, k \in Nat : n = Len(l) /\ k = Len(m)
    BY <2>1
  <2>5. reccnt \in Int
    BY RecordsInt
  <2>6. k = n - c
    BY <1>7, <2>3, <2>4
  <2>7. reccnt - c = reccnt + (k - n)
    BY ONLY <2>5, <2>6, c \in Nat, n \in Nat, k \in Nat
  <2> QED
    BY <1>3, <1>4, <1>5, <2>3, <2>4, <2>7
<1>11. p \in Owner
  BY DEF Owner
<1> QED
  BY <1>3, <1>9, <1>10, <1>11, SameKeeps

-----------------------------------------------------------------------------
(* The requests of remote processes                                        *)

(* cleanslp takes entries away and adds none.                              *)
LEMMA CleanedIs ==
  ASSUME Sleepers, NEW c, c.pid \in Owner
  PROVE  Cleaned(c) \in Seq(Slept)
<1>1. PICK list : list = sleeplcks[c.pid]
  OBVIOUS
<1>2. PICK gone : gone = {i \in DOMAIN list : c.start <= list[i].start /\ list[i].end <= c.end}
  OBVIOUS
<1>3. list \in Seq(Slept)
  BY <1>1, SleptLen DEF Sleepers
<1>4. Cleaned(c) = Without(list, gone)
  BY ONLY <1>1, <1>2 DEF Cleaned
<1> QED
  BY ONLY <1>3, <1>4, WithoutIs

(* Whoever gets or gives up a lock has its entries cleaned.                *)
LEMMA CleanKeeps ==
  ASSUME LInv, NEW r \in Remote, NEW w, Relists(w), NEW c, c.pid = r, NEW cnt,
         cnt = reccnt + (Len(v_filocks') - Len(v_filocks)), Clean(r, c, cnt),
         UNCHANGED <<lckdat, sig>>
  PROVE  LInv'
<1>0. r \in Owner /\ r \notin Proc
  BY NotAProcess DEF Owner
<1>1. Cleaned(c) \in Seq(Slept)
  BY <1>0, CleanedIs DEF LInv
<1>2. /\ sleeplcks' = [sleeplcks EXCEPT ![r] = Cleaned(c)]
      /\ reccnt' = cnt - (Len(sleeplcks[r]) - Len(Cleaned(c)))
  BY DEF Clean
<1>3. PICK e \in Seq(Slept) : e = Cleaned(c)
  BY <1>1
<1>4. reccnt' = reccnt + (Len(v_filocks') - Len(v_filocks)) + (Len(e) - Len(sleeplcks[r]))
  <2>1. Len(v_filocks) \in Nat /\ Len(v_filocks') \in Nat
    BY DEF LInv, Lists, Relists, Good
  <2>2. Len(sleeplcks[r]) \in Nat
    BY <1>0, SleptLen DEF LInv, Sleepers
  <2>3. Len(e) \in Nat
    BY ONLY e \in Seq(Slept)
  <2>4. PICK n \in Nat, m \in Nat : n = Len(v_filocks) /\ m = Len(v_filocks')
    BY <2>1
  <2>5. PICK x \in Nat, y \in Nat : x = Len(e) /\ y = Len(sleeplcks[r])
    BY <2>2, <2>3
  <2>6. reccnt \in Int
    BY RecordsInt
  <2>7. reccnt + (m - n) - (y - x) = reccnt + (m - n) + (x - y)
    BY ONLY <2>6, n \in Nat, m \in Nat, x \in Nat, y \in Nat
  <2> QED
    BY <1>2, <1>3, <2>4, <2>5, <2>7
<1>5. sleeplcks' = [sleeplcks EXCEPT ![r] = e]
  BY <1>2, <1>3
<1> QED
  BY <1>0, <1>4, <1>5, OwnerKeeps

(* The request is listed, unless it is already.                            *)
LEMMA ListedKeeps ==
  ASSUME LInv, NEW r \in Remote, NEW c \in Request(r, Locking, {TRUE}), Listed(r, c),
         UNCHANGED <<lckdat, sig>>
  PROVE  LInv'
<1>0. r \in Owner /\ r \notin Proc
  BY NotAProcess DEF Owner
<1>1. Blockers(c) # {} /\ UNCHANGED <<v_filocks, wchan>>
  BY DEF Listed
<1>2. Relists({})
  BY <1>1, RelistsSame
<1>3. PICK e : e = Entry(c, Found(c).pid)
  OBVIOUS
<1>4. PICK n \in Nat : n = Len(v_filocks)
  BY DEF LInv, Lists, Good
<1>5. PICK k \in Nat : k = Len(sleeplcks[r])
  BY <1>0, SleptLen DEF LInv, Sleepers
<1>6. reccnt \in Int /\ Len(v_filocks') = n
  BY <1>1, <1>4, RecordsInt
<1>7. CASE UNCHANGED <<sleeplcks, reccnt>>
  <2>1. reccnt = reccnt + (n - n)
    BY ONLY <1>6, n \in Nat
  <2>2. reccnt' = reccnt + (Len(v_filocks') - Len(v_filocks))
    BY <1>4, <1>6, <1>7, <2>1
  <2> QED
    BY <1>0, <1>2, <1>7, <2>2, SameKeeps
<1>8. CASE sleeplcks' = [sleeplcks EXCEPT ![r] = <<e>> \o @] /\ reccnt' = reccnt + 1
  <2>1. e \in Slept
    <3>1. PICK i \in 1 .. Len(v_filocks) : Found(c) = v_filocks[i]
      BY <1>1, FoundIs DEF LInv
    <3>2. PICK f \in LockRec : f = Found(c)
      BY <3>1 DEF LInv, Lists, Good
    <3>3. c \in Asked /\ c.type \in LockType
      BY <1>0, LockRequestIs, {TRUE} \subseteq BOOLEAN
    <3>4. e = [type |-> c.type, start |-> c.start, end |-> c.end, blk |-> f.pid]
      BY <1>3, <3>2 DEF Entry
    <3> QED
      BY ONLY <3>3, <3>4, f \in LockRec DEF Slept, Asked, LockRec
  <2>2. PICK q \in Seq(Slept) : q = sleeplcks[r]
    BY <1>0, SleptLen DEF LInv, Sleepers
  <2>3. PICK z : z = <<e>> \o q
    OBVIOUS
  <2>4. z \in Seq(Slept) /\ Len(z) = 1 + Len(q)
    <3>1. <<e>> \in Seq(Slept) /\ Len(<<e>>) = 1
      BY <2>1
    <3> HIDE DEF Slept
    <3> QED
      BY ONLY <2>3, <3>1, q \in Seq(Slept)
  <2>5. sleeplcks' = [sleeplcks EXCEPT ![r] = z]
    BY <1>8, <2>2, <2>3
  <2>6. reccnt + 1 = reccnt + (n - n) + ((1 + k) - k)
    BY ONLY <1>6, n \in Nat, k \in Nat
  <2>7. Len(z) = 1 + k
    BY <1>5, <2>2, <2>4
  <2>8. reccnt' = reccnt + (Len(v_filocks') - Len(v_filocks)) + (Len(z) - Len(sleeplcks[r]))
    BY <1>4, <1>5, <1>6, <1>8, <2>6, <2>7
  <2> QED
    BY <1>0, <1>2, <2>4, <2>5, <2>8, OwnerKeeps
<1> QED
  BY <1>3, <1>7, <1>8, Zenon DEF Listed

(* F_RSETLK and F_RSETLKW, granted or not.                                 *)
LEMMA rreclockKeeps ==
  ASSUME LInv, NEW r \in Remote, rreclock(r)
  PROVE  LInv'
<1>0. r \in Owner /\ reccnt \in Int /\ {TRUE} \subseteq BOOLEAN
  BY RecordsInt DEF Owner
<1>1. UNCHANGED <<lckdat, sig>>
  BY DEF rreclock
<1>2. PICK c \in Request(r, Locking, {TRUE}) :
        \/ Granted(c, reccnt) /\ UNCHANGED sleeplcks
        \/ /\ Blockers(c) = {}
           /\ \E t \in Adjustments(c, reccnt) : Adjusted(t) /\ Clean(r, t.ld, t.reccnt)
        \/ Refused(c, reccnt) /\ UNCHANGED sleeplcks
        \/ Listed(r, c)
  BY DEF rreclock
<1>3. c \in Asked /\ Span(c) /\ c.pid = r
  BY <1>0, LockRequestIs
<1>4. CASE (Granted(c, reccnt) \/ Refused(c, reccnt)) /\ UNCHANGED sleeplcks
  <2>1. PICK w : Relists(w) /\ reccnt' = reccnt + (Len(v_filocks') - Len(v_filocks))
    BY <1>0, <1>3, <1>4, AnswerRelists
  <2> QED
    BY <1>0, <1>1, <1>4, <2>1, SameKeeps
<1>5. ASSUME NEW t \in Adjustments(c, reccnt), Adjusted(t), Clean(r, t.ld, t.reccnt) PROVE LInv'
  <2>1. Adjusts(v_filocks, c, reccnt, t)
    BY <1>0, <1>3, <1>5, AdjustmentIs DEF LInv, Lists
  <2>2. Relists(t.woken) /\ t.reccnt = reccnt + (Len(v_filocks') - Len(v_filocks))
    BY <1>0, <1>5, <2>1, AdjustedRelists
  <2>3. t.ld.pid = r
    BY <1>3, <2>1 DEF Adjusts
  <2> QED
    BY <1>1, <1>5, <2>2, <2>3, CleanKeeps
<1>6. CASE Listed(r, c)
  BY <1>1, <1>6, ListedKeeps
<1> QED
  BY <1>2, <1>4, <1>5, <1>6

(* F_RSETLK with F_UNLCK.                                                  *)
LEMMA runlockKeeps ==
  ASSUME LInv, NEW r \in Remote, runlock(r)
  PROVE  LInv'
<1>0. r \in Owner
  BY DEF Owner
<1>1. UNCHANGED <<lckdat, sig>>
  BY DEF runlock
<1>2. PICK c \in Request(r, {"F_UNLCK"}, {TRUE}) :
        \E t \in Unlockings(c) : Adjusted(t) /\ Clean(r, t.ld, t.reccnt)
  BY DEF runlock
<1>3. PICK t \in Unlockings(c) : Adjusted(t) /\ Clean(r, t.ld, t.reccnt)
  BY <1>2
<1>4. /\ Relists(t.woken) /\ t.reccnt = reccnt + (Len(v_filocks') - Len(v_filocks))
      /\ Adjusts(v_filocks, c, reccnt, t)
  BY <1>0, <1>3, UnlockedRelists
<1>5. c.pid = r
  <2>1. {"F_UNLCK"} \subseteq LockType \cup {"F_UNLCK"} /\ {TRUE} \subseteq BOOLEAN
    OBVIOUS
  <2> QED
    BY <1>0, <2>1, RequestIs
<1>6. t.ld.pid = r
  BY <1>4, <1>5 DEF Adjusts
<1> QED
  BY <1>1, <1>3, <1>4, <1>6, CleanKeeps

-----------------------------------------------------------------------------
(* Every step keeps the invariant.                                         *)
THEOREM NextLInv == LInv /\ [Next]_vars => LInv'
<1> SUFFICES ASSUME LInv, [Next]_vars PROVE LInv'
  OBVIOUS
<1>1. ASSUME NEW p \in Proc, reclock(p) PROVE LInv'
  BY <1>1, reclockKeeps
<1>2. ASSUME NEW p \in Proc, reclockAgain(p) PROVE LInv'
  BY <1>2, reclockAgainKeeps
<1>3. ASSUME NEW p \in Proc, reclockIntr(p) PROVE LInv'
  BY <1>3, reclockIntrKeeps
<1>4. ASSUME NEW p \in Proc, psignal(p) PROVE LInv'
  BY <1>4, psignalKeeps
<1>5. ASSUME NEW p \in Proc, unlock(p) PROVE LInv'
  BY <1>5, unlockKeeps
<1>6. ASSUME NEW p \in Proc, cleanlocks(p) PROVE LInv'
  BY <1>6, cleanlocksKeeps
<1>7. ASSUME NEW r \in Remote, rreclock(r) PROVE LInv'
  BY <1>7, rreclockKeeps
<1>8. ASSUME NEW r \in Remote, runlock(r) PROVE LInv'
  BY <1>8, runlockKeeps
<1>9. CASE UNCHANGED vars
  <2>1. UNCHANGED <<v_filocks, reccnt, sleeplcks, lckdat, wchan, sig>>
    BY <1>9 DEF vars
  <2>2. Lists' /\ Sleepers' /\ Records'
    BY <2>1 DEF LInv, Lists, Good, Canonical, Span, Sleepers, Records, Counted, Lens
  <2>3. Calls'
    BY <2>1 DEF LInv, Calls, Called
  <2>4. SleeperBlocked'
    BY <2>1 DEF LInv, SleeperBlocked, WaitsFor, Address, Conflicts
  <2> QED
    BY <2>2, <2>3, <2>4 DEF LInv
<1> QED
  BY <1>1, <1>2, <1>3, <1>4, <1>5, <1>6, <1>7, <1>8, <1>9 DEF Next

(* The invariant holds throughout.                                         *)
LEMMA SpecLInv == Spec => []LInv
  BY InitLInv, NextLInv, PTL DEF Spec

(* Whoever sleeps in reclock() sleeps on a lock that excludes its request  *)
(* and will wake it, and is listed as waiting for the owner of that lock.  *)
THEOREM SleepersAreBlocked == Spec => []SleeperBlocked
<1>1. LInv => SleeperBlocked
  BY DEF LInv
<1> QED
  BY <1>1, SpecLInv, PTL

(* The list stays ordered and coalesced, whatever flckadj() splits, shrinks*)
(* and merges, and no record leaks.                                        *)
THEOREM ListStaysCanonical == Spec => []ListCanonical
<1>1. LInv => ListCanonical
  <2> SUFFICES ASSUME LInv PROVE ListCanonical
    OBVIOUS
  <2>1. Canonical(v_filocks) /\ Good(v_filocks)
    BY DEF LInv, Lists
  <2>2. \A i \in DOMAIN v_filocks : v_filocks[i].start <= v_filocks[i].end
    BY <2>1 DEF Good, Span
  <2>3. reccnt = Len(v_filocks) + Entries
    BY RecordsAre DEF LInv, Records
  <2> QED
    BY <2>1, <2>2, <2>3 DEF ListCanonical
<1> QED
  BY <1>1, SpecLInv, PTL

-----------------------------------------------------------------------------
(* The bytes that are locked                                               *)

Cells == Owner \X Byte \X LockType
HeldOn(l) == {x \in Cells : On(l, x[1], x[2], x[3])}
GivenTo(c) == {x \in Cells : x[1] = c.pid /\ In(x[2], c) /\ x[3] = c.type}

(* Held() in terms of On.                                                  *)
LEMMA HeldIs ==
  ASSUME NEW l, Good(l)
  PROVE  Held(l) = HeldOn(l)
<1>1. DOMAIN l = 1 .. Len(l)
  BY DEF Good
<1>2. ASSUME NEW x \in Held(l) PROVE x \in HeldOn(l)
  <2>1. PICK i \in 1 .. Len(l) : x \in {l[i].pid} \X (l[i].start .. l[i].end) \X {l[i].type}
    BY <1>1, <1>2 DEF Held
  <2>2. /\ l[i].pid \in Owner /\ l[i].type \in LockType /\ l[i].start \in Nat /\ l[i].end \in Nat
        /\ l[i].end <= LastByte /\ LastByte \in Nat
    BY GoodElem
  <2>7. PICK o : o = l[i].pid
    OBVIOUS
  <2>8. PICK y : y = l[i].type
    OBVIOUS
  <2>9. x \in {o} \X (l[i].start .. l[i].end) \X {y}
    BY <2>1, <2>7, <2>8
  <2>3. PICK b \in l[i].start .. l[i].end : x = <<o, b, y>>
    BY ONLY <2>9
  <2>4. b \in Byte /\ l[i].start <= b /\ b <= l[i].end
    BY <2>2 DEF Byte
  <2>5. x \in Cells /\ x[1] = o /\ x[2] = b /\ x[3] = y
    BY <2>2, <2>3, <2>4, <2>7, <2>8 DEF Cells
  <2>6. On(l, o, b, y)
    BY <2>4, <2>7, <2>8 DEF On
  <2> QED
    BY <2>5, <2>6 DEF HeldOn
<1>3. ASSUME NEW x \in HeldOn(l) PROVE x \in Held(l)
  <2>1. PICK o \in Owner, b \in Byte, y \in LockType : x = <<o, b, y>>
    BY <1>3 DEF HeldOn, Cells
  <2>2. On(l, o, b, y)
    BY <1>3, <2>1 DEF HeldOn
  <2>3. PICK i \in 1 .. Len(l) :
          l[i].pid = o /\ l[i].start <= b /\ b <= l[i].end /\ l[i].type = y
    BY <2>2 DEF On
  <2>4. b \in l[i].start .. l[i].end
    <3>1. b \in Int /\ l[i].start \in Int /\ l[i].end \in Int
      BY GoodElem, SizeAssumption DEF Byte
    <3> QED
      BY <2>3, <3>1
  <2>5. x \in {l[i].pid} \X (l[i].start .. l[i].end) \X {l[i].type}
    BY <2>1, <2>3, <2>4
  <2> QED
    BY <1>1, <2>5 DEF Held
<1> QED
  BY <1>2, <1>3

(* The bytes of a request, as cells.                                       *)
LEMMA GivenIs ==
  ASSUME NEW c \in Asked, Span(c), c.type \in LockType
  PROVE  {c.pid} \X (c.start .. c.end) \X {c.type} = GivenTo(c)
<1>1. c.pid \in Owner /\ c.start \in Nat /\ c.end \in Nat /\ c.end <= LastByte /\ LastByte \in Nat
  BY SizeAssumption DEF Asked, Span, Byte
<1>2. ASSUME NEW x \in {c.pid} \X (c.start .. c.end) \X {c.type} PROVE x \in GivenTo(c)
  <2>1. PICK b \in c.start .. c.end : x = <<c.pid, b, c.type>>
    BY <1>2
  <2>2. b \in Byte /\ In(b, c)
    BY <1>1 DEF Byte, In
  <2> QED
    BY <1>1, <2>1, <2>2 DEF GivenTo, Cells
<1>3. ASSUME NEW x \in GivenTo(c) PROVE x \in {c.pid} \X (c.start .. c.end) \X {c.type}
  <2>1. PICK o \in Owner, b \in Byte, y \in LockType : x = <<o, b, y>>
    BY <1>3 DEF GivenTo, Cells
  <2>2. o = c.pid /\ y = c.type /\ In(b, c)
    BY <1>3, <2>1 DEF GivenTo
  <2>3. b \in c.start .. c.end
    BY <1>1, <2>2 DEF In, Byte
  <2> QED
    BY <2>1, <2>2, <2>3
<1> QED
  BY <1>2, <1>3

(* What a call takes and gives, by cells.                                  *)
LEMMA CellIs ==
  ASSUME NEW x \in Cells
  PROVE  x[1] \in Owner /\ x[2] \in Byte /\ x[2] \in Int /\ x[3] \in LockType
  BY SizeAssumption DEF Cells, Byte

(* Exact, by cells.                                                        *)
LEMMA ExactCells ==
  ASSUME NEW l, NEW c, NEW m, Exact(l, c, m), NEW x \in Cells
  PROVE  x \in HeldOn(m) <=>
           IF x[1] = c.pid /\ In(x[2], c) THEN x[3] = c.type /\ c.type # "F_UNLCK"
           ELSE x \in HeldOn(l)
<1>1. On(m, x[1], x[2], x[3]) <=>
        IF x[1] = c.pid /\ In(x[2], c) THEN x[3] = c.type /\ c.type # "F_UNLCK"
        ELSE On(l, x[1], x[2], x[3])
  BY CellIs DEF Exact, Fills
<1> QED
  BY <1>1 DEF HeldOn

(* The bytes of a request, as an interval.                                 *)
LEMMA InRange ==
  ASSUME NEW c \in Asked, NEW x \in Cells
  PROVE  x[2] \in c.start .. c.end <=> In(x[2], c)
<1>1. c.start \in Int /\ c.end \in Int /\ x[2] \in Int
  BY CellIs DEF Asked
<1> QED
  BY <1>1 DEF In

(* The result of flckadj() is the one that AdjustExact asks for.           *)
LEMMA AdjustedToIs ==
  ASSUME Lists, NEW c \in Asked, Span(c), NEW cnt, NEW t, Adjusts(v_filocks, c, cnt, t)
  PROVE  AdjustedTo(t, c)
<1>1. PICK l : l = v_filocks
  OBVIOUS
<1>2. PICK m : m = t.list
  OBVIOUS
<1>3. Held(l) = HeldOn(l) /\ Held(m) = HeldOn(m)
  BY <1>1, <1>2, HeldIs DEF Lists, Adjusts
<1>4. /\ Canonical(m) /\ t.ret \in {"0", "ENOLCK"}
      /\ t.ret = "0" => Exact(l, c, m)
      /\ t.ret = "ENOLCK" => Owned(l, m, c.pid)
  BY <1>1, <1>2 DEF Adjusts
<1>5. PICK H : H = HeldOn(l)
  OBVIOUS
<1>6. PICK K : K = HeldOn(m)
  OBVIOUS
<1>7. H \subseteq Cells /\ K \subseteq Cells
  BY <1>5, <1>6 DEF HeldOn
<1>8. PICK asked : asked = {x \in H : x[1] = c.pid /\ x[2] \in c.start .. c.end}
  OBVIOUS
<1>9. PICK others : others = {x \in H : x[1] # c.pid}
  OBVIOUS
<1>10. PICK given : given = {c.pid} \X (c.start .. c.end) \X ({c.type} \ {"F_UNLCK"})
  OBVIOUS
<1>11. CASE t.ret = "0"
  <2>1. Exact(l, c, m)
    BY <1>4, <1>11
  <2>2. ASSUME NEW x \in Cells
        PROVE  x \in given <=> x \in GivenTo(c) /\ c.type # "F_UNLCK"
    <3>1. CASE c.type = "F_UNLCK"
      BY <1>10, <3>1
    <3>2. CASE c.type # "F_UNLCK"
      <4>1. c.type \in LockType
        BY <3>2 DEF Asked
      <4>2. {c.type} \ {"F_UNLCK"} = {c.type}
        BY <3>2
      <4>3. given = GivenTo(c)
        BY <1>10, <4>1, <4>2, GivenIs
      <4> QED
        BY <3>2, <4>3
    <3> QED
      BY <3>1, <3>2
  <2>3. given \subseteq Cells
    <3>1. CASE c.type = "F_UNLCK"
      BY <1>10, <3>1
    <3>2. CASE c.type # "F_UNLCK"
      <4>1. c.type \in LockType
        BY <3>2 DEF Asked
      <4>2. {c.type} \ {"F_UNLCK"} = {c.type}
        BY <3>2
      <4>3. given = GivenTo(c)
        BY <1>10, <4>1, <4>2, GivenIs
      <4> QED
        BY <4>3 DEF GivenTo
    <3> QED
      BY <3>1, <3>2
  <2>4. ASSUME NEW x \in Cells PROVE x \in K <=> x \in (H \ asked) \cup given
    <3>1. x \in K <=>
            IF x[1] = c.pid /\ In(x[2], c) THEN x[3] = c.type /\ c.type # "F_UNLCK"
            ELSE x \in H
      BY <1>5, <1>6, <2>1, ExactCells
    <3>2. x \in asked <=> x \in H /\ x[1] = c.pid /\ In(x[2], c)
      BY <1>8, InRange
    <3>3. x \in given <=> x[1] = c.pid /\ In(x[2], c) /\ x[3] = c.type /\ c.type # "F_UNLCK"
      BY <2>2 DEF GivenTo
    <3> QED
      BY ONLY <3>1, <3>2, <3>3
  <2>5. K = (H \ asked) \cup given
    BY <1>7, <2>3, <2>4
  <2> QED
    BY <1>1, <1>2, <1>3, <1>4, <1>5, <1>6, <1>8, <1>10, <1>11, <2>5 DEF AdjustedTo
<1>12. CASE t.ret = "ENOLCK"
  <2>1. Owned(l, m, c.pid)
    BY <1>4, <1>12
  <2>2. ASSUME NEW x \in Cells
        PROVE  (x \in K => x \in H) /\ (x[1] # c.pid /\ x \in H => x \in K)
    BY <1>5, <1>6, <2>1, CellIs DEF HeldOn, Owned
  <2>3. others \subseteq K /\ K \subseteq H
    BY <1>7, <1>9, <2>2
  <2> QED
    BY <1>1, <1>2, <1>3, <1>4, <1>5, <1>6, <1>9, <1>12, <2>3 DEF AdjustedTo
<1> QED
  BY <1>4, <1>11, <1>12

(* flckadj() does what it should to every list that there may be, and for  *)
(* every request: a success changes exactly the bytes asked for, a failure *)
(* for want of records takes nothing but bytes of the requester.           *)
THEOREM AdjustsExactly == Spec => []AdjustExact
<1>1. LInv => AdjustExact
  <2> SUFFICES ASSUME LInv PROVE AdjustExact
    OBVIOUS
  <2>0. Lists /\ reccnt \in Int /\ {TRUE} \subseteq BOOLEAN
    BY RecordsInt DEF LInv
  <2>1. ASSUME NEW o \in Owner, NEW c \in Request(o, Locking, {TRUE}),
               NEW t \in Adjustments(c, reccnt)
        PROVE  AdjustedTo(t, c)
    <3>1. c \in Asked /\ Span(c)
      BY <2>0, LockRequestIs
    <3>2. Adjusts(v_filocks, c, reccnt, t)
      BY <2>0, <3>1, AdjustmentIs DEF Lists
    <3> QED
      BY <2>0, <3>1, <3>2, AdjustedToIs
  <2>2. ASSUME NEW o \in Owner, NEW c \in Request(o, {"F_UNLCK"}, {TRUE}),
               NEW t \in Unlockings(c)
        PROVE  AdjustedTo(t, c)
    <3>0. {"F_UNLCK"} \subseteq LockType \cup {"F_UNLCK"}
      OBVIOUS
    <3>1. c \in Asked /\ Span(c)
      BY <2>0, <3>0, RequestIs
    <3>2. Adjusts(v_filocks, c, reccnt, t)
      BY <2>0, UnlockingIs DEF Lists
    <3> QED
      BY <2>0, <3>1, <3>2, AdjustedToIs
  <2> QED
    BY <2>1, <2>2 DEF AdjustExact
<1> QED
  BY <1>1, SpecLInv, PTL

-----------------------------------------------------------------------------
(* The refinement of FileLocks                                             *)

Gone(l, m, o) == {b \in Byte : \E y : On(l, o, b, y) /\ ~On(m, o, b, y)}

(* An owner has one lock on a byte.                                        *)
LEMMA OneType ==
  ASSUME NEW l, Good(l), Canonical(l), NEW o, NEW b \in Int, NEW y, NEW z,
         On(l, o, b, y), On(l, o, b, z)
  PROVE  z = y
<1>1. PICK i \in 1 .. Len(l) :
        l[i].pid = o /\ l[i].start <= b /\ b <= l[i].end /\ l[i].type = y
  BY DEF On
<1>2. PICK j \in 1 .. Len(l) :
        l[j].pid = o /\ l[j].start <= b /\ b <= l[j].end /\ l[j].type = z
  BY DEF On
<1>3. i = j
  BY <1>1, <1>2, OneLock
<1> QED
  BY <1>1, <1>2, <1>3

(* A failed call has released the bytes that it did not give back.         *)
LEMMA OwnedReleases ==
  ASSUME Lists, NEW m, Good(m), v_filocks' = m, NEW o \in Owner, Owned(v_filocks, m, o)
  PROVE  Locks!Release(o, Gone(v_filocks, m, o))
<1>1. PICK l : l = v_filocks
  OBVIOUS
<1>2. Good(l) /\ Canonical(l) /\ Owned(l, m, o) /\ Good(m)
  BY <1>1 DEF Lists
<1>3. PICK r : r = Gone(l, m, o)
  OBVIOUS
<1>4. PICK H : H = HeldOn(l)
  OBVIOUS
<1>5. PICK K : K = HeldOn(m)
  OBVIOUS
<1>6. H \subseteq Cells /\ K \subseteq Cells
  BY <1>4, <1>5 DEF HeldOn
<1>7. PICK of : of = {x \in H : x[1] = o /\ x[2] \in r}
  OBVIOUS
<1>8. ASSUME NEW x \in Cells PROVE x \in K <=> x \in H \ of
  <2>1. /\ x[2] \in Byte /\ x[2] \in Int
        /\ On(m, x[1], x[2], x[3]) => On(l, x[1], x[2], x[3])
        /\ x[1] # o /\ On(l, x[1], x[2], x[3]) => On(m, x[1], x[2], x[3])
    BY <1>2, CellIs DEF Owned
  <2>2. (x \in H <=> On(l, x[1], x[2], x[3])) /\ (x \in K <=> On(m, x[1], x[2], x[3]))
    BY <1>4, <1>5 DEF HeldOn
  <2>3. CASE x[1] # o
    BY <1>7, <2>1, <2>2, <2>3
  <2>4. CASE x[1] = o /\ x[2] \notin r
    <3>1. On(l, x[1], x[2], x[3]) => On(m, x[1], x[2], x[3])
      BY <1>3, <2>1, <2>4 DEF Gone
    <3> QED
      BY <1>7, <2>1, <2>2, <2>4, <3>1
  <2>5. CASE x[1] = o /\ x[2] \in r
    <3>1. PICK y : On(l, o, x[2], y) /\ ~On(m, o, x[2], y)
      BY <1>3, <2>5 DEF Gone
    <3>2. On(l, o, x[2], x[3]) => x[3] = y
      BY <1>2, <2>1, <3>1, OneType
    <3>3. ~On(m, x[1], x[2], x[3])
      BY <2>1, <2>5, <3>1, <3>2
    <3> QED
      BY <1>7, <2>2, <2>5, <3>3
  <2> QED
    BY <2>3, <2>4, <2>5
<1>9. K = H \ of
  BY <1>6, <1>7, <1>8
<1>10. Held(l) = H /\ Held(m) = K
  BY <1>2, <1>4, <1>5, HeldIs
<1> QED
  BY <1>1, <1>3, <1>7, <1>9, <1>10 DEF Locks!Release, Locks!Of

(* A call that succeeds sets its bytes, or releases them.                  *)
LEMMA ExactSteps ==
  ASSUME Lists, NEW m, Good(m), v_filocks' = m, NEW c \in Asked, Span(c),
         Exact(v_filocks, c, m), c.type # "F_UNLCK" => Blockers(c) = {}
  PROVE  Locks!Next
<1>1. PICK l : l = v_filocks
  OBVIOUS
<1>2. Good(l) /\ Canonical(l) /\ Exact(l, c, m) /\ Good(m)
  BY <1>1 DEF Lists
<1>3. PICK r : r = c.start .. c.end
  OBVIOUS
<1>4. PICK H : H = HeldOn(l)
  OBVIOUS
<1>5. PICK K : K = HeldOn(m)
  OBVIOUS
<1>6. H \subseteq Cells /\ K \subseteq Cells
  BY <1>4, <1>5 DEF HeldOn
<1>7. PICK of : of = {x \in H : x[1] = c.pid /\ x[2] \in r}
  OBVIOUS
<1>8. Held(l) = H /\ Held(m) = K
  BY <1>2, <1>4, <1>5, HeldIs
<1>9. r \in SUBSET Byte /\ c.pid \in Owner
  <2>1. c.start \in Byte /\ c.end \in Byte /\ LastByte \in Nat
    BY SizeAssumption DEF Span
  <2> QED
    BY <1>3, <2>1 DEF Byte, Asked
<1>10. ASSUME NEW x \in Cells
       PROVE  /\ x \in of <=> x \in H /\ x[1] = c.pid /\ In(x[2], c)
              /\ x \in K <=>
                   IF x[1] = c.pid /\ In(x[2], c) THEN x[3] = c.type /\ c.type # "F_UNLCK"
                   ELSE x \in H
  <2>1. x[2] \in r <=> In(x[2], c)
    BY <1>3, InRange
  <2>2. x \in K <=>
          IF x[1] = c.pid /\ In(x[2], c) THEN x[3] = c.type /\ c.type # "F_UNLCK"
          ELSE x \in H
    BY <1>2, <1>4, <1>5, ExactCells
  <2> QED
    BY <1>7, <2>1, <2>2
<1>11. CASE c.type = "F_UNLCK"
  <2>1. K = H \ of
    <3>1. \A x \in Cells : x \in K <=> x \in H \ of
      BY <1>10, <1>11
    <3> QED
      BY <1>6, <3>1
  <2>2. Locks!Release(c.pid, r)
    BY <1>1, <1>7, <1>8, <2>1 DEF Locks!Release, Locks!Of
  <2> QED
    BY <1>9, <2>2 DEF Locks!Next
<1>12. CASE c.type # "F_UNLCK"
  <2>0. c.type \in LockType
    BY <1>12 DEF Asked
  <2>1. PICK given : given = {c.pid} \X r \X {c.type}
    OBVIOUS
  <2>2. given = GivenTo(c)
    BY <1>3, <2>0, <2>1, GivenIs
  <2>3. K = (H \ of) \cup given
    <3>1. ASSUME NEW x \in Cells PROVE x \in K <=> x \in (H \ of) \cup given
      <4>1. x \in given <=> x[1] = c.pid /\ In(x[2], c) /\ x[3] = c.type
        BY <2>2 DEF GivenTo
      <4>2. /\ x \in of <=> x \in H /\ x[1] = c.pid /\ In(x[2], c)
            /\ x \in K <=>
                 IF x[1] = c.pid /\ In(x[2], c) THEN x[3] = c.type /\ c.type # "F_UNLCK"
                 ELSE x \in H
        BY <1>10
      <4> QED
        BY ONLY <1>12, <4>1, <4>2
    <3>2. given \subseteq Cells
      BY <2>2 DEF GivenTo
    <3> QED
      BY <1>6, <3>1, <3>2
  <2>4. ASSUME NEW x \in given, NEW y \in H PROVE ~Locks!Excludes(x, y)
    <3>1. x[1] = c.pid /\ In(x[2], c) /\ x[3] = c.type
      BY <2>2 DEF GivenTo
    <3>2. y \in Cells /\ On(l, y[1], y[2], y[3])
      BY <1>4 DEF HeldOn
    <3>3. PICK i \in 1 .. Len(l) :
            l[i].pid = y[1] /\ l[i].start <= y[2] /\ y[2] <= l[i].end /\ l[i].type = y[3]
      BY <3>2 DEF On
    <3>4. ~Conflicts(c, l[i])
      <4>1. DOMAIN v_filocks = 1 .. Len(v_filocks)
        BY DEF Lists, Good
      <4> QED
        BY <1>1, <1>12, <4>1 DEF Blockers
    <3>5. /\ l[i].start \in Int /\ l[i].end \in Int /\ y[2] \in Int
          /\ c.start \in Int /\ c.end \in Int
      BY <1>2, <3>2, GoodElem, CellIs DEF Asked
    <3>6. SUFFICES ASSUME y[1] # c.pid, x[2] = y[2], "F_WRLCK" \in {c.type, y[3]} PROVE FALSE
      BY <3>1 DEF Locks!Excludes
    <3>7. c.start <= l[i].end /\ l[i].start <= c.end
      BY <3>1, <3>3, <3>5, <3>6 DEF In
    <3> QED
      BY <3>3, <3>4, <3>6, <3>7 DEF Conflicts
  <2>5. Locks!Set(c.pid, c.type, r)
    BY <1>1, <1>7, <1>8, <2>1, <2>3, <2>4 DEF Locks!Set, Locks!Of
  <2> QED
    BY <1>9, <2>0, <2>5 DEF Locks!Next, Locks!Type, LockType
<1> QED
  BY <1>11, <1>12

(* A call of flckadj() is one step of FileLocks, whether it succeeds or    *)
(* not.                                                                    *)
LEMMA AdjustedSteps ==
  ASSUME Lists, NEW c \in Asked, Span(c), NEW cnt, NEW t, Adjusts(v_filocks, c, cnt, t),
         Adjusted(t), c.type # "F_UNLCK" => Blockers(c) = {}
  PROVE  Locks!Next
<1>1. PICK m : m = t.list
  OBVIOUS
<1>2. v_filocks' = m /\ Good(m)
  BY <1>1 DEF Adjusted, Adjusts
<1>3. CASE t.ret = "0"
  <2>1. Exact(v_filocks, c, m)
    BY <1>1, <1>3 DEF Adjusts
  <2> QED
    BY <1>2, <2>1, ExactSteps
<1>4. CASE t.ret = "ENOLCK"
  <2>1. Owned(v_filocks, m, c.pid)
    BY <1>1, <1>4 DEF Adjusts
  <2>2. c.pid \in Owner
    BY DEF Asked
  <2>3. Locks!Release(c.pid, Gone(v_filocks, m, c.pid))
    BY <1>2, <2>1, <2>2, OwnedReleases
  <2>4. Gone(v_filocks, m, c.pid) \in SUBSET Byte
    BY DEF Gone
  <2> QED
    BY <2>2, <2>3, <2>4 DEF Locks!Next
<1> QED
  BY <1>3, <1>4 DEF Adjusts

(* A mark on a lock is no change for FileLocks.                            *)
LEMMA SleepHolds ==
  ASSUME Lists, NEW p, NEW c, NEW cnt, Sleep(p, c, cnt)
  PROVE  Held(v_filocks)' = Held(v_filocks)
<1>1. PICK l : l = v_filocks
  OBVIOUS
<1>2. PICK m : m = v_filocks'
  OBVIOUS
<1>3. m = Marked(l, Found(c))
  BY <1>1, <1>2 DEF Sleep, Marked
<1>4. Good(l) /\ Canonical(l)
  BY <1>1 DEF Lists
<1>5. /\ Good(m) /\ Len(m) = Len(l)
      /\ \A i \in 1 .. Len(l) : Alike(m[i], l[i])
  BY <1>3, <1>4, MarkedIs
<1>6. \A o, b, y : On(m, o, b, y) <=> On(l, o, b, y)
  BY <1>5 DEF On, Alike
<1>7. HeldOn(m) = HeldOn(l)
  BY <1>6 DEF HeldOn
<1>8. Held(m) = Held(l)
  BY <1>4, <1>5, <1>7, HeldIs
<1> QED
  BY <1>1, <1>2, <1>8

(* close() releases whatever p has locked.                                 *)
LEMMA cleanlocksSteps ==
  ASSUME Lists, NEW p \in Proc, cleanlocks(p)
  PROVE  Locks!Next
<1>1. PICK l : l = v_filocks
  OBVIOUS
<1>2. PICK m : m = v_filocks'
  OBVIOUS
<1>3. PICK own : own = OwnOf(l, p)
  OBVIOUS
<1>4. Good(l) /\ Canonical(l) /\ m = Without(l, own)
  BY <1>1, <1>2, <1>3 DEF cleanlocks, OwnOf, Lists
<1>5. Good(m) /\ Purged(l, p, m)
  BY ONLY <1>3, <1>4, PurgedIs
<1>6. ASSUME NEW x \in Cells PROVE x \in HeldOn(m) <=> x \in HeldOn(l) /\ x[1] # p
  <2>1. On(m, x[1], x[2], x[3]) <=> On(l, x[1], x[2], x[3]) /\ x[1] # p
    BY ONLY <1>5, PurgedOn
  <2> QED
    BY <2>1 DEF HeldOn
<1>7. PICK H : H = HeldOn(l)
  OBVIOUS
<1>8. PICK K : K = HeldOn(m)
  OBVIOUS
<1>9. H \subseteq Cells /\ K \subseteq Cells
  BY <1>7, <1>8 DEF HeldOn
<1>10. PICK of : of = {x \in H : x[1] = p /\ x[2] \in Byte}
  OBVIOUS
<1>11. K = H \ of
  <2>1. ASSUME NEW x \in Cells PROVE x \in K <=> x \in H \ of
    <3>1. x[2] \in Byte
      BY CellIs
    <3>2. x \in K <=> x \in H /\ x[1] # p
      BY <1>6, <1>7, <1>8
    <3> QED
      BY <1>10, <3>1, <3>2
  <2> QED
    BY <1>9, <2>1
<1>12. Held(l) = H /\ Held(m) = K
  BY <1>4, <1>5, <1>7, <1>8, HeldIs
<1>13. Locks!Release(p, Byte)
  BY <1>1, <1>2, <1>10, <1>11, <1>12 DEF Locks!Release, Locks!Of
<1> QED
  BY <1>13 DEF Locks!Next, Owner

(* Every attempt takes a step of FileLocks or none.                        *)
LEMMA AnswerSteps ==
  ASSUME LInv, NEW c \in Asked, Span(c), NEW cnt \in Int,
         Granted(c, cnt) \/ Tested(c, cnt) \/ Refused(c, cnt)
  PROVE  Locks!Next \/ Held(v_filocks)' = Held(v_filocks)
<1>1. CASE Granted(c, cnt)
  <2>1. PICK t \in Adjustments(c, cnt) : Adjusted(t)
    BY <1>1 DEF Granted
  <2>2. Adjusts(v_filocks, c, cnt, t)
    BY AdjustmentIs DEF LInv, Lists
  <2>3. Blockers(c) = {}
    BY <1>1 DEF Granted
  <2> QED
    BY <2>1, <2>2, <2>3, AdjustedSteps DEF LInv
<1>2. CASE Tested(c, cnt) \/ Refused(c, cnt)
  BY <1>2 DEF Tested, Refused
<1> QED
  BY <1>1, <1>2

(* An attempt of a local process.                                          *)
LEMMA AttemptSteps ==
  ASSUME LInv, NEW p \in Proc, NEW c \in Request(p, Locking, SetFlck), NEW cnt \in Int,
         Attempt(p, c, cnt)
  PROVE  Locks!Next \/ Held(v_filocks)' = Held(v_filocks)
<1>1. CASE Sleep(p, c, cnt)
  BY <1>1, SleepHolds DEF LInv
<1>2. CASE Granted(c, cnt) \/ Tested(c, cnt) \/ Refused(c, cnt)
  <2>1. c \in Asked /\ Span(c)
    BY LockRequestIs, RequestAssumption DEF Owner
  <2> QED
    BY <1>2, <2>1, AnswerSteps
<1> QED
  BY <1>1, <1>2 DEF Attempt

(* F_UNLCK is a step of FileLocks.                                         *)
LEMMA UnlockedSteps ==
  ASSUME LInv, NEW o \in Owner, NEW c \in Request(o, {"F_UNLCK"}, {TRUE}),
         NEW t \in Unlockings(c), Adjusted(t)
  PROVE  Locks!Next
<1>0. {"F_UNLCK"} \subseteq LockType \cup {"F_UNLCK"} /\ {TRUE} \subseteq BOOLEAN
  OBVIOUS
<1>1. c \in Asked /\ Span(c) /\ c.type \in {"F_UNLCK"}
  BY <1>0, RequestIs
<1>2. Adjusts(v_filocks, c, reccnt, t)
  BY UnlockedRelists
<1> QED
  BY <1>1, <1>2, AdjustedSteps DEF LInv

(* Every step is a step of FileLocks, or leaves the bytes alone.           *)
LEMMA NextSteps ==
  ASSUME LInv, [Next]_vars
  PROVE  Locks!Next \/ Held(v_filocks)' = Held(v_filocks)
<1>0. reccnt \in Int /\ Proc \subseteq Owner /\ Remote \subseteq Owner
  BY RecordsInt DEF Owner
<1>1. ASSUME NEW p \in Proc, reclock(p)
      PROVE  Locks!Next \/ Held(v_filocks)' = Held(v_filocks)
  <2>1. PICK c \in Request(p, Locking, SetFlck) : Attempt(p, c, reccnt)
    BY <1>1 DEF reclock
  <2> QED
    BY <1>0, <2>1, AttemptSteps
<1>2. ASSUME NEW p \in Proc, reclockAgain(p)
      PROVE  Locks!Next \/ Held(v_filocks)' = Held(v_filocks)
  <2>1. lckdat[p] \in Request(p, Locking, SetFlck)
    BY <1>2 DEF reclockAgain, LInv, Calls, Called
  <2>2. Attempt(p, lckdat[p], reccnt - 1)
    BY <1>2 DEF reclockAgain
  <2>3. reccnt - 1 \in Int
    BY <1>0
  <2> QED
    BY <2>1, <2>2, <2>3, AttemptSteps
<1>3. ASSUME NEW p \in Proc, reclockIntr(p) \/ psignal(p)
      PROVE  Held(v_filocks)' = Held(v_filocks)
  BY <1>3 DEF reclockIntr, psignal
<1>4. ASSUME NEW p \in Proc, unlock(p) PROVE Locks!Next
  <2>1. PICK c \in Request(p, {"F_UNLCK"}, {TRUE}) :
          \E t \in Unlockings(c) : Adjusted(t) /\ reccnt' = t.reccnt
    BY <1>4 DEF unlock
  <2>2. PICK t \in Unlockings(c) : Adjusted(t)
    BY <2>1
  <2> QED
    BY <1>0, <2>2, UnlockedSteps
<1>5. ASSUME NEW p \in Proc, cleanlocks(p) PROVE Locks!Next
  BY <1>5, cleanlocksSteps DEF LInv
<1>6. ASSUME NEW r \in Remote, rreclock(r)
      PROVE  Locks!Next \/ Held(v_filocks)' = Held(v_filocks)
  <2>1. PICK c \in Request(r, Locking, {TRUE}) :
          \/ Granted(c, reccnt) /\ UNCHANGED sleeplcks
          \/ /\ Blockers(c) = {}
             /\ \E t \in Adjustments(c, reccnt) : Adjusted(t) /\ Clean(r, t.ld, t.reccnt)
          \/ Refused(c, reccnt) /\ UNCHANGED sleeplcks
          \/ Listed(r, c)
    BY <1>6 DEF rreclock
  <2>2. {TRUE} \subseteq BOOLEAN
    OBVIOUS
  <2>3. c \in Asked /\ Span(c)
    BY <1>0, <2>2, LockRequestIs
  <2>4. CASE Granted(c, reccnt) \/ Refused(c, reccnt)
    BY <1>0, <2>3, <2>4, AnswerSteps
  <2>5. ASSUME NEW t \in Adjustments(c, reccnt), Adjusted(t), Blockers(c) = {} PROVE Locks!Next
    <3>1. Adjusts(v_filocks, c, reccnt, t)
      BY <1>0, <2>3, AdjustmentIs DEF LInv, Lists
    <3> QED
      BY <2>3, <2>5, <3>1, AdjustedSteps DEF LInv
  <2>6. CASE Listed(r, c)
    BY <2>6 DEF Listed
  <2> QED
    BY <2>1, <2>4, <2>5, <2>6
<1>7. ASSUME NEW r \in Remote, runlock(r) PROVE Locks!Next
  <2>1. PICK c \in Request(r, {"F_UNLCK"}, {TRUE}) :
          \E t \in Unlockings(c) : Adjusted(t) /\ Clean(r, t.ld, t.reccnt)
    BY <1>7 DEF runlock
  <2>2. PICK t \in Unlockings(c) : Adjusted(t)
    BY <2>1
  <2> QED
    BY <1>0, <2>2, UnlockedSteps
<1>8. CASE UNCHANGED vars
  BY <1>8 DEF vars
<1> QED
  BY <1>1, <1>2, <1>3, <1>4, <1>5, <1>6, <1>7, <1>8 DEF Next

(* The lists of flock.c implement byte-by-byte locking: whatever a step    *)
(* splits, shrinks, merges, inserts or fails to insert, it sets bytes of   *)
(* one owner that no other excludes, or it releases bytes of one owner.    *)
THEOREM ImplementsFileLocks == Spec => LocksSpec
<1>1. Init => Locks!Init
  BY DEF Init, Locks!Init, Held
<1>2. LInv /\ [Next]_vars => [Locks!Next]_(Held(v_filocks))
  BY NextSteps
<1> QED
  BY <1>1, <1>2, SpecLInv, PTL DEF Spec, LocksSpec, Locks!Spec
=============================================================================
