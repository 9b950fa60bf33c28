----------------------------- MODULE SemProofs -----------------------------
(***************************************************************************)
(* Proofs about Sem, for any number of processes, sets and semaphores and  *)
(* any operation lists.                                                    *)
(***************************************************************************)
EXTENDS Sem, SumTheorems

-----------------------------------------------------------------------------
(* The inductive invariant *)

\* The semaphores that a slot has, or had last, lie inside the pool.
SetsInPool ==
  \A s \in Slot :
    /\ sema[s].base >= 1 /\ sema[s].nsems <= SEMMSL
    /\ sema[s].base + sema[s].nsems - 1 <= SEMMNS

\* A process in the middle of a pass has the processor.
Passing(p) == pc[p] \in {"op", "undo"}
CpuOK == \A p \in Proc : Passing(p) => cpu = p

\* The set of a call in progress is the one the call began with, unless the
\* call is stale; the numbers of an operation list are those of some set, and
\* during a pass those of semaphores of the pool.
CallOKOf(p) ==
  /\ pc[p] = "user" => p \notin stale
  /\ pc[p] # "user" /\ p \notin stale => semconv(uap[p].id)
  /\ pc[p] \in {"op", "undo", "sleep", "recopyin"} =>
       \A j \in 1 .. Len(uap[p].ops) :
         /\ uap[p].ops[j].num \in Num
         /\ p \notin stale => uap[p].ops[j].num < sema[uap[p].id[2]].nsems
  /\ Passing(p) =>
       /\ \A j \in 1 .. Len(uap[p].ops) : SemAt(p, uap[p].ops[j].num) \in SemNo
       /\ p \in stale => p \in strayed
CallOK == \A p \in Proc : CallOKOf(p)

\* A process about to sleep, or sleeping, has a channel, which is one of its
\* set unless the call is stale; a stale one that sleeps has strayed.
WaitOKOf(p) ==
  /\ wchan[p] # None => pc[p] = "sleep" /\ wchan[p] = semp[p]
  /\ wchan[p] # None /\ p \in stale => p \in strayed
  /\ pc[p] = "sleep" \/ (pc[p] = "undo" /\ err[p] \in {"n", "z"}) =>
       /\ semp[p] \in Chan
       /\ p \notin stale => semp[p][1] \in SemsOf(uap[p].id[2])
WaitOK == \A p \in Proc : WaitOKOf(p)

\* The loop index of semop() stays within its list.
IndexOKOf(p) ==
  /\ i[p] <= Len(uap[p].ops) + 1
  /\ pc[p] = "user" => i[p] = 1
IndexOK == \A p \in Proc : IndexOKOf(p)

CallInv ==
  /\ TypeOK /\ SetsInPool /\ CpuOK /\ CallOK /\ WaitOK /\ SleeperCounted

-----------------------------------------------------------------------------
(* Lemmas about the helpers *)

\* wake() and Uncount() keep the counts and the channels what they are, and
\* wake nobody up halfway.
ChanType ==
  /\ semcnt \in [Chan -> Nat]
  /\ wchan \in [Proc -> Chan \cup {None}]

UndoType ==
  /\ sem_undo \subseteq Proc /\ semunp \subseteq Proc
  /\ semfup \in Nat
  /\ aoe \in [Proc -> [Ent -> Int]]

LEMMA ConstLemma ==
  /\ SEMMNI \in Nat \ {0} /\ ID_MAX \in Nat /\ SEQ_MAX \in Nat /\ MaxRmid \in Nat /\ MaxFault \in Nat
  /\ SEMMNS \in Nat /\ SEMVMX \in Nat /\ SEMAEM \in Nat /\ SEMUME \in Nat
  /\ SEMMNU \in Nat /\ SEMMSL \in Nat
  /\ SetSizes \subseteq Int
  BY SemAssumption

LEMMA NoneLemma == None \notin Chan /\ None \notin Proc /\ None \notin Keys
  BY SemAssumption

LEMMA wakeLemma ==
  ASSUME NEW cs, wake(cs), ChanType, SleeperCounted
  PROVE  /\ ChanType'
         /\ \A p \in Proc : wchan'[p] \in {None, wchan[p]}
         /\ \A p \in Proc : wchan[p] \in cs /\ wchan[p] # None => wchan'[p] = None
         /\ SleeperCounted'
  <1>1. ChanType'
    BY DEF wake, ChanType
  <1>2. \A p \in Proc : wchan'[p] \in {None, wchan[p]}
    BY DEF wake
  <1>3. \A p \in Proc : wchan[p] \in cs /\ wchan[p] # None => wchan'[p] = None
    BY DEF wake, ChanType, SleeperCounted
  <1>4. SleeperCounted'
    BY DEF wake, ChanType, SleeperCounted
  <1>5. QED
    BY <1>1, <1>2, <1>3, <1>4

LEMMA UncountLemma ==
  ASSUME NEW c \in Chan, NEW base \in Nat, Uncount(c, base), ChanType, SleeperCounted
  PROVE  /\ ChanType'
         /\ \A p \in Proc : wchan'[p] \in {None, wchan[p]}
         /\ SleeperCounted'
  <1>1. CASE base <= 1
    BY <1>1, NoneLemma DEF Uncount, ChanType, SleeperCounted
  <1>2. CASE ~(base <= 1)
    BY <1>2, NoneLemma DEF Uncount, ChanType, SleeperCounted
  <1>3. QED
    BY <1>1, <1>2

LEMMA semaoeLemma ==
  ASSUME NEW p \in Proc, NEW val \in Int, NEW k \in Ent, semaoe(p, val, k), UndoType
  PROVE  UndoType'
  <1>1. [aoe[p] EXCEPT ![k] = @ - val] \in [Ent -> Int]
    BY DEF UndoType
  <1>2. aoe' \in [Proc -> [Ent -> Int]]
    <2>1. [aoe EXCEPT ![p] = [aoe[p] EXCEPT ![k] = @ - val]] \in [Proc -> [Ent -> Int]]
      BY <1>1 DEF UndoType
    <2>2. aoe' = aoe \/ aoe' = [aoe EXCEPT ![p] = [aoe[p] EXCEPT ![k] = @ - val]]
      BY DEF semaoe
    <2>3. QED
      BY <2>1, <2>2 DEF UndoType
  <1>3. sem_undo' \subseteq Proc
    BY DEF semaoe, UndoType
  <1>6. semfup' \in Nat
    <2>1. semfup' = IF TakesUndo(p, val) THEN semfup - 1 ELSE semfup
      BY DEF semaoe
    <2>2. QED
      BY <2>1 DEF UndoType, TakesUndo
  <1>4. semunp' \subseteq Proc
    BY DEF semaoe, UndoType
  <1>5. QED
    BY <1>2, <1>3, <1>4, <1>6 DEF UndoType

LEMMA semunrmLemma ==
  ASSUME NEW id, NEW nums, semunrm(id, nums), UndoType
  PROVE  UndoType'
  BY DEF semunrm, UndoType

Errors == {"", "n", "z", "EAGAIN", "ERANGE", "ENOSPC", "EINVAL"}

LEMMA ObstacleType ==
  ASSUME NEW p \in Proc, TypeOK, Op(p).op \in Int
  PROVE  Obstacle(p) \in Errors
  <1>1. \A v, k : semaoeError(p, v, k) \in Errors
    BY DEF semaoeError, Errors
  <1>2. QED
    BY <1>1 DEF Obstacle, Errors

\* What the operation lists hold.
LEMMA OpType ==
  ASSUME NEW p \in Proc, TypeOK, NEW j \in 1 .. Len(uap[p].ops)
  PROVE  /\ uap[p].ops[j] \in Sembuf
         /\ uap[p].id \in Id
  <1>1. uap[p].id \in Id /\ uap[p].ops \in OpLists \cup {<<>>}
    BY DEF TypeOK
  <1>2. uap[p].ops \in OpLists
    BY <1>1
  <1>3. uap[p].ops \in Seq(Sembuf)
    BY <1>2, SemAssumption
  <1>4. QED
    BY <1>1, <1>3

\* A larger identifier of the same slot has a larger sequence number.
LEMMA IdLemma ==
  ASSUME NEW n \in Nat \ {0}, NEW a \in Nat, NEW b \in Nat, NEW s \in Nat,
         a * n + s < b * n + s
  PROVE  a < b
  OBVIOUS

LEMMA ProductLemma ==
  ASSUME NEW n \in Nat \ {0}, NEW a \in Nat, NEW b \in Nat, a <= b
  PROVE  a * n <= b * n
  OBVIOUS

\* The next sequence number is a possible one.
LEMMA NextSeqLemma ==
  ASSUME TypeOK, NEW id \in Id
  PROVE  NextSeq(id) \in 0 .. SEQ_MAX
  <1>1. id[1] \in Nat /\ id[2] \in Slot /\ id[2] \in Nat
    BY ConstLemma DEF Id, Slot
  <1>2. CASE IdValue(id) + SEMMNI > ID_MAX
    BY <1>2, ConstLemma DEF NextSeq
  <1>3. CASE ~(IdValue(id) + SEMMNI > ID_MAX)
    <2>1. IdValue(<<SEQ_MAX + 1, id[2]>>) > ID_MAX
      BY <1>1, SemAssumption
    <2>2. (id[1] + 1) * SEMMNI + id[2] = IdValue(id) + SEMMNI
      BY <1>1, ConstLemma DEF IdValue
    <2>3. (id[1] + 1) * SEMMNI + id[2] < (SEQ_MAX + 1) * SEMMNI + id[2]
      BY <1>1, <1>3, <2>1, <2>2, ConstLemma DEF IdValue
    <2>4. id[1] + 1 < SEQ_MAX + 1
      BY <1>1, <2>3, ConstLemma, IdLemma
    <2>5. QED
      BY <1>1, <1>3, <2>4, ConstLemma DEF NextSeq
  <1>4. QED
    BY <1>2, <1>3

-----------------------------------------------------------------------------
(* Every action preserves the invariant *)

\* The conjuncts of TypeOK, in the groups that the actions change together.
SemaType ==
  /\ sema \in [Slot -> [alloc : BOOLEAN, seq : 0 .. SEQ_MAX, key : Keys \cup {None},
                        base : Nat, nsems : Nat]]
  /\ semmap \subseteq SemNo
Places == {"user", "copyin", "recopyin", "setall", "ipcset", "op", "undo", "sleep"}
CallType ==
  /\ cpu \in Proc \cup {None}
  /\ pc \in [Proc -> Places]
  /\ uap \in [Proc -> [id : Id, ops : OpLists \cup {<<>>}]]
  /\ i \in [Proc -> Nat \ {0}]
  /\ semp \in [Proc -> Chan \cup {None}]
  /\ err \in [Proc -> Errors]
HistType ==
  /\ sig \subseteq Proc
  /\ nrm \in 0 .. MaxRmid
  /\ nflt \in 0 .. MaxFault
  /\ snap \in Seq([val : [SemNo -> Int], aoe : [Proc -> [Ent -> Int]]])
  /\ stale \subseteq Proc
  /\ strayed \subseteq Proc

LEMMA TypeGroups ==
  TypeOK <=> /\ SemaType /\ semval \in [SemNo -> Int] /\ ChanType /\ UndoType
             /\ CallType /\ HistType
  BY DEF TypeOK, SemaType, ChanType, UndoType, CallType, HistType, Errors, Places

LEMMA TypeGroupsPrime ==
  ASSUME SemaType', (semval \in [SemNo -> Int])', ChanType', UndoType', CallType', HistType'
  PROVE  TypeOK'
  BY DEF TypeOK, SemaType, ChanType, UndoType, CallType, HistType, Errors, Places

LEMMA InitInv == Init => CallInv
  <1> SUFFICES ASSUME Init PROVE CallInv
    OBVIOUS
  <1>1. TypeOK
    <2>1. SemaType /\ semval \in [SemNo -> Int]
      <3>1. /\ sema = [s \in Slot |-> [alloc |-> FALSE, seq |-> 0, key |-> None,
                                      base |-> 1, nsems |-> 0]]
            /\ semmap = SemNo
            /\ semval = [s \in SemNo |-> 0]
        BY DEF Init
      <3>2. 0 \in 0 .. SEQ_MAX
        BY ConstLemma
      <3>3. QED
        BY <3>1, <3>2 DEF SemaType
    <2>2. ChanType /\ UndoType
      <3>1. /\ semcnt = [c \in Chan |-> 0] /\ wchan = [p \in Proc |-> None]
            /\ sem_undo = {} /\ semunp = {} /\ semfup = SEMMNU
            /\ aoe = [p \in Proc |-> [k \in Ent |-> 0]]
        BY DEF Init
      <3>2. QED
        BY <3>1, ConstLemma DEF ChanType, UndoType
    <2>3. CallType
      <3>1. NoCall \in [id : Id, ops : OpLists \cup {<<>>}]
        BY ConstLemma DEF NoCall, Id, Slot
      <3>2. /\ cpu = None /\ pc = [p \in Proc |-> "user"] /\ uap = [p \in Proc |-> NoCall]
            /\ i = [p \in Proc |-> 1] /\ semp = [p \in Proc |-> None]
            /\ err = [p \in Proc |-> ""]
        BY DEF Init
      <3>3. uap \in [Proc -> [id : Id, ops : OpLists \cup {<<>>}]]
        BY <3>1, <3>2
      <3>4. pc \in [Proc -> Places]
        BY <3>2 DEF Places
      <3>7. i \in [Proc -> Nat \ {0}]
        <4>1. 1 \in Nat \ {0}
          OBVIOUS
        <4>2. i = [p \in Proc |-> 1]
          BY <3>2, Zenon
        <4>3. QED
          BY <4>1, <4>2, Zenon
      <3>5. semp \in [Proc -> Chan \cup {None}] /\ err \in [Proc -> Errors]
        BY <3>2 DEF Errors
      <3>6. QED
        BY <3>2, <3>3, <3>4, <3>5, <3>7 DEF CallType
    <2>4. HistType
      <3>1. sig = {} /\ nrm = 0 /\ nflt = 0 /\ snap = <<>> /\ stale = {} /\ strayed = {}
        BY DEF Init
      <3>2. QED
        BY <3>1, ConstLemma DEF HistType
    <2>5. QED
      BY <2>1, <2>2, <2>3, <2>4, TypeGroups
  <1>5. /\ \A s \in Slot : sema[s].base = 1 /\ sema[s].nsems = 0
        /\ cpu = None /\ stale = {}
        /\ \A p \in Proc : pc[p] = "user" /\ wchan[p] = None
    BY DEF Init
  <1>2. SetsInPool /\ CpuOK /\ CallOK
    BY <1>5, ConstLemma DEF SetsInPool, CpuOK, CallOK, CallOKOf, Passing
  <1>3. WaitOK /\ SleeperCounted
    BY <1>5 DEF WaitOK, WaitOKOf, SleeperCounted
  <1>4. QED
    BY <1>1, <1>2, <1>3 DEF CallInv

\* The parts of the invariant that only speak of calls in progress survive a
\* step that changes neither the calls nor the sets and wakes processes up.
LEMMA QuietStep ==
  ASSUME CallInv, UNCHANGED <<sema, call, stale, strayed>>,
         \A p \in Proc : wchan'[p] \in {None, wchan[p]}
  PROVE  /\ SetsInPool' /\ CpuOK' /\ CallOK' /\ WaitOK'
  <1>1. SetsInPool' /\ CpuOK'
    BY DEF CallInv, SetsInPool, CpuOK, Passing, call
  <1>2. CallOK'
    BY DEF CallInv, CallOK, CallOKOf, Passing, SemAt, call, semconv
  <1>3. WaitOK'
    BY DEF CallInv, WaitOK, WaitOKOf, call, SemsOf
  <1>4. QED
    BY <1>1, <1>2, <1>3

LEMMA semgetInv ==
  ASSUME CallInv, NEW p \in Proc, NEW key \in Keys \cup {None}, NEW n \in SetSizes,
         semget(p, key, n)
  PROVE  CallInv'
  <1> USE DEF CallInv
  <1>1. PICK s \in Slot, a \in SemNo :
          /\ ~sema[s].alloc
          /\ rmalloc(a, n)
          /\ sema' = [sema EXCEPT ![s] =
                [alloc |-> TRUE, seq |-> @.seq, key |-> key, base |-> a, nsems |-> n]]
          /\ semmap' = semmap \ (a .. a + n - 1)
    BY DEF semget
  <1>2. n \in Nat /\ n > 0 /\ n <= SEMMSL /\ a \in Nat /\ a >= 1 /\ a + n - 1 <= SEMMNS
    BY <1>1, ConstLemma DEF semget, rmalloc, Fits, SemNo
  <1>3. SemaType'
    BY <1>1, <1>2, TypeGroups DEF SemaType
  <1>4. UNCHANGED <<semval, semcnt, undo, call, wchan, sig, hist>>
    BY DEF semget
  <1>5. TypeOK'
    <2>1. (semval \in [SemNo -> Int])' /\ ChanType' /\ UndoType'
      BY <1>4, TypeGroups DEF ChanType, UndoType, undo
    <2>2. CallType' /\ HistType'
      BY <1>4, TypeGroups DEF CallType, HistType, call, hist
    <2>3. QED
      BY <1>3, <2>1, <2>2, TypeGroupsPrime
  <1>6. \A t \in Slot : /\ t # s => sema'[t] = sema[t]
                        /\ sema'[t].seq = sema[t].seq
    BY <1>1, TypeGroups DEF SemaType
  <1>7. sema'[s].alloc /\ sema'[s].base = a /\ sema'[s].nsems = n
    BY <1>1, TypeGroups DEF SemaType
  <1>8. SetsInPool'
    BY <1>2, <1>6, <1>7 DEF SetsInPool
  <1>9. CpuOK'
    BY <1>4 DEF CpuOK, Passing, call
  <1>10. CallOK' /\ WaitOK'
    <2> SUFFICES ASSUME NEW q \in Proc PROVE CallOKOf(q)' /\ WaitOKOf(q)'
      BY DEF CallOK, WaitOK
    <2>1. /\ CallOKOf(q) /\ WaitOKOf(q)
          /\ UNCHANGED <<pc, uap, semp, err, wchan, stale, strayed>>
      BY <1>4 DEF CallOK, WaitOK, call, hist
    <2>2. uap[q].id \in Id /\ uap[q].id[2] \in Slot
      BY TypeGroups DEF CallType, Id
    <2>3. ~Passing(q)
      BY NoneLemma DEF semget, MayCall, CpuOK
    <2>4. CASE pc[q] = "user"
      BY <2>1, <2>4 DEF CallOKOf, WaitOKOf, Passing
    <2>5. CASE pc[q] # "user" /\ q \in stale
      BY <2>1, <2>3, <2>5 DEF CallOKOf, WaitOKOf, Passing
    <2>6. CASE pc[q] # "user" /\ q \notin stale
      <3>1. uap[q].id[2] # s
        BY <1>1, <2>1, <2>6 DEF CallOKOf, semconv
      <3>2. sema'[uap[q].id[2]] = sema[uap[q].id[2]]
        BY <1>6, <2>2, <3>1
      <3>3. CallOKOf(q)'
        BY <2>1, <2>3, <2>6, <3>2 DEF CallOKOf, Passing, semconv
      <3>4. WaitOKOf(q)'
        BY <2>1, <2>3, <2>6, <3>2 DEF WaitOKOf, SemsOf
      <3>5. QED
        BY <3>3, <3>4
    <2>7. QED
      BY <2>4, <2>5, <2>6
  <1>11. SleeperCounted'
    BY <1>4 DEF SleeperCounted
  <1>12. QED
    BY <1>5, <1>8, <1>9, <1>10, <1>11

LEMMA semctlRmidInv ==
  ASSUME CallInv, NEW p \in Proc, NEW id \in Id, semctlRmid(p, id)
  PROVE  CallInv'
  <1> DEFINE slot == id[2]
  <1> USE DEF CallInv
  <1>1. /\ cpu = None /\ nrm < MaxRmid /\ semconv(id)
        /\ nrm' = nrm + 1
        /\ UNCHANGED <<call, sig, nflt, snap, strayed>>
    BY DEF semctlRmid, MayCall
  <1>2. slot \in Slot /\ sema[slot].alloc /\ sema[slot].seq = id[1]
    BY <1>1 DEF Id, semconv
  <1>3. NextSeq(id) \in 0 .. SEQ_MAX
    BY NextSeqLemma
  <1>4. sema' = [sema EXCEPT ![slot] = [alloc |-> FALSE, seq |-> NextSeq(id), key |-> @.key,
                                       base |-> @.base, nsems |-> @.nsems]]
    BY DEF semctlRmid
  <1>5. /\ \A t \in Slot : sema'[t].base = sema[t].base /\ sema'[t].nsems = sema[t].nsems
        /\ \A t \in Slot : t # slot => sema'[t] = sema[t]
    BY <1>2, <1>3, <1>4, TypeGroups DEF SemaType
  <1>6. /\ ChanType' /\ SleeperCounted'
        /\ \A q \in Proc : wchan'[q] \in {None, wchan[q]}
        /\ \A q \in Proc : wchan[q] \in SemsOf(slot) \X {"n", "z"} /\ wchan[q] # None
                            => wchan'[q] = None
    <2>1. wake(SemsOf(slot) \X {"n", "z"})
      BY DEF semctlRmid, RmidWake
    <2>2. QED
      BY <2>1, wakeLemma, TypeGroups
  <1>8. TypeOK'
    <2>1. SemaType'
      <3>1. semmap' = semmap \cup SemsOf(slot)
        BY DEF semctlRmid
      <3>2. SemsOf(slot) \subseteq SemNo
        BY <1>2, TypeGroups, ConstLemma, SMTT(30) DEF SemsOf, SetsInPool, SemNo, SemaType
      <3>3. QED
        BY <1>2, <1>3, <1>4, <3>1, <3>2, TypeGroups DEF SemaType
    <2>2. (semval \in [SemNo -> Int])'
      BY TypeGroups DEF semctlRmid, Cleared
    <2>3. UndoType'
      <3>1. semunrm(id, 0 .. sema[slot].nsems)
        BY DEF semctlRmid
      <3>2. QED
        BY <3>1, semunrmLemma, TypeGroups
    <2>4. CallType'
      BY <1>1, TypeGroups DEF CallType, call
    <2>5. HistType'
      <3>1. stale' \subseteq Proc /\ stale \subseteq stale'
        BY TypeGroups DEF semctlRmid, HistType
      <3>2. QED
        BY <1>1, <3>1, TypeGroups, ConstLemma DEF HistType
    <2>6. QED
      BY <1>6, <2>1, <2>2, <2>3, <2>4, <2>5, TypeGroupsPrime
  <1>9. SetsInPool'
    BY <1>5 DEF SetsInPool
  <1>10. CpuOK'
    BY <1>1 DEF CpuOK, Passing, call
  <1>11. CallOK' /\ WaitOK'
    <2> SUFFICES ASSUME NEW q \in Proc PROVE CallOKOf(q)' /\ WaitOKOf(q)'
      BY DEF CallOK, WaitOK
    <2>1. /\ CallOKOf(q) /\ WaitOKOf(q)
          /\ UNCHANGED <<pc, uap, semp, err, strayed>>
          /\ wchan'[q] \in {None, wchan[q]}
      BY <1>1, <1>6 DEF CallOK, WaitOK, call
    <2>2. uap[q].id \in Id /\ uap[q].id[1] \in Nat /\ uap[q].id[2] \in Slot
      BY TypeGroups, ConstLemma DEF CallType, Id
    <2>3. ~Passing(q)
      BY <1>1, NoneLemma DEF CpuOK
    <2>4. stale' = stale \cup {r \in Proc : pc[r] # "user" /\ uap[r].id = id}
      BY DEF semctlRmid
    <2>5. SemsOf(uap[q].id[2])' = SemsOf(uap[q].id[2])
      BY <1>5, <2>1, <2>2 DEF SemsOf
    <2>6. \A k : k = uap[q].id[2] => sema'[k].nsems = sema[k].nsems
      BY <1>5, <2>2
    <2>7. q \notin stale' /\ pc[q] # "user" => uap[q].id[2] # slot
      <3> SUFFICES ASSUME q \notin stale', pc[q] # "user", uap[q].id[2] = slot PROVE FALSE
        OBVIOUS
      <3>1. semconv(uap[q].id)
        BY <2>1, <2>4 DEF CallOKOf
      <3>2. uap[q].id[1] = id[1]
        BY <1>2, <3>1 DEF semconv
      <3>3. uap[q].id = id
        BY <2>2, <3>2 DEF Id
      <3>4. QED
        BY <2>4, <3>3
    <2>8. CallOKOf(q)'
      <3>1. pc[q] = "user" => q \notin stale'
        BY <2>1, <2>4 DEF CallOKOf
      <3>2. pc[q] # "user" /\ q \notin stale' => semconv(uap[q].id)'
        BY <1>5, <2>1, <2>2, <2>4, <2>7 DEF CallOKOf, semconv
      <3>3. QED
        BY <2>1, <2>3, <2>4, <2>6, <3>1, <3>2 DEF CallOKOf, Passing
    <2>9. wchan'[q] # None /\ q \in stale' => q \in strayed
      <3> SUFFICES ASSUME wchan'[q] # None, q \in stale', q \notin stale PROVE FALSE
        BY <2>1 DEF WaitOKOf
      <3>1. uap[q].id[2] = slot /\ wchan[q] # None /\ wchan[q] = semp[q] /\ pc[q] = "sleep"
        BY <2>1, <2>4 DEF WaitOKOf
      <3>2. wchan[q] \in Chan /\ wchan[q][1] \in SemsOf(slot)
        BY <2>1, <3>1 DEF WaitOKOf
      <3>3. wchan[q] \in SemsOf(slot) \X {"n", "z"}
        BY <3>2 DEF Chan
      <3>4. QED
        BY <1>6, <3>1, <3>3
    <2>10. WaitOKOf(q)'
      BY <2>1, <2>3, <2>4, <2>5, <2>9 DEF WaitOKOf, Passing
    <2>11. QED
      BY <2>8, <2>10
  <1>12. QED
    BY <1>6, <1>8, <1>9, <1>10, <1>11

LEMMA semctlSetvalInv ==
  ASSUME CallInv, NEW p \in Proc, NEW id \in Id, NEW num \in Num, NEW val \in 0 .. SEMVMX,
         semctlSetval(p, id, num, val)
  PROVE  CallInv'
  <1> USE DEF CallInv
  <1>1. UNCHANGED <<sema, semmap, call, sig, nrm, nflt, snap, stale, strayed>>
    BY DEF semctlSetval
  <1>2. /\ ChanType' /\ SleeperCounted'
        /\ \A q \in Proc : wchan'[q] \in {None, wchan[q]}
    BY wakeLemma, TypeGroups DEF semctlSetval
  <1>3. UndoType'
    BY semunrmLemma, TypeGroups DEF semctlSetval
  <1>4. (semval \in [SemNo -> Int])'
    <2>1. val \in Int /\ semval' = [semval EXCEPT ![sema[id[2]].base + num] = val]
      BY ConstLemma DEF semctlSetval
    <2>2. QED
      BY <2>1, TypeGroups
  <1>5. SemaType' /\ CallType' /\ HistType'
    BY <1>1, TypeGroups DEF SemaType, CallType, HistType, call
  <1>6. QED
    BY <1>1, <1>2, <1>3, <1>4, <1>5, TypeGroupsPrime, QuietStep

LEMMA semexitInv ==
  ASSUME CallInv, NEW p \in Proc, semexit(p)
  PROVE  CallInv'
  <1> USE DEF CallInv
  <1>1. UNCHANGED <<sema, semmap, call, sig, nrm, nflt, snap, stale, strayed>>
    BY ZenonT(40) DEF semexit
  <1>2. /\ ChanType' /\ SleeperCounted'
        /\ \A q \in Proc : wchan'[q] \in {None, wchan[q]}
    BY wakeLemma, TypeGroups, Zenon DEF semexit
  <1>3. UndoType'
    <2>1. /\ aoe' = [aoe EXCEPT ![p] = [k \in Ent |-> 0]]
          /\ semunp' = semunp \ {p} /\ semfup' = semfup + 1 /\ sem_undo' = sem_undo \ {p}
      BY Zenon DEF semexit
    <2>2. QED
      BY <2>1, TypeGroups, SMTT(30) DEF UndoType
  <1>4. (semval \in [SemNo -> Int])'
    <2> DEFINE at(k) == sema[k[1][2]].base + k[2]
               done == {k \in {k \in Entries(aoe[p]) : semconv(k[1]) /\ at(k) \in SemNo} :
                          Adjustable(semval[at(k)] + aoe[p][k])}
    <2>1. semval' = [s \in SemNo |-> IF \E k \in done : at(k) = s
                       THEN semval[at(CHOOSE k \in done : at(k) = s)]
                            + aoe[p][CHOOSE k \in done : at(k) = s]
                       ELSE semval[s]]
      BY Zenon DEF semexit
    <2>2. \A k \in done : semval[at(k)] + aoe[p][k] \in Int
      BY ConstLemma DEF Adjustable
    <2> HIDE DEF done, at
    <2>3. \A s \in SemNo : semval'[s] \in Int
      BY <2>1, <2>2, TypeGroups
    <2>4. QED
      BY <2>1, <2>3, SMTT(30)
  <1>5. SemaType' /\ CallType' /\ HistType'
    BY <1>1, TypeGroups DEF SemaType, CallType, HistType, call
  <1>6. QED
    BY <1>1, <1>2, <1>3, <1>4, <1>5, TypeGroupsPrime, QuietStep

-----------------------------------------------------------------------------
(* The steps of semop() *)

\* A step that moves no slot to other semaphores and frees no set.
SemaKept ==
  \A s \in Slot : /\ sema'[s].base = sema[s].base /\ sema'[s].nsems = sema[s].nsems
                  /\ sema'[s].seq = sema[s].seq
                  /\ sema[s].alloc => sema'[s].alloc

\* What such a step leaves of the set of a call.
KeptOf(q) ==
  /\ uap'[q] = uap[q]
  /\ sema'[uap[q].id[2]].nsems = sema[uap[q].id[2]].nsems
  /\ sema'[uap[q].id[2]].base = sema[uap[q].id[2]].base
  /\ sema'[uap[q].id[2]].seq = sema[uap[q].id[2]].seq
  /\ sema[uap[q].id[2]].alloc => sema'[uap[q].id[2]].alloc

LEMMA CallKept ==
  ASSUME NEW q \in Proc, CallOKOf(q), KeptOf(q), pc'[q] = pc[q],
         q \in stale' <=> q \in stale, q \in strayed => q \in strayed'
  PROVE  CallOKOf(q)'
  <1>2. pc'[q] # "user" /\ q \notin stale' => semconv(uap[q].id)'
    BY DEF CallOKOf, KeptOf, semconv
  <1>3. \A n : SemAt(q, n)' = SemAt(q, n)
    BY DEF KeptOf, SemAt
  <1>4. pc'[q] = "user" => q \notin stale'
    BY DEF CallOKOf
  <1>5. pc'[q] \in {"op", "undo", "sleep", "recopyin"} =>
          \A j \in 1 .. Len(uap'[q].ops) :
            /\ uap'[q].ops[j].num \in Num
            /\ q \notin stale' => uap'[q].ops[j].num < sema'[uap'[q].id[2]].nsems
    BY DEF CallOKOf, KeptOf
  <1>6. (Passing(q) =>
          /\ \A j \in 1 .. Len(uap[q].ops) : SemAt(q, uap[q].ops[j].num) \in SemNo
          /\ q \in stale => q \in strayed)'
    BY <1>3 DEF CallOKOf, KeptOf, Passing
  <1>7. QED
    BY <1>2, <1>4, <1>5, <1>6 DEF CallOKOf

LEMMA WaitKept ==
  ASSUME NEW q \in Proc, WaitOKOf(q), KeptOf(q), pc'[q] = pc[q], semp'[q] = semp[q],
         err'[q] = err[q], wchan'[q] \in {None, wchan[q]},
         q \in stale' <=> q \in stale, q \in strayed => q \in strayed'
  PROVE  WaitOKOf(q)'
  <1>1. SemsOf(uap[q].id[2])' = SemsOf(uap[q].id[2])
    BY DEF KeptOf, SemsOf
  <1>2. wchan'[q] # None => pc'[q] = "sleep" /\ wchan'[q] = semp'[q]
    BY DEF WaitOKOf
  <1>3. wchan'[q] # None /\ q \in stale' => q \in strayed'
    BY DEF WaitOKOf
  <1>4. (pc[q] = "sleep" \/ (pc[q] = "undo" /\ err[q] \in {"n", "z"}) =>
          /\ semp[q] \in Chan
          /\ q \notin stale => semp[q][1] \in SemsOf(uap[q].id[2]))'
    BY <1>1 DEF WaitOKOf
  <1>5. QED
    BY <1>2, <1>3, <1>4 DEF WaitOKOf

\* A process that leaves its call takes nothing with it.
LEMMA ReturnInv ==
  ASSUME CallInv, NEW p \in Proc, cpu \in {p, None}, Return(p), nrm' = nrm, SemaKept, SemaType',
         (semval \in [SemNo -> Int])', UndoType', ChanType', SleeperCounted',
         nflt' = nflt, strayed \subseteq strayed', strayed' \subseteq Proc,
         wchan'[p] = None, \A q \in Proc : wchan'[q] \in {None, wchan[q]}
  PROVE  CallInv'
  <1> USE DEF CallInv
  <1>1. \A q \in Proc : q # p => /\ pc'[q] = pc[q] /\ uap'[q] = uap[q] /\ semp'[q] = semp[q]
                                 /\ err'[q] = err[q]
    BY TypeGroups DEF Return, CallType
  <1>2. pc'[p] = "user" /\ cpu' = None /\ stale' = stale \ {p}
    BY TypeGroups DEF Return, CallType
  <1>3. TypeOK'
    <2>2. HistType'
      <3>1. sig' = sig \ {p} /\ snap' = <<>> /\ stale' = stale \ {p}
        BY DEF Return
      <3>2. QED
        BY <3>1, TypeGroups DEF HistType
    <2>3. CallType'
      <3>1. NoCall \in [id : Id, ops : OpLists \cup {<<>>}]
        BY ConstLemma DEF NoCall, Id, Slot
      <3>2. uap' \in [Proc -> [id : Id, ops : OpLists \cup {<<>>}]]
        BY <3>1, TypeGroups DEF Return, CallType
      <3>3. i' \in [Proc -> Nat \ {0}]
        <4>1. i' = [i EXCEPT ![p] = 1] /\ i \in [Proc -> Nat \ {0}]
          BY TypeGroups DEF Return, CallType
        <4>2. 1 \in Nat \ {0}
          OBVIOUS
        <4>3. QED
          BY <4>1, <4>2
      <3>4. pc' \in [Proc -> Places] /\ cpu' \in Proc \cup {None}
        BY TypeGroups DEF Return, CallType, Places
      <3>5. semp' \in [Proc -> Chan \cup {None}] /\ err' \in [Proc -> Errors]
        BY TypeGroups DEF Return, CallType, Errors
      <3>6. QED
        BY <3>2, <3>3, <3>4, <3>5 DEF CallType
    <2>4. QED
      BY <2>2, <2>3, TypeGroupsPrime
  <1>4. SetsInPool'
    BY DEF SetsInPool, SemaKept
  <1>5. CpuOK'
    BY <1>1, <1>2, NoneLemma DEF CpuOK, Passing
  <1>6. CallOK' /\ WaitOK'
    <2> SUFFICES ASSUME NEW q \in Proc PROVE CallOKOf(q)' /\ WaitOKOf(q)'
      BY DEF CallOK, WaitOK
    <2>1. CASE q = p
      BY <1>2, <2>1 DEF CallOKOf, WaitOKOf, Passing
    <2>2. CASE q # p
      <3>1. /\ CallOKOf(q) /\ WaitOKOf(q)
            /\ pc'[q] = pc[q] /\ uap'[q] = uap[q] /\ semp'[q] = semp[q] /\ err'[q] = err[q]
            /\ q \in stale' <=> q \in stale
            /\ q \in strayed => q \in strayed'
        BY <1>1, <1>2, <2>2 DEF CallOK, WaitOK
      <3>2. uap[q].id[2] \in Slot
        BY TypeGroups DEF CallType, Id
      <3>3. KeptOf(q)
        BY <3>1, <3>2 DEF KeptOf, SemaKept
      <3>5. CallOKOf(q)'
        BY <3>1, <3>3, CallKept
      <3>6. WaitOKOf(q)'
        BY <3>1, <3>3, WaitKept
      <3>7. QED
        BY <3>5, <3>6
    <2>3. QED
      BY <2>1, <2>2
  <1>9. QED
    BY <1>3, <1>4, <1>5, <1>6

\* A step of one process that leaves the sets as they are and does not return.
LEMMA MoveInv ==
  ASSUME CallInv, NEW p \in Proc, cpu \in {p, None}, cpu' \in {p, None},
         TypeOK', SleeperCounted', sema' = sema, stale' = stale, strayed \subseteq strayed',
         \A q \in Proc : q # p => /\ pc'[q] = pc[q] /\ uap'[q] = uap[q] /\ semp'[q] = semp[q]
                                  /\ err'[q] = err[q] /\ wchan'[q] \in {None, wchan[q]},
         Passing(p)' => cpu' = p, CallOKOf(p)', WaitOKOf(p)'
  PROVE  CallInv'
  <1> USE DEF CallInv
  <1>1. SetsInPool'
    BY DEF SetsInPool
  <1>2. CpuOK'
    <2> SUFFICES ASSUME NEW q \in Proc, Passing(q)' PROVE cpu' = q
      BY DEF CpuOK
    <2>1. CASE q = p
      BY <2>1
    <2>2. CASE q # p
      <3>1. Passing(q)
        BY <2>2 DEF Passing
      <3>2. QED
        BY <2>2, <3>1, NoneLemma DEF CpuOK
    <2>3. QED
      BY <2>1, <2>2
  <1>3. ASSUME NEW q \in Proc, q # p PROVE CallOKOf(q)' /\ WaitOKOf(q)'
    <2>1. CallOKOf(q) /\ WaitOKOf(q)
      BY DEF CallOK, WaitOK
    <2>2. KeptOf(q)
      BY <1>3 DEF KeptOf
    <2>3. q \in stale' <=> q \in stale
      OBVIOUS
    <2>4. q \in strayed => q \in strayed'
      OBVIOUS
    <2>5. CallOKOf(q)'
      BY <1>3, <2>1, <2>2, <2>3, <2>4, CallKept
    <2>6. WaitOKOf(q)'
      BY <1>3, <2>1, <2>2, <2>3, <2>4, WaitKept
    <2>7. QED
      BY <2>5, <2>6
  <1>4. CallOK' /\ WaitOK'
    BY <1>3 DEF CallOK, WaitOK
  <1>5. QED
    BY <1>1, <1>2, <1>4

LEMMA PoolArithmetic ==
  ASSUME NEW b \in Nat, NEW n \in Nat, NEW m \in Nat, b >= 1, n <= SEMMSL,
         b + n - 1 <= SEMMNS, m < n
  PROVE  m \in Num /\ b + m \in SemNo /\ b + m \in b .. b + n - 1
  BY ConstLemma DEF Num, SemNo

\* The semaphores of a slot are in the pool.
LEMMA SlotLemma ==
  ASSUME CallInv, NEW t \in Slot, NEW m \in Nat, m < sema[t].nsems
  PROVE  m \in Num /\ sema[t].base + m \in SemNo /\ sema[t].base + m \in SemsOf(t)
  <1>1. /\ sema[t].base \in Nat /\ sema[t].nsems \in Nat /\ sema[t].base >= 1
        /\ sema[t].nsems <= SEMMSL /\ sema[t].base + sema[t].nsems - 1 <= SEMMNS
    BY TypeGroups DEF CallInv, SetsInPool, SemaType
  <1>2. QED
    BY <1>1, PoolArithmetic DEF SemsOf

\* The operations of the process in a pass are on semaphores of the pool, and
\* of its own set unless that was removed.
LEMMA InPass ==
  ASSUME CallInv, NEW p \in Proc, Passing(p), NEW j \in 1 .. Len(uap[p].ops)
  PROVE  /\ uap[p].ops[j] \in Sembuf
         /\ SemAt(p, uap[p].ops[j].num) \in SemNo
         /\ <<uap[p].id, uap[p].ops[j].num>> \in Ent
         /\ p \notin stale =>
              /\ semconv(uap[p].id)
              /\ uap[p].ops[j].num < sema[uap[p].id[2]].nsems
              /\ SemAt(p, uap[p].ops[j].num) \in SemsOf(uap[p].id[2])
  <1>1. uap[p].ops[j] \in Sembuf /\ uap[p].id \in Id /\ uap[p].ops[j].num \in Nat
    BY OpType DEF Sembuf, CallInv
  <1>2. CallOKOf(p)
    BY DEF CallInv, CallOK
  <1>3. SemAt(p, uap[p].ops[j].num) \in SemNo /\ uap[p].ops[j].num \in Num
    BY <1>2 DEF CallOKOf, Passing
  <1>4. uap[p].id[2] \in Slot
    BY <1>1 DEF Id
  <1>5. p \notin stale => semconv(uap[p].id) /\ uap[p].ops[j].num < sema[uap[p].id[2]].nsems
    BY <1>2 DEF CallOKOf, Passing
  <1>6. p \notin stale => SemAt(p, uap[p].ops[j].num) \in SemsOf(uap[p].id[2])
    BY <1>1, <1>4, <1>5, SlotLemma DEF SemAt
  <1>7. QED
    BY <1>1, <1>3, <1>5, <1>6 DEF Ent

\* A step of a process within its pass.
LEMMA PassStepInv ==
  ASSUME CallInv, NEW p \in Proc, cpu = p, Passing(p),
         UNCHANGED <<sema, semmap, cpu, uap, sig, nrm, nflt, stale, strayed>>,
         CallType', ChanType', UndoType', SleeperCounted', (semval \in [SemNo -> Int])',
         (snap \in Seq([val : [SemNo -> Int], aoe : [Proc -> [Ent -> Int]]]))',
         Passing(p)',
         \A q \in Proc : q # p => pc'[q] = pc[q] /\ semp'[q] = semp[q] /\ err'[q] = err[q],
         pc'[p] = "undo" /\ err'[p] \in {"n", "z"} =>
           /\ semp'[p] \in Chan
           /\ p \notin stale => semp'[p][1] \in SemsOf(uap[p].id[2]),
         \A q \in Proc : wchan'[q] \in {None, wchan[q]}
  PROVE  CallInv'
  <1> USE DEF CallInv
  <1>1. TypeOK'
    <2>1. SemaType' /\ HistType'
      BY TypeGroups DEF SemaType, HistType
    <2>2. QED
      BY <2>1, TypeGroupsPrime
  <1>2. CallOKOf(p) /\ WaitOKOf(p)
    BY DEF CallOK, WaitOK
  <1>3. \A n : SemAt(p, n)' = SemAt(p, n)
    BY DEF SemAt
  <1>4. CallOKOf(p)'
    BY <1>2, <1>3 DEF CallOKOf, Passing, semconv
  <1>5. wchan'[p] = None
    BY <1>2 DEF WaitOKOf, Passing
  <1>6. SemsOf(uap[p].id[2])' = SemsOf(uap[p].id[2])
    BY DEF SemsOf
  <1>7. WaitOKOf(p)'
    BY <1>5, <1>6 DEF WaitOKOf, Passing
  <1>8. QED
    BY <1>1, <1>4, <1>7, MoveInv

LEMMA SingletonSeq ==
  ASSUME NEW S, NEW r \in S PROVE <<r>> \in Seq(S)
  OBVIOUS

LEMMA copyinLemma ==
  ASSUME NEW p, copyin(p), HistType
  PROVE  cpu' \in {p, None} /\ nflt' \in 0 .. MaxFault
  BY ConstLemma DEF copyin, HistType

LEMMA EnterInv ==
  ASSUME CallInv, NEW p \in Proc, NEW at \in {"copyin", "setall", "ipcset"}, NEW id \in Id,
         NEW ops \in OpLists \cup {<<>>}, Enter(p, at, id, ops)
  PROVE  CallInv'
  <1> USE DEF CallInv
  <1>1. /\ cpu = None /\ pc[p] = "user" /\ semconv(id)
        /\ cpu' \in {p, None} /\ nflt' \in 0 .. MaxFault
        /\ pc' = [pc EXCEPT ![p] = at]
        /\ uap' = [uap EXCEPT ![p] = [id |-> id, ops |-> ops]]
        /\ UNCHANGED <<kern, undo, i, semp, err, wchan, sig, nrm, net, snap, stale, strayed>>
    <2>1. /\ cpu = None /\ pc[p] = "user" /\ semconv(id) /\ copyin(p)
          /\ pc' = [pc EXCEPT ![p] = at]
          /\ uap' = [uap EXCEPT ![p] = [id |-> id, ops |-> ops]]
          /\ UNCHANGED <<kern, undo, i, semp, err, wchan, sig, nrm, net, snap, stale, strayed>>
      BY DEF Enter, MayCall
    <2>2. cpu' \in {p, None} /\ nflt' \in 0 .. MaxFault
      BY <2>1, TypeGroups, copyinLemma
    <2>3. QED
      BY <2>1, <2>2
  <1>2. /\ \A q \in Proc : q # p => pc'[q] = pc[q] /\ uap'[q] = uap[q]
        /\ uap'[p].id = id /\ uap'[p].ops = ops /\ pc'[p] = at
    BY <1>1, TypeGroups DEF CallType
  <1>3. UNCHANGED <<sema, semval, semmap, semcnt, wchan, semp, err, sig, nrm, stale, strayed>>
    BY <1>1 DEF kern
  <1>4. TypeOK'
    <2>1. SemaType' /\ (semval \in [SemNo -> Int])' /\ ChanType'
      BY <1>3, TypeGroups DEF SemaType, ChanType
    <2>2. UndoType'
      BY <1>1, TypeGroups DEF UndoType, undo
    <2>3. HistType'
      BY <1>1, TypeGroups DEF HistType
    <2>4. CallType'
      <3>1. uap' \in [Proc -> [id : Id, ops : OpLists \cup {<<>>}]]
        BY <1>1, TypeGroups DEF CallType
      <3>2. pc' \in [Proc -> Places]
        BY <1>1, TypeGroups DEF CallType, Places
      <3>3. QED
        BY <1>1, <3>1, <3>2, TypeGroups DEF CallType
    <2>5. QED
      BY <2>1, <2>2, <2>3, <2>4, TypeGroupsPrime
  <1>5. CallOKOf(p) /\ WaitOKOf(p)
    BY DEF CallOK, WaitOK
  <1>6. semconv(uap[p].id)'
    BY <1>1, <1>2, <1>3 DEF semconv
  <1>7. CallOKOf(p)'
    BY <1>2, <1>6 DEF CallOKOf, Passing
  <1>8. wchan'[p] = None
    BY <1>1, <1>5 DEF WaitOKOf
  <1>9. WaitOKOf(p)'
    BY <1>2, <1>8 DEF WaitOKOf
  <1>10. SleeperCounted'
    BY <1>3 DEF SleeperCounted
  <1>11. ~Passing(p)'
    BY <1>2 DEF Passing
  <1>12. QED
    BY <1>1, <1>2, <1>3, <1>4, <1>7, <1>9, <1>10, <1>11, MoveInv

LEMMA semopInv ==
  ASSUME CallInv, NEW p \in Proc, NEW id \in Id, NEW ops \in OpLists, semop(p, id, ops)
  PROVE  CallInv'
  BY EnterInv DEF semop

LEMMA semctlSetallInv ==
  ASSUME CallInv, NEW p \in Proc, NEW id \in Id, semctlSetall(p, id)
  PROVE  CallInv'
  BY EnterInv DEF semctlSetall

LEMMA semctlSetInv ==
  ASSUME CallInv, NEW p \in Proc, NEW id \in Id, semctlSet(p, id)
  PROVE  CallInv'
  BY EnterInv DEF semctlSet

\* A process that comes back from copyin() does not sleep on a channel.
LEMMA CopiedLemma ==
  ASSUME CallInv, NEW p \in Proc, NEW at \in {"copyin", "recopyin", "setall", "ipcset"},
         Copied(p, at)
  PROVE  cpu \in {p, None} /\ pc[p] = at /\ wchan[p] = None
  BY DEF Copied, CallInv, WaitOK, WaitOKOf

LEMMA CheckInv ==
  ASSUME CallInv, NEW p \in Proc, NEW at \in {"copyin", "recopyin"}, Copied(p, at), Check(p),
         UNCHANGED <<kern, undo, uap, semp, err, wchan, sig, nrm, nflt, stale>>,
         \A j \in 1 .. Len(uap[p].ops) :
           /\ uap[p].ops[j].num \in Num
           /\ SemAt(p, uap[p].ops[j].num) \in SemNo
           /\ p \notin stale => uap[p].ops[j].num < sema[uap[p].id[2]].nsems
  PROVE  CallInv'
  <1> USE DEF CallInv
  <1>1. /\ cpu' = p /\ pc' = [pc EXCEPT ![p] = "op"] /\ i' = [i EXCEPT ![p] = 1]
        /\ snap' = <<[val |-> semval, aoe |-> aoe]>>
        /\ strayed' = strayed \cup ({p} \cap stale)
    BY DEF Check, GoesOn
  <1>2. cpu \in {p, None} /\ pc[p] = at /\ wchan[p] = None
    BY CopiedLemma
  <1>3. pc'[p] = "op" /\ \A q \in Proc : q # p => pc'[q] = pc[q]
    BY <1>1, TypeGroups DEF CallType
  <1>4. UNCHANGED <<sema, semval, semmap, semcnt>>
    BY DEF kern
  <1>5. TypeOK'
    <2>1. SemaType' /\ (semval \in [SemNo -> Int])' /\ ChanType'
      BY <1>4, TypeGroups DEF SemaType, ChanType
    <2>2. UndoType'
      BY TypeGroups DEF UndoType, undo
    <2>3. HistType'
      <3>1. [val |-> semval, aoe |-> aoe] \in [val : [SemNo -> Int], aoe : [Proc -> [Ent -> Int]]]
        BY TypeGroups DEF UndoType
      <3>2. snap' \in Seq([val : [SemNo -> Int], aoe : [Proc -> [Ent -> Int]]])
        BY <1>1, <3>1, SingletonSeq
      <3>3. strayed' \subseteq Proc
        BY <1>1, TypeGroups DEF HistType
      <3>4. QED
        BY <3>2, <3>3, TypeGroups DEF HistType
    <2>4. CallType'
      <3>1. i' \in [Proc -> Nat \ {0}]
        <4>1. i \in [Proc -> Nat \ {0}] /\ 1 \in Nat \ {0}
          BY TypeGroups DEF CallType
        <4>2. QED
          BY <1>1, <4>1
      <3>2. pc' \in [Proc -> Places]
        BY <1>1, TypeGroups DEF CallType, Places
      <3>3. QED
        BY <1>1, <3>1, <3>2, TypeGroups DEF CallType
    <2>5. QED
      BY <2>1, <2>2, <2>3, <2>4, TypeGroupsPrime
  <1>6. CallOKOf(p) /\ WaitOKOf(p)
    BY DEF CallOK, WaitOK
  <1>7. p \notin stale => semconv(uap[p].id)
    BY <1>2, <1>6 DEF CallOKOf
  <1>8. \A n : SemAt(p, n)' = SemAt(p, n)
    BY <1>4 DEF SemAt
  <1>9. p \in stale => p \in strayed'
    BY <1>1
  <1>10. CallOKOf(p)'
    <2>1. (pc[p] # "user" /\ p \notin stale => semconv(uap[p].id))'
      BY <1>4, <1>7 DEF semconv
    <2>2. QED
      BY <1>3, <1>4, <1>8, <1>9, <2>1 DEF CallOKOf
  <1>11. WaitOKOf(p)'
    BY <1>2, <1>3 DEF WaitOKOf
  <1>12. SleeperCounted'
    BY <1>4 DEF SleeperCounted
  <1>13. QED
    BY <1>1, <1>2, <1>3, <1>4, <1>5, <1>10, <1>11, <1>12, MoveInv

\* A call that fails in copyin() or behind it changes nothing.
LEMMA FailedCopy ==
  ASSUME CallInv, NEW p \in Proc, NEW at \in {"copyin", "recopyin", "setall", "ipcset"},
         Copied(p, at), Return(p), UNCHANGED <<sema, semval, semcnt, undo, wchan>>,
         nrm' = nrm, nflt' = nflt, strayed \subseteq strayed', strayed' \subseteq Proc,
         semmap' = semmap
  PROVE  CallInv'
  <1>1. cpu \in {p, None} /\ wchan[p] = None
    BY CopiedLemma
  <1>2. SemaType' /\ (semval \in [SemNo -> Int])' /\ UndoType' /\ ChanType'
    BY TypeGroups DEF CallInv, SemaType, UndoType, ChanType, undo
  <1>3. SemaKept
    BY DEF SemaKept
  <1>4. SleeperCounted'
    BY DEF CallInv, SleeperCounted
  <1>5. wchan'[p] = None /\ \A q \in Proc : wchan'[q] \in {None, wchan[q]}
    BY <1>1
  <1>6. QED
    BY <1>1, <1>2, <1>3, <1>4, <1>5, ReturnInv

LEMMA ListLength ==
  ASSUME TypeOK, NEW p \in Proc
  PROVE  Len(uap[p].ops) \in Nat /\ DOMAIN uap[p].ops = 1 .. Len(uap[p].ops)
  <1>1. uap[p].ops \in OpLists \cup {<<>>}
    BY TypeGroups DEF CallType
  <1>2. uap[p].ops \in Seq(Sembuf)
    <2>1. CASE uap[p].ops \in OpLists
      BY <2>1, SemAssumption
    <2>2. CASE uap[p].ops = <<>>
      BY <2>2
    <2>3. QED
      BY <1>1, <2>1, <2>2
  <1>3. QED
    BY <1>2

LEMMA semopCopiedInv ==
  ASSUME CallInv, NEW p \in Proc, semopCopied(p)
  PROVE  CallInv'
  <1>1. Copied(p, "copyin") /\ UNCHANGED <<kern, undo, wchan, nrm, nflt, net>>
    BY DEF semopCopied
  <1>2. CASE Return(p) /\ UNCHANGED strayed
    <2>1. strayed \subseteq Proc /\ UNCHANGED <<sema, semval, semcnt, semmap>>
      BY <1>1, TypeGroups DEF CallInv, HistType, kern
    <2>2. QED
      BY <1>1, <1>2, <2>1, FailedCopy
  <1>3. CASE /\ \A j \in DOMAIN uap[p].ops : uap[p].ops[j].num < sema[uap[p].id[2]].nsems
             /\ Check(p)
             /\ UNCHANGED <<uap, semp, err, sig, stale>>
    <2>1. ASSUME NEW j \in 1 .. Len(uap[p].ops)
          PROVE  /\ uap[p].ops[j].num \in Num
                 /\ SemAt(p, uap[p].ops[j].num) \in SemNo
                 /\ p \notin stale => uap[p].ops[j].num < sema[uap[p].id[2]].nsems
      <3>1. uap[p].ops[j].num \in Nat /\ uap[p].id[2] \in Slot
        BY OpType DEF Sembuf, CallInv, Id
      <3>2. uap[p].ops[j].num < sema[uap[p].id[2]].nsems
        BY <1>3, ListLength DEF CallInv
      <3>3. QED
        BY <3>1, <3>2, SlotLemma DEF SemAt
    <2>2. QED
      BY <1>1, <1>3, <2>1, CheckInv
  <1>4. QED
    BY <1>2, <1>3 DEF semopCopied

LEMMA semopRecopiedInv ==
  ASSUME CallInv, NEW p \in Proc, semopRecopied(p)
  PROVE  CallInv'
  <1>1. Copied(p, "recopyin") /\ UNCHANGED <<kern, undo, wchan, nrm, nflt, net>>
    BY DEF semopRecopied
  <1>2. CASE Return(p) /\ UNCHANGED strayed
    <2>1. strayed \subseteq Proc /\ UNCHANGED <<sema, semval, semcnt, semmap>>
      BY <1>1, TypeGroups DEF CallInv, HistType, kern
    <2>2. QED
      BY <1>1, <1>2, <2>1, FailedCopy
  <1>3. CASE InPool(p) /\ Check(p) /\ UNCHANGED <<uap, semp, err, sig, stale>>
    <2>1. ASSUME NEW j \in 1 .. Len(uap[p].ops)
          PROVE  /\ uap[p].ops[j].num \in Num
                 /\ SemAt(p, uap[p].ops[j].num) \in SemNo
                 /\ p \notin stale => uap[p].ops[j].num < sema[uap[p].id[2]].nsems
      <3>1. CallOKOf(p) /\ pc[p] = "recopyin"
        BY <1>1, CopiedLemma DEF CallInv, CallOK
      <3>2. SemAt(p, uap[p].ops[j].num) \in SemNo
        BY <1>3, ListLength DEF CallInv, InPool
      <3>3. QED
        BY <3>1, <3>2 DEF CallOKOf
    <2>2. QED
      BY <1>1, <1>3, <2>1, CheckInv
  <1>4. QED
    BY <1>2, <1>3 DEF semopRecopied

LEMMA semctlSetallCopiedInv ==
  ASSUME CallInv, NEW p \in Proc, NEW vals \in [SemNo -> 0 .. SEMVMX],
         semctlSetallCopied(p, vals)
  PROVE  CallInv'
  <1> DEFINE id == uap[p].id
             mine == SemsOf(id[2])
  <1>1. Copied(p, "setall") /\ Return(p) /\ UNCHANGED <<sema, semmap, nrm, nflt>>
    BY DEF semctlSetallCopied
  <1>2. cpu \in {p, None} /\ wchan[p] = None
    BY <1>1, CopiedLemma
  <1>3. strayed \subseteq Proc
    BY TypeGroups DEF CallInv, HistType
  <1>4. CASE UNCHANGED <<semval, semcnt, undo, wchan, net, strayed>>
    BY <1>1, <1>3, <1>4, FailedCopy
  <1>5. CASE /\ semunrm(id, 0 .. sema[id[2]].nsems)
             /\ semval' = [s \in SemNo |-> IF s \in mine THEN vals[s] ELSE semval[s]]
             /\ wake({<<s, IF vals[s] # 0 THEN "n" ELSE "z">> : s \in mine})
             /\ GoesOn(p)
    <2>1. SemaType' /\ SemaKept
      BY <1>1, TypeGroups DEF CallInv, SemaType, SemaKept
    <2>2. UndoType'
      BY <1>5, semunrmLemma, TypeGroups DEF CallInv
    <2>3. (semval \in [SemNo -> Int])'
      BY <1>5, TypeGroups, ConstLemma DEF CallInv
    <2>4. /\ ChanType' /\ SleeperCounted'
          /\ \A q \in Proc : wchan'[q] \in {None, wchan[q]}
      BY <1>5, wakeLemma, TypeGroups DEF CallInv
    <2>5. strayed \subseteq strayed' /\ strayed' \subseteq Proc
      BY <1>3, <1>5 DEF GoesOn
    <2>6. wchan'[p] = None
      BY <1>2, <2>4
    <2>7. QED
      BY <1>1, <1>2, <2>1, <2>2, <2>3, <2>4, <2>5, <2>6, ReturnInv
  <1>6. QED
    BY <1>4, <1>5 DEF semctlSetallCopied

LEMMA semctlSetCopiedSema ==
  ASSUME CallInv, NEW p \in Proc, semctlSetCopied(p)
  PROVE  SemaType' /\ SemaKept
  <1> DEFINE slot == uap[p].id[2]
  <1>0. slot \in Slot /\ semmap' = semmap
    BY TypeGroups DEF CallInv, CallType, Id, semctlSetCopied
  <1>1. CASE sema' = sema
    BY <1>0, <1>1, TypeGroups DEF CallInv, SemaType, SemaKept
  <1>2. ASSUME NEW key \in Keys \cup {None},
               sema' = [sema EXCEPT ![slot].alloc = TRUE, ![slot].key = key]
        PROVE  SemaType' /\ SemaKept
    <2>1. sema' = [sema EXCEPT ![slot] = [sema[slot] EXCEPT !.alloc = TRUE, !.key = key]]
      BY <1>0, <1>2, TypeGroups DEF CallInv, SemaType
    <2>2. sema[slot] \in [alloc : BOOLEAN, seq : 0 .. SEQ_MAX, key : Keys \cup {None},
                          base : Nat, nsems : Nat]
      BY <1>0, TypeGroups DEF CallInv, SemaType
    <2> DEFINE new == [sema[slot] EXCEPT !.alloc = TRUE, !.key = key]
    <2>3. /\ new \in [alloc : BOOLEAN, seq : 0 .. SEQ_MAX, key : Keys \cup {None},
                       base : Nat, nsems : Nat]
          /\ new.alloc /\ new.seq = sema[slot].seq
          /\ new.base = sema[slot].base /\ new.nsems = sema[slot].nsems
      BY <2>2
    <2> HIDE DEF new
    <2>4. sema' = [sema EXCEPT ![slot] = new]
      BY <2>1 DEF new
    <2>5. QED
      BY <1>0, <2>3, <2>4, TypeGroups DEF CallInv, SemaType, SemaKept
  <1>3. QED
    BY <1>1, <1>2 DEF semctlSetCopied

LEMMA semctlSetCopiedInv ==
  ASSUME CallInv, NEW p \in Proc, semctlSetCopied(p)
  PROVE  CallInv'
  <1> DEFINE slot == uap[p].id[2]
  <1>1. /\ Copied(p, "ipcset") /\ Return(p)
        /\ UNCHANGED <<semval, semcnt, semmap, undo, wchan, nrm, nflt, net>>
    BY DEF semctlSetCopied
  <1>2. cpu \in {p, None} /\ wchan[p] = None
    BY <1>1, CopiedLemma
  <1>3. strayed \subseteq Proc /\ slot \in Slot
    BY TypeGroups DEF CallInv, HistType, CallType, Id
  <1>4. strayed \subseteq strayed' /\ strayed' \subseteq Proc
    BY <1>3 DEF semctlSetCopied, GoesOn
  <1>5. SemaType' /\ SemaKept
    BY semctlSetCopiedSema
  <1>6. (semval \in [SemNo -> Int])' /\ UndoType' /\ ChanType' /\ SleeperCounted'
    BY <1>1, TypeGroups DEF CallInv, UndoType, ChanType, SleeperCounted, undo
  <1>7. wchan'[p] = None /\ \A q \in Proc : wchan'[q] \in {None, wchan[q]}
    BY <1>1, <1>2
  <1>8. QED
    BY <1>1, <1>2, <1>4, <1>5, <1>6, <1>7, ReturnInv

LEMMA semopDoInv ==
  ASSUME CallInv, NEW p \in Proc, semopDo(p)
  PROVE  CallInv'
  <1> USE DEF CallInv
  <1> DEFINE o == Op(p)
             s == SemAt(p, o.num)
             k == <<uap[p].id, o.num>>
  <1>1. /\ cpu = p /\ pc[p] = "op" /\ i[p] <= Len(uap[p].ops)
        /\ semval' = [semval EXCEPT ![s] = semval[s] + o.op]
        /\ IF o.undo THEN semaoe(p, o.op, k) ELSE UNCHANGED undo
        /\ i' = [i EXCEPT ![p] = @ + 1]
        /\ snap' = Append(snap, [val |-> semval', aoe |-> aoe'])
        /\ UNCHANGED <<sema, semmap, cpu, pc, uap, semp, err, sig, nrm, nflt, stale, strayed>>
    BY DEF semopDo, InOp
  <1>2. i[p] \in 1 .. Len(uap[p].ops)
    <2>1. i[p] \in Nat \ {0} /\ uap[p].ops \in OpLists \cup {<<>>}
      BY TypeGroups DEF CallType
    <2>2. Len(uap[p].ops) \in Nat
      BY <2>1, SemAssumption, SMTT(30)
    <2>3. QED
      BY <1>1, <2>1, <2>2
  <1>20. Passing(p) /\ Passing(p)'
    BY <1>1 DEF Passing
  <1>3. o \in Sembuf /\ s \in SemNo /\ k \in Ent /\ o.op \in Int
    BY <1>2, <1>20, InPass DEF Op, Sembuf
  <1>4. /\ ChanType' /\ SleeperCounted'
        /\ \A q \in Proc : wchan'[q] \in {None, wchan[q]}
    BY wakeLemma, TypeGroups DEF semopDo
  <1>5. UndoType'
    BY <1>1, <1>3, semaoeLemma, TypeGroups DEF UndoType, undo
  <1>6. (semval \in [SemNo -> Int])'
    BY <1>1, <1>3, TypeGroups
  <1>7. (snap \in Seq([val : [SemNo -> Int], aoe : [Proc -> [Ent -> Int]]]))'
    <2>1. [val |-> semval', aoe |-> aoe'] \in [val : [SemNo -> Int], aoe : [Proc -> [Ent -> Int]]]
      BY <1>5, <1>6 DEF UndoType
    <2>2. QED
      BY <1>1, <2>1, TypeGroups DEF HistType
  <1>8. CallType'
    <2>1. i' \in [Proc -> Nat \ {0}]
      BY <1>1, TypeGroups DEF CallType
    <2>2. QED
      BY <1>1, <2>1, TypeGroups DEF CallType
  <1>9. pc'[p] # "undo"
    BY <1>1
  <1>10. QED
    BY <1>1, <1>20, <1>4, <1>5, <1>6, <1>7, <1>8, <1>9, PassStepInv

LEMMA semopFailInv ==
  ASSUME CallInv, NEW p \in Proc, semopFail(p)
  PROVE  CallInv'
  <1> USE DEF CallInv
  <1> DEFINE o == Op(p)
             s == SemAt(p, o.num)
             k == <<uap[p].id, o.num>>
             e == Obstacle(p)
  <1>1. /\ cpu = p /\ pc[p] = "op" /\ i[p] <= Len(uap[p].ops)
        /\ pc' = [pc EXCEPT ![p] = "undo"]
        /\ err' = [err EXCEPT ![p] = e]
        /\ semp' = [semp EXCEPT ![p] = IF e \in {"n", "z"} THEN <<s, e>> ELSE None]
        /\ semaoe(p, o.op, k) \/ UNCHANGED undo
        /\ UNCHANGED <<kern, cpu, uap, i, wchan, sig, hist>>
    BY DEF semopFail, InOp
  <1>2. i[p] \in 1 .. Len(uap[p].ops)
    <2>1. i[p] \in Nat \ {0} /\ uap[p].ops \in OpLists \cup {<<>>}
      BY TypeGroups DEF CallType
    <2>2. Len(uap[p].ops) \in Nat
      BY <2>1, SemAssumption, SMTT(30)
    <2>3. QED
      BY <1>1, <2>1, <2>2
  <1>20. Passing(p)
    BY <1>1 DEF Passing
  <1>3. /\ o \in Sembuf /\ s \in SemNo /\ k \in Ent /\ o.op \in Int
        /\ p \notin stale => s \in SemsOf(uap[p].id[2])
    BY <1>2, <1>20, InPass DEF Op, Sembuf
  <1>4. /\ ChanType' /\ SleeperCounted'
        /\ \A q \in Proc : wchan'[q] \in {None, wchan[q]}
    BY <1>1, TypeGroups DEF ChanType, SleeperCounted, kern
  <1>5. UndoType'
    BY <1>1, <1>3, semaoeLemma, TypeGroups DEF UndoType, undo
  <1>6. e \in Errors
    BY <1>3, ObstacleType
  <1>7. CallType'
    <2>1. e \in {"n", "z"} => <<s, e>> \in Chan
      BY <1>3 DEF Chan
    <2>2. semp' \in [Proc -> Chan \cup {None}]
      BY <1>1, <2>1, TypeGroups DEF CallType
    <2>3. pc' \in [Proc -> Places] /\ err' \in [Proc -> Errors]
      <3>1. "undo" \in Places
        BY DEF Places
      <3>2. QED
        BY <1>1, <1>6, <3>1, TypeGroups DEF CallType
    <2>4. QED
      BY <1>1, <2>2, <2>3, TypeGroups DEF CallType
  <1>8. /\ pc'[p] = "undo" /\ err'[p] = e
        /\ e \in {"n", "z"} => semp'[p] = <<s, e>>
        /\ \A q \in Proc : q # p => pc'[q] = pc[q] /\ semp'[q] = semp[q] /\ err'[q] = err[q]
    BY <1>1, TypeGroups DEF CallType
  <1>9. pc'[p] = "undo" /\ err'[p] \in {"n", "z"} =>
          /\ semp'[p] \in Chan
          /\ p \notin stale => semp'[p][1] \in SemsOf(uap[p].id[2])
    BY <1>3, <1>8 DEF Chan
  <1>12. Passing(p)'
    BY <1>8 DEF Passing
  <1>10. /\ UNCHANGED <<sema, semmap, sig, nrm, nflt, stale, strayed, cpu, uap>>
         /\ (semval \in [SemNo -> Int])'
         /\ (snap \in Seq([val : [SemNo -> Int], aoe : [Proc -> [Ent -> Int]]]))'
    BY <1>1, TypeGroups, SMTT(30) DEF kern, hist, HistType
  <1>11. QED
    BY <1>1, <1>20, <1>12, <1>4, <1>5, <1>7, <1>8, <1>9, <1>10, PassStepInv

LEMMA semundoInv ==
  ASSUME CallInv, IndexOK, NEW p \in Proc, semundo(p)
  PROVE  CallInv'
  <1> USE DEF CallInv
  <1> DEFINE o == uap[p].ops[i[p] - 1]
             s == SemAt(p, o.num)
             k == <<uap[p].id, o.num>>
  <1>1. /\ cpu = p /\ pc[p] = "undo" /\ i[p] > 1
        /\ semval' = [semval EXCEPT ![s] = @ - o.op]
        /\ IF o.undo THEN semaoe(p, -o.op, k) ELSE UNCHANGED undo
        /\ i' = [i EXCEPT ![p] = @ - 1]
        /\ UNCHANGED <<sema, semcnt, semmap, cpu, pc, uap, semp, err, wchan, sig,
                       nrm, nflt, snap, stale, strayed>>
    BY DEF semundo
  <1>2. i[p] - 1 \in 1 .. Len(uap[p].ops) /\ i[p] - 1 \in Nat \ {0}
    <2>1. i[p] \in Nat /\ uap[p].ops \in OpLists \cup {<<>>}
      BY TypeGroups DEF CallType
    <2>2. Len(uap[p].ops) \in Nat
      BY <2>1, SemAssumption
    <2>3. QED
      BY <1>1, <2>1, <2>2 DEF IndexOK, IndexOKOf
  <1>20. Passing(p) /\ Passing(p)'
    BY <1>1 DEF Passing
  <1>3. o \in Sembuf /\ s \in SemNo /\ k \in Ent /\ o.op \in Int /\ -o.op \in Int
    BY <1>2, <1>20, InPass, SMTT(30) DEF Sembuf
  <1>4. /\ ChanType' /\ SleeperCounted'
        /\ \A q \in Proc : wchan'[q] \in {None, wchan[q]}
    BY <1>1, TypeGroups DEF ChanType, SleeperCounted
  <1>5. UndoType'
    BY <1>1, <1>3, semaoeLemma, TypeGroups, SMTT(30) DEF UndoType, undo
  <1>6. (semval \in [SemNo -> Int])'
    BY <1>1, <1>3, TypeGroups, SMTT(30)
  <1>7. CallType'
    <2>1. i' \in [Proc -> Nat \ {0}]
      BY <1>1, <1>2, TypeGroups DEF CallType
    <2>2. QED
      BY <1>1, <2>1, TypeGroups DEF CallType
  <1>8. (snap \in Seq([val : [SemNo -> Int], aoe : [Proc -> [Ent -> Int]]]))'
    BY <1>1, TypeGroups DEF HistType
  <1>9. pc'[p] = "undo" /\ err'[p] \in {"n", "z"} =>
          /\ semp'[p] \in Chan
          /\ p \notin stale => semp'[p][1] \in SemsOf(uap[p].id[2])
    BY <1>1 DEF WaitOK, WaitOKOf
  <1>10. QED
    BY <1>1, <1>20, <1>4, <1>5, <1>6, <1>7, <1>8, <1>9, PassStepInv, ZenonT(30)

LEMMA ReturnWhileRunning ==
  ASSUME CallInv, NEW p \in Proc, cpu = p, Passing(p), Return(p),
         UNCHANGED <<kern, undo, wchan, nrm, nflt, strayed>>
  PROVE  CallInv'
  <1> USE DEF CallInv
  <1>1. wchan[p] = None
    BY DEF WaitOK, WaitOKOf, Passing
  <1>2. ChanType' /\ SleeperCounted' /\ UNCHANGED <<sema, semval, semmap>>
    BY TypeGroups DEF ChanType, SleeperCounted, kern
  <1>3. SemaType' /\ (semval \in [SemNo -> Int])' /\ UndoType'
    BY <1>2, TypeGroups DEF SemaType, UndoType, undo
  <1>4. SemaKept
    BY <1>2 DEF SemaKept
  <1>5. strayed \subseteq strayed' /\ strayed' \subseteq Proc
    BY TypeGroups DEF HistType
  <1>6. QED
    BY <1>1, <1>2, <1>3, <1>4, <1>5, ReturnInv

LEMMA semopErrorInv ==
  ASSUME CallInv, NEW p \in Proc, semopError(p)
  PROVE  CallInv'
  BY ReturnWhileRunning DEF semopError, Passing

LEMMA semopDoneInv ==
  ASSUME CallInv, NEW p \in Proc, semopDone(p)
  PROVE  CallInv'
  BY ReturnWhileRunning DEF semopDone, Passing

LEMMA semopSleepInv ==
  ASSUME CallInv, NEW p \in Proc, semopSleep(p)
  PROVE  CallInv'
  <1> USE DEF CallInv
  <1>1. /\ cpu = p /\ pc[p] = "undo" /\ err[p] \in {"n", "z"}
        /\ UNCHANGED <<sema, semval, semmap, undo, nrm, nflt, net, strayed>>
    BY DEF semopSleep
  <1>0. CallOKOf(p) /\ WaitOKOf(p)
    BY DEF WaitOK, CallOK
  <1>2. /\ semp[p] \in Chan /\ wchan[p] = None
        /\ p \notin stale => semconv(uap[p].id) /\ semp[p][1] \in SemsOf(uap[p].id[2])
        /\ p \in stale => p \in strayed
    BY <1>0, <1>1 DEF WaitOKOf, CallOKOf, Passing
  <1>3. semcnt[semp[p]] \in Nat
    BY <1>2, TypeGroups DEF ChanType
  <1>7. SemaType' /\ (semval \in [SemNo -> Int])' /\ UndoType'
    BY <1>1, TypeGroups DEF SemaType, UndoType, undo
  <1>4. CASE p \in sig
    <2>1. Uncount(semp[p], semcnt[semp[p]] + 1) /\ Return(p)
      BY <1>4 DEF semopSleep
    <2>2. semcnt[semp[p]] + 1 \in Nat
      BY <1>3
    <2>3. ChanType' /\ SleeperCounted' /\ \A q \in Proc : wchan'[q] \in {None, wchan[q]}
      BY <1>2, <2>1, <2>2, UncountLemma, TypeGroups
    <2>4. wchan'[p] = None
      BY <1>2, <2>3
    <2>5. strayed \subseteq strayed' /\ strayed' \subseteq Proc /\ SemaKept
      BY <1>1, TypeGroups DEF HistType, SemaKept
    <2>6. QED
      BY <1>1, <1>7, <2>1, <2>3, <2>4, <2>5, ReturnInv
  <1>5. CASE p \notin sig
    <2>1. /\ semcnt' = [semcnt EXCEPT ![semp[p]] = @ + 1]
          /\ wchan' = [wchan EXCEPT ![p] = semp[p]]
          /\ pc' = [pc EXCEPT ![p] = "sleep"]
          /\ cpu' = None /\ snap' = <<>>
          /\ UNCHANGED <<uap, i, semp, err, sig, stale>>
      BY <1>5 DEF semopSleep
    <2>2. /\ pc'[p] = "sleep" /\ wchan'[p] = semp[p]
          /\ \A q \in Proc : q # p => pc'[q] = pc[q] /\ wchan'[q] = wchan[q]
      BY <2>1, TypeGroups DEF CallType, ChanType
    <2>3. TypeOK'
      <3>2. ChanType'
        BY <1>2, <2>1, TypeGroups DEF ChanType
      <3>3. CallType'
        <4>1. pc' \in [Proc -> Places]
          BY <2>1, TypeGroups DEF CallType, Places
        <4>2. QED
          BY <2>1, <4>1, TypeGroups DEF CallType
      <3>4. HistType'
        BY <1>1, <2>1, TypeGroups DEF HistType
      <3>5. QED
        BY <1>7, <3>2, <3>3, <3>4, TypeGroupsPrime
    <2>4. \A n : SemAt(p, n)' = SemAt(p, n)
      BY <1>1, <2>1 DEF SemAt
    <2>5. CallOKOf(p)'
      BY <1>0, <1>1, <2>1, <2>2 DEF CallOKOf, Passing, semconv
    <2>6. SemsOf(uap[p].id[2])' = SemsOf(uap[p].id[2])
      BY <1>1, <2>1 DEF SemsOf
    <2>7. WaitOKOf(p)'
      BY <1>1, <1>2, <2>1, <2>2, <2>6 DEF WaitOKOf
    <2>8. SleeperCounted'
      BY <1>2, <1>3, <2>1, <2>2, TypeGroups DEF SleeperCounted, ChanType
    <2>9. ~Passing(p)'
      BY <2>2 DEF Passing
    <2>10. QED
      BY <1>1, <2>1, <2>2, <2>3, <2>5, <2>7, <2>8, <2>9, MoveInv
  <1>6. QED
    BY <1>4, <1>5

LEMMA semopAgainInv ==
  ASSUME CallInv, NEW p \in Proc, semopAgain(p)
  PROVE  CallInv'
  <1> USE DEF CallInv
  <1>1. /\ cpu = None /\ pc[p] = "sleep" /\ wchan[p] = None
        /\ UNCHANGED <<kern, undo, wchan, nrm, net, strayed>>
    BY DEF semopAgain, Awake
  <1>2. UNCHANGED <<sema, semval, semcnt, semmap>> /\ ChanType' /\ SleeperCounted'
    BY <1>1, TypeGroups DEF kern, ChanType, SleeperCounted
  <1>7. SemaType' /\ (semval \in [SemNo -> Int])' /\ UndoType'
    BY <1>1, <1>2, TypeGroups DEF SemaType, UndoType, undo
  <1>3. CASE ~semconv(uap[p].id)
    <2>1. Return(p) /\ nflt' = nflt
      BY <1>3 DEF semopAgain
    <2>2. strayed \subseteq strayed' /\ strayed' \subseteq Proc /\ SemaKept
      BY <1>1, <1>2, TypeGroups DEF HistType, SemaKept
    <2>3. QED
      BY <1>1, <1>2, <1>7, <2>1, <2>2, ReturnInv
  <1>4. CASE semconv(uap[p].id)
    <2>1. /\ copyin(p)
          /\ pc' = [pc EXCEPT ![p] = "recopyin"]
          /\ semp' = [semp EXCEPT ![p] = None] /\ err' = [err EXCEPT ![p] = ""]
          /\ UNCHANGED <<uap, i, sig, snap, stale>>
      BY <1>4 DEF semopAgain
    <2>2. cpu' \in {p, None} /\ nflt' \in 0 .. MaxFault
      BY <2>1, TypeGroups, copyinLemma
    <2>3. /\ pc'[p] = "recopyin"
          /\ \A q \in Proc : q # p => pc'[q] = pc[q] /\ semp'[q] = semp[q] /\ err'[q] = err[q]
      BY <2>1, TypeGroups DEF CallType
    <2>4. TypeOK'
      <3>1. CallType'
        <4>1. pc' \in [Proc -> Places]
          BY <2>1, TypeGroups DEF CallType, Places
        <4>2. semp' \in [Proc -> Chan \cup {None}] /\ err' \in [Proc -> Errors]
          BY <2>1, TypeGroups DEF CallType, Errors
        <4>3. QED
          BY <2>1, <2>2, <4>1, <4>2, TypeGroups DEF CallType
      <3>2. HistType'
        BY <1>1, <2>1, <2>2, TypeGroups DEF HistType
      <3>3. QED
        BY <1>2, <1>7, <3>1, <3>2, TypeGroupsPrime
    <2>5. CallOKOf(p)
      BY DEF CallOK
    <2>6. CallOKOf(p)'
      BY <1>1, <1>2, <2>1, <2>3, <2>5 DEF CallOKOf, Passing, semconv
    <2>7. WaitOKOf(p)'
      BY <1>1, <2>3 DEF WaitOKOf
    <2>8. ~Passing(p)'
      BY <2>3 DEF Passing
    <2>9. QED
      BY <1>1, <1>2, <2>1, <2>2, <2>3, <2>4, <2>6, <2>7, <2>8, MoveInv
  <1>5. QED
    BY <1>3, <1>4

LEMMA semopIntrInv ==
  ASSUME CallInv, NEW p \in Proc, semopIntr(p)
  PROVE  CallInv'
  <1> USE DEF CallInv
  <1>1. /\ cpu = None /\ pc[p] = "sleep" /\ wchan[p] = None
        /\ Uncount(semp[p], semcnt[semp[p]]) /\ Return(p)
        /\ UNCHANGED <<sema, semval, semmap, undo, nrm, nflt, net, strayed>>
    BY DEF semopIntr, Awake
  <1>2. semp[p] \in Chan
    BY <1>1 DEF WaitOK, WaitOKOf
  <1>3. semcnt[semp[p]] \in Nat
    BY <1>2, TypeGroups DEF ChanType
  <1>4. ChanType' /\ SleeperCounted' /\ \A q \in Proc : wchan'[q] \in {None, wchan[q]}
    BY <1>1, <1>2, <1>3, UncountLemma, TypeGroups
  <1>5. wchan'[p] = None
    BY <1>1, <1>4
  <1>6. SemaType' /\ (semval \in [SemNo -> Int])' /\ UndoType'
    BY <1>1, TypeGroups DEF SemaType, UndoType, undo
  <1>7. strayed \subseteq strayed' /\ strayed' \subseteq Proc /\ SemaKept
    BY <1>1, TypeGroups DEF HistType, SemaKept
  <1>8. QED
    BY <1>1, <1>4, <1>5, <1>6, <1>7, ReturnInv

LEMMA psignalInv ==
  ASSUME CallInv, NEW p \in Proc, psignal(p)
  PROVE  CallInv'
  <1> USE DEF CallInv
  <1>1. /\ sig' = sig \cup {p} /\ wchan' = [wchan EXCEPT ![p] = None]
        /\ UNCHANGED <<kern, undo, call, hist>>
    BY DEF psignal
  <1>2. ChanType' /\ SleeperCounted' /\ \A q \in Proc : wchan'[q] \in {None, wchan[q]}
    BY <1>1, TypeGroups DEF ChanType, SleeperCounted, kern
  <1>3. SemaType' /\ (semval \in [SemNo -> Int])' /\ UndoType'
    BY <1>1, TypeGroups DEF SemaType, UndoType, kern, undo
  <1>4. CallType' /\ HistType'
    BY <1>1, TypeGroups DEF CallType, HistType, call, hist
  <1>5. UNCHANGED <<sema, call, stale, strayed>>
    BY <1>1 DEF kern, hist
  <1>6. QED
    BY <1>2, <1>3, <1>4, <1>5, TypeGroupsPrime, QuietStep

-----------------------------------------------------------------------------
(* The theorems *)

LEMMA IndexType ==
  ASSUME CallInv, NEW p \in Proc
  PROVE  i[p] \in Nat \ {0} /\ Len(uap[p].ops) \in Nat
  BY TypeGroups, ListLength DEF CallType, CallInv

\* Steps that leave the loop indices alone, steps that set one to 1, and
\* steps of one process in a pass.
LEMMA IndexKept ==
  ASSUME IndexOK, UNCHANGED <<i, uap, pc>> PROVE IndexOK'
  BY DEF IndexOK, IndexOKOf

LEMMA IndexMove ==
  ASSUME CallInv, IndexOK, NEW p \in Proc, IndexOKOf(p)',
         \A q \in Proc : q # p => i'[q] = i[q] /\ uap'[q] = uap[q] /\ pc'[q] = pc[q]
  PROVE  IndexOK'
  BY DEF IndexOK, IndexOKOf

LEMMA IndexReturn ==
  ASSUME CallInv, IndexOK, NEW p \in Proc, Return(p) PROVE IndexOK'
  <1>1. /\ i' = [i EXCEPT ![p] = 1] /\ pc' = [pc EXCEPT ![p] = "user"]
        /\ uap' = [uap EXCEPT ![p] = NoCall]
    BY DEF Return
  <1>2. /\ i'[p] = 1 /\ uap'[p].ops = <<>>
        /\ \A q \in Proc : q # p => i'[q] = i[q] /\ uap'[q] = uap[q] /\ pc'[q] = pc[q]
    BY <1>1, TypeGroups DEF CallInv, CallType, NoCall
  <1>3. IndexOKOf(p)'
    BY <1>2 DEF IndexOKOf
  <1>4. QED
    BY <1>2, <1>3, IndexMove

LEMMA IndexEnter ==
  ASSUME CallInv, IndexOK, NEW p \in Proc, NEW at, NEW id, NEW ops \in OpLists \cup {<<>>},
         Enter(p, at, id, ops)
  PROVE  IndexOK'
  <1>1. /\ pc[p] = "user" /\ uap' = [uap EXCEPT ![p] = [id |-> id, ops |-> ops]]
        /\ i' = i /\ pc' = [pc EXCEPT ![p] = at]
    BY DEF Enter, MayCall
  <1>2. Len(ops) \in Nat
    <2>1. \A s \in OpLists : Len(s) \in Nat
      BY SemAssumption
    <2>2. Len(<<>>) \in Nat
      OBVIOUS
    <2>3. QED
      BY <2>1, <2>2
  <1>3. /\ uap'[p].ops = ops /\ i'[p] = 1
        /\ \A q \in Proc : q # p => i'[q] = i[q] /\ uap'[q] = uap[q] /\ pc'[q] = pc[q]
    BY <1>1, TypeGroups DEF CallInv, CallType, IndexOK, IndexOKOf
  <1>4. IndexOKOf(p)'
    BY <1>2, <1>3 DEF IndexOKOf
  <1>5. QED
    BY <1>3, <1>4, IndexMove

LEMMA IndexCheck ==
  ASSUME CallInv, IndexOK, NEW p \in Proc, Check(p), uap' = uap
  PROVE  IndexOK'
  <1>1. i' = [i EXCEPT ![p] = 1] /\ pc' = [pc EXCEPT ![p] = "op"]
    BY DEF Check
  <1>2. i'[p] = 1 /\ \A q \in Proc : q # p => i'[q] = i[q] /\ pc'[q] = pc[q]
    BY <1>1, TypeGroups DEF CallInv, CallType
  <1>3. IndexOKOf(p)'
    BY <1>2, IndexType DEF IndexOKOf
  <1>4. QED
    BY <1>2, <1>3, IndexMove

LEMMA IndexPass ==
  ASSUME CallInv, IndexOK, NEW p \in Proc, PassStep(p)
  PROVE  IndexOK'
  <1>1. CASE semopDo(p)
    <2>1. /\ i' = [i EXCEPT ![p] = @ + 1] /\ uap' = uap /\ pc' = pc
          /\ i[p] <= Len(uap[p].ops) /\ pc[p] = "op"
      BY <1>1 DEF semopDo, InOp
    <2>2. i'[p] = i[p] + 1 /\ \A q \in Proc : q # p => i'[q] = i[q]
      BY <2>1, TypeGroups DEF CallInv, CallType
    <2>3. IndexOKOf(p)'
      BY <2>1, <2>2, IndexType DEF IndexOKOf
    <2>4. QED
      BY <2>1, <2>2, <2>3, IndexMove
  <1>2. CASE semundo(p)
    <2>1. i' = [i EXCEPT ![p] = @ - 1] /\ uap' = uap /\ pc' = pc /\ pc[p] = "undo"
      BY <1>2 DEF semundo
    <2>2. i'[p] = i[p] - 1 /\ \A q \in Proc : q # p => i'[q] = i[q]
      BY <2>1, TypeGroups DEF CallInv, CallType
    <2>3. IndexOKOf(p)'
      BY <2>1, <2>2, IndexType DEF IndexOK, IndexOKOf
    <2>4. QED
      BY <2>1, <2>2, <2>3, IndexMove
  <1>3. ASSUME NEW at \in {"undo", "sleep"}, pc' = [pc EXCEPT ![p] = at], UNCHANGED <<i, uap>>
        PROVE  IndexOK'
    <2>1. pc'[p] = at /\ \A q \in Proc : q # p => pc'[q] = pc[q]
      BY <1>3, TypeGroups DEF CallInv, CallType
    <2>2. IndexOKOf(p)'
      BY <1>3, <2>1 DEF IndexOK, IndexOKOf
    <2>3. QED
      BY <1>3, <2>1, <2>2, IndexMove
  <1>4. CASE semopFail(p)
    BY <1>3, <1>4 DEF semopFail
  <1>5. CASE semopSleep(p)
    BY <1>3, <1>5, IndexReturn DEF semopSleep
  <1>6. CASE semopError(p) \/ semopDone(p)
    BY <1>6, IndexReturn DEF semopError, semopDone
  <1>7. QED
    BY <1>1, <1>2, <1>4, <1>5, <1>6 DEF PassStep

LEMMA IndexResume ==
  ASSUME CallInv, IndexOK, NEW p \in Proc, Resume(p)
  PROVE  IndexOK'
  <1>1. CASE semopAgain(p)
    <2>1. CASE Return(p)
      BY <2>1, IndexReturn
    <2>2. CASE ~Return(p)
      <3>1. pc' = [pc EXCEPT ![p] = "recopyin"] /\ UNCHANGED <<i, uap>>
        BY <1>1, <2>2 DEF semopAgain
      <3>2. pc'[p] = "recopyin" /\ \A q \in Proc : q # p => pc'[q] = pc[q]
        BY <3>1, TypeGroups DEF CallInv, CallType
      <3>3. IndexOKOf(p)'
        BY <3>1, <3>2 DEF IndexOK, IndexOKOf
      <3>4. QED
        BY <3>1, <3>2, <3>3, IndexMove
    <2>3. QED
      BY <2>1, <2>2
  <1>2. CASE semopCopied(p) \/ semopRecopied(p)
    BY <1>2, IndexReturn, IndexCheck DEF semopCopied, semopRecopied
  <1>3. CASE semopIntr(p) \/ semctlSetCopied(p)
    BY <1>3, IndexReturn DEF semopIntr, semctlSetCopied
  <1>4. ASSUME NEW vals, semctlSetallCopied(p, vals) PROVE IndexOK'
    BY <1>4, IndexReturn DEF semctlSetallCopied
  <1>5. QED
    BY <1>1, <1>2, <1>3, <1>4 DEF Resume

LEMMA IndexStep ==
  ASSUME CallInv, IndexOK, [Next]_vars
  PROVE  IndexOK'
  <1>1. ASSUME UNCHANGED call PROVE IndexOK'
    BY <1>1, IndexKept DEF call
  <1>2. ASSUME NEW p \in Proc, NEW id, semctlRmid(p, id) PROVE IndexOK'
    BY <1>1, <1>2, ZenonT(40) DEF semctlRmid
  <1>3. ASSUME NEW p \in Proc, NEW id, NEW num, NEW val, semctlSetval(p, id, num, val)
        PROVE  IndexOK'
    BY <1>1, <1>3, ZenonT(40) DEF semctlSetval
  <1>4. ASSUME NEW p \in Proc, semexit(p) \/ psignal(p) PROVE IndexOK'
    BY <1>1, <1>4, ZenonT(40) DEF semexit, psignal
  <1>5. ASSUME NEW p \in Proc, NEW key, NEW n, semget(p, key, n) PROVE IndexOK'
    BY <1>1, <1>5 DEF semget
  <1>6. ASSUME NEW p \in Proc, NEW id \in Id, semctlSetall(p, id) \/ semctlSet(p, id)
        PROVE IndexOK'
    BY <1>6, IndexEnter DEF semctlSetall, semctlSet
  <1>7. ASSUME NEW p \in Proc, NEW id \in Id, NEW ops \in OpLists, semop(p, id, ops)
        PROVE  IndexOK'
    BY <1>7, IndexEnter DEF semop
  <1>8. ASSUME NEW p \in Proc, Semctl(p) PROVE IndexOK'
    BY <1>2, <1>3, <1>6, <1>8 DEF Semctl
  <1>9. CASE UNCHANGED vars
    BY <1>1, <1>9 DEF vars
  <1>10. QED
    BY <1>4, <1>5, <1>7, <1>8, <1>9, IndexPass, IndexResume DEF Next

LEMMA CallStep ==
  ASSUME CallInv, IndexOK, [Next]_vars
  PROVE  CallInv'
  <1>1. ASSUME NEW p \in Proc, Semctl(p) PROVE CallInv'
    BY <1>1, semctlRmidInv, semctlSetvalInv, semctlSetallInv, semctlSetInv DEF Semctl
  <1>2. ASSUME NEW p \in Proc, PassStep(p) PROVE CallInv'
    BY <1>2, semopDoInv, semopFailInv, semundoInv, semopErrorInv, semopSleepInv,
       semopDoneInv DEF PassStep
  <1>3. ASSUME NEW p \in Proc, Resume(p) PROVE CallInv'
    BY <1>3, semopAgainInv, semopIntrInv, semopCopiedInv, semopRecopiedInv,
       semctlSetCopiedInv, semctlSetallCopiedInv DEF Resume
  <1>4. CASE UNCHANGED vars
    <2>1. UNCHANGED <<sema, call, stale, strayed>>
      BY <1>4 DEF vars, kern, hist
    <2>2. ChanType' /\ SleeperCounted' /\ \A q \in Proc : wchan'[q] \in {None, wchan[q]}
      BY <1>4, TypeGroups DEF CallInv, ChanType, SleeperCounted, vars, kern
    <2>3. TypeOK'
      BY <1>4 DEF CallInv, TypeOK, vars, kern, undo, call, hist
    <2>4. QED
      BY <2>1, <2>2, <2>3, QuietStep DEF CallInv
  <1>5. QED
    BY <1>1, <1>2, <1>3, <1>4, semgetInv, semexitInv, semopInv, psignalInv DEF Next

\* The inductive invariant holds throughout: what sleepers, counts, calls in
\* progress and sets of semaphores have to do with each other.
THEOREM SemInv == Spec => [](CallInv /\ IndexOK)
  <1>1. Init => CallInv /\ IndexOK
    <2>1. Init => IndexOK
      <3>1. Init => \A p \in Proc : i[p] = 1 /\ uap[p].ops = <<>>
        <4>1. Init => i = [p \in Proc |-> 1] /\ uap = [p \in Proc |-> NoCall]
          BY Zenon DEF Init
        <4>2. NoCall.ops = <<>>
          BY DEF NoCall
        <4>3. QED
          BY <4>1, <4>2
      <3>2. QED
        BY <3>1 DEF IndexOK, IndexOKOf
    <2>2. QED
      BY <2>1, InitInv
  <1>2. CallInv /\ IndexOK /\ [Next]_vars => (CallInv /\ IndexOK)'
    BY CallStep, IndexStep
  <1>3. QED
    BY <1>1, <1>2, PTL DEF Spec

\* No step of sem.c leaves the ranges of its variables: in particular no
\* pass of semop() takes an undo structure when there is none.
THEOREM TypeCorrect == Spec => []TypeOK
  <1>1. CallInv => TypeOK
    BY DEF CallInv
  <1>2. QED
    BY <1>1, SemInv, PTL

\* Whatever signals, removals and interrupted calls do to semncnt and semzcnt,
\* neither is 0 while a process sleeps on it, so that the guards in front of
\* wakeprocs() in sem.c never withhold a wakeup.
THEOREM SleepersCounted == Spec => []SleeperCounted
  <1>1. CallInv => SleeperCounted
    BY DEF CallInv
  <1>2. QED
    BY <1>1, SemInv, PTL

\* IPC_RMID leaves nobody asleep on a semaphore of the removed set but those
\* that had gone on with a removed set before.
THEOREM SleepersHaveSets == Spec => []SleeperHasSet
  <1>1. CallInv => SleeperHasSet
    <2> SUFFICES ASSUME CallInv, NEW p \in Proc, wchan[p] # None, p \notin strayed
                 PROVE  semconv(uap[p].id) /\ wchan[p][1] \in SemsOf(uap[p].id[2])
      BY DEF SleeperHasSet
    <2>1. CallOKOf(p) /\ WaitOKOf(p)
      BY DEF CallInv, CallOK, WaitOK
    <2>2. p \notin stale /\ pc[p] = "sleep" /\ wchan[p] = semp[p]
      BY <2>1 DEF WaitOKOf
    <2>3. QED
      BY <2>1, <2>2 DEF CallOKOf, WaitOKOf
  <1>2. QED
    BY <1>1, SemInv, PTL

\* The sequence number of a slot is at most the number of removals, and a
\* removed semid has one that is in the past, or that a wrap brought back.
RemovedInv ==
  /\ \A s \in Slot : sema[s].seq <= nrm
  /\ \A p \in stale :
       \/ uap[p].id[1] < sema[uap[p].id[2]].seq
       \/ IdValue(<<nrm, uap[p].id[2]>>) > ID_MAX

\* Steps that remove no set.
KeepsIds ==
  /\ \A s \in Slot : sema'[s].seq = sema[s].seq
  /\ nrm' = nrm
  /\ stale' \subseteq stale
  /\ \A q \in stale' : uap'[q] = uap[q]

LEMMA KeptRemoved ==
  ASSUME CallInv, RemovedInv, KeepsIds PROVE RemovedInv'
  <1>1. \A q \in stale : uap[q].id[2] \in Slot
    BY TypeGroups DEF CallInv, CallType, HistType, Id
  <1>2. QED
    BY <1>1 DEF RemovedInv, KeepsIds, IdValue

LEMMA ReturnKeeps ==
  ASSUME CallInv, NEW p \in Proc, Return(p), nrm' = nrm, SemaKept PROVE KeepsIds
  <1>1. stale' = stale \ {p} /\ \A q \in Proc : q # p => uap'[q] = uap[q]
    BY TypeGroups DEF Return, CallInv, CallType
  <1>2. stale \subseteq Proc
    BY TypeGroups DEF CallInv, HistType
  <1>3. QED
    BY <1>1, <1>2 DEF KeepsIds, SemaKept

LEMMA EnterKeeps ==
  ASSUME CallInv, NEW p \in Proc, NEW at, NEW id, NEW ops, Enter(p, at, id, ops)
  PROVE  KeepsIds
  <1>1. /\ pc[p] = "user" /\ stale' = stale /\ nrm' = nrm /\ sema' = sema
        /\ \A q \in Proc : q # p => uap'[q] = uap[q]
    BY TypeGroups DEF Enter, MayCall, kern, CallInv, CallType
  <1>2. stale \subseteq Proc /\ p \notin stale
    BY <1>1, TypeGroups DEF CallInv, HistType, CallOK, CallOKOf
  <1>3. QED
    BY <1>1, <1>2 DEF KeepsIds

LEMMA PassKeeps ==
  ASSUME CallInv, NEW p \in Proc, PassStep(p) PROVE KeepsIds
  <1>1. ASSUME UNCHANGED <<sema, nrm, stale, uap>> PROVE KeepsIds
    BY <1>1 DEF KeepsIds
  <1>2. CASE semopDo(p)
    BY <1>1, <1>2, ZenonT(30) DEF semopDo
  <1>3. CASE semopFail(p)
    BY <1>1, <1>3, ZenonT(30) DEF semopFail, kern, hist
  <1>4. CASE semundo(p)
    BY <1>1, <1>4, ZenonT(30) DEF semundo
  <1>5. ASSUME Return(p), nrm' = nrm, sema' = sema PROVE KeepsIds
    BY <1>5, ReturnKeeps DEF SemaKept
  <1>6. CASE semopError(p) \/ semopDone(p)
    BY <1>5, <1>6 DEF semopError, semopDone, kern
  <1>7. CASE semopSleep(p)
    BY <1>1, <1>5, <1>7 DEF semopSleep
  <1>8. QED
    BY <1>2, <1>3, <1>4, <1>6, <1>7 DEF PassStep

LEMMA ResumeKeeps ==
  ASSUME CallInv, NEW p \in Proc, Resume(p) PROVE KeepsIds
  <1>1. ASSUME UNCHANGED <<sema, nrm, stale, uap>> PROVE KeepsIds
    BY <1>1 DEF KeepsIds
  <1>2. ASSUME Return(p), nrm' = nrm, sema' = sema PROVE KeepsIds
    BY <1>2, ReturnKeeps DEF SemaKept
  <1>3. CASE semopAgain(p)
    BY <1>1, <1>2, <1>3 DEF semopAgain, kern
  <1>4. CASE semopCopied(p) \/ semopRecopied(p)
    BY <1>1, <1>2, <1>4 DEF semopCopied, semopRecopied, kern
  <1>5. CASE semopIntr(p)
    BY <1>2, <1>5 DEF semopIntr
  <1>6. ASSUME NEW vals, semctlSetallCopied(p, vals) PROVE KeepsIds
    BY <1>2, <1>6 DEF semctlSetallCopied
  <1>7. CASE semctlSetCopied(p)
    <2>1. Return(p) /\ nrm' = nrm
      BY <1>7 DEF semctlSetCopied
    <2>2. \A s \in Slot : sema'[s].seq = sema[s].seq
      BY <1>7, semctlSetCopiedSema DEF SemaKept
    <2>3. stale' = stale \ {p} /\ \A q \in Proc : q # p => uap'[q] = uap[q]
      BY <2>1, TypeGroups DEF Return, CallInv, CallType
    <2>4. stale \subseteq Proc
      BY TypeGroups DEF CallInv, HistType
    <2>5. QED
      BY <2>1, <2>2, <2>3, <2>4 DEF KeepsIds
  <1>8. QED
    BY <1>3, <1>4, <1>5, <1>6, <1>7 DEF Resume

LEMMA RmidRemoved ==
  ASSUME CallInv, RemovedInv, NEW p \in Proc, NEW id \in Id, semctlRmid(p, id)
  PROVE  RemovedInv'
  <1> DEFINE slot == id[2]
  <1>1. /\ semconv(id) /\ nrm' = nrm + 1 /\ uap' = uap
        /\ stale' = stale \cup {q \in Proc : pc[q] # "user" /\ uap[q].id = id}
        /\ sema' = [sema EXCEPT ![slot] = [alloc |-> FALSE, seq |-> NextSeq(id), key |-> @.key,
                                           base |-> @.base, nsems |-> @.nsems]]
    BY DEF semctlRmid, call
  <1>2. /\ slot \in Slot /\ slot \in Nat /\ id[1] \in Nat /\ sema[slot].seq = id[1]
        /\ nrm \in Nat /\ stale \subseteq Proc
    BY <1>1, TypeGroups, ConstLemma DEF Id, Slot, semconv, CallInv, HistType
  <1>3. /\ sema'[slot].seq = NextSeq(id)
        /\ \A t \in Slot : t # slot => sema'[t].seq = sema[t].seq
    BY <1>1, <1>2, TypeGroups DEF CallInv, SemaType
  <1>4. \A t \in Slot : sema[t].seq \in Nat /\ t \in Nat
    BY TypeGroups, ConstLemma DEF CallInv, SemaType, Slot
  <1>5. id[1] <= nrm
    BY <1>2 DEF RemovedInv
  <1>6. \A s \in Slot : sema'[s].seq <= nrm'
    <2>1. NextSeq(id) <= nrm + 1
      BY <1>2, <1>5 DEF NextSeq
    <2>2. QED
      BY <1>1, <1>2, <1>3, <1>4, <2>1 DEF RemovedInv
  <1>7. ASSUME NEW q \in stale'
        PROVE  \/ uap'[q].id[1] < sema'[uap'[q].id[2]].seq
               \/ IdValue(<<nrm', uap'[q].id[2]>>) > ID_MAX
    <2> DEFINE qs == uap[q].id[2]
    <2>1. q \in Proc /\ uap[q].id \in Id /\ uap'[q] = uap[q]
      BY <1>1, <1>2, TypeGroups DEF CallInv, CallType
    <2>2. qs \in Slot /\ qs \in Nat /\ uap[q].id[1] \in Nat
      BY <2>1, <1>4, ConstLemma DEF Id
    <2>3. IdValue(<<nrm', qs>>) = IdValue(<<nrm, qs>>) + SEMMNI
      <3>1. (nrm + 1) * SEMMNI + qs = nrm * SEMMNI + qs + SEMMNI
        BY <1>2, <2>2, ConstLemma
      <3>2. QED
        BY <1>1, <3>1 DEF IdValue
    <2>4. CASE q \in stale /\ IdValue(<<nrm, qs>>) > ID_MAX
      <3>1. IdValue(<<nrm, qs>>) \in Nat
        BY <1>2, <2>2, ConstLemma DEF IdValue
      <3>2. QED
        BY <2>1, <2>3, <2>4, <3>1, ConstLemma
    <2>5. CASE q \in stale /\ uap[q].id[1] < sema[qs].seq /\ qs # slot
      BY <1>3, <2>1, <2>2, <2>5
    <2>6. CASE qs = slot /\ uap[q].id[1] <= id[1]
      <3>1. CASE IdValue(id) + SEMMNI > ID_MAX
        <4>1. id[1] * SEMMNI <= nrm * SEMMNI
          BY <1>2, <1>5, ConstLemma, ProductLemma
        <4>2. IdValue(id) <= IdValue(<<nrm, qs>>)
          BY <1>2, <2>6, <4>1, ConstLemma DEF IdValue
        <4>3. IdValue(id) \in Nat /\ IdValue(<<nrm, qs>>) \in Nat
          BY <1>2, <2>2, ConstLemma DEF IdValue
        <4>4. IdValue(<<nrm', qs>>) > ID_MAX
          BY <2>3, <3>1, <4>2, <4>3, ConstLemma
        <4>5. QED
          BY <2>1, <4>4
      <3>2. CASE ~(IdValue(id) + SEMMNI > ID_MAX)
        <4>1. NextSeq(id) = id[1] + 1
          BY <3>2 DEF NextSeq
        <4>2. QED
          BY <1>2, <1>3, <2>1, <2>2, <2>6, <4>1
      <3>3. QED
        BY <3>1, <3>2
    <2>7. CASE q \notin stale
      <3>1. uap[q].id = id
        BY <1>1, <2>7
      <3>2. QED
        BY <1>2, <2>6, <3>1
    <2>8. QED
      BY <1>2, <1>4, <2>2, <2>4, <2>5, <2>6, <2>7 DEF RemovedInv
  <1>8. QED
    BY <1>6, <1>7 DEF RemovedInv

LEMMA RemovedStep ==
  ASSUME CallInv, RemovedInv, [Next]_vars PROVE RemovedInv'
  <1>1. ASSUME UNCHANGED <<sema, nrm, stale, uap>> PROVE RemovedInv'
    BY <1>1, KeptRemoved DEF KeepsIds
  <1>2. ASSUME NEW p \in Proc, NEW id \in Id, NEW num, NEW val, semctlSetval(p, id, num, val)
        PROVE  RemovedInv'
    BY <1>1, <1>2, ZenonT(40) DEF semctlSetval, call
  <1>3. ASSUME NEW p \in Proc, semexit(p) PROVE RemovedInv'
    BY <1>1, <1>3, ZenonT(40) DEF semexit, call
  <1>4. ASSUME NEW p \in Proc, psignal(p) PROVE RemovedInv'
    BY <1>1, <1>4, ZenonT(40) DEF psignal, kern, call, hist
  <1>5. ASSUME NEW p \in Proc, NEW id \in Id, semctlSetall(p, id) \/ semctlSet(p, id)
        PROVE RemovedInv'
    BY <1>5, EnterKeeps, KeptRemoved DEF semctlSetall, semctlSet
  <1>6. ASSUME NEW p \in Proc, NEW id \in Id, NEW ops \in OpLists, semop(p, id, ops)
        PROVE  RemovedInv'
    BY <1>6, EnterKeeps, KeptRemoved DEF semop
  <1>7. ASSUME NEW p \in Proc, NEW key \in Keys \cup {None}, NEW n \in SetSizes, semget(p, key, n)
        PROVE  RemovedInv'
    <2>1. PICK s \in Slot, a \in SemNo :
            sema' = [sema EXCEPT ![s] =
                       [alloc |-> TRUE, seq |-> @.seq, key |-> key, base |-> a, nsems |-> n]]
      BY <1>7 DEF semget
    <2>2. \A t \in Slot : sema'[t].seq = sema[t].seq
      BY <2>1, TypeGroups DEF CallInv, SemaType
    <2>3. UNCHANGED <<nrm, stale, uap>>
      BY <1>7 DEF semget, call, hist
    <2>4. QED
      BY <2>2, <2>3, KeptRemoved DEF KeepsIds
  <1>8. ASSUME NEW p \in Proc, Semctl(p) PROVE RemovedInv'
    BY <1>2, <1>5, <1>8, RmidRemoved DEF Semctl
  <1>9. ASSUME NEW p \in Proc, PassStep(p) \/ Resume(p) PROVE RemovedInv'
    BY <1>9, PassKeeps, ResumeKeeps, KeptRemoved
  <1>10. CASE UNCHANGED vars
    BY <1>1, <1>10 DEF vars, kern, call, hist
  <1>11. QED
    BY <1>3, <1>4, <1>6, <1>7, <1>8, <1>9, <1>10 DEF Next

\* A semid that IPC_RMID made invalid under a call stays invalid until enough
\* sets were removed to wrap a sequence number, for any ID_MAX and any number
\* of slots.
THEOREM RemovedIdsInvalid == Spec => []RemovedIdInvalid
  <1>1. Init => RemovedInv
    <2>1. Init => \A s \in Slot : sema[s].seq = 0
      <3>1. Init => sema = [s \in Slot |-> [alloc |-> FALSE, seq |-> 0, key |-> None,
                                            base |-> 1, nsems |-> 0]]
        BY Zenon DEF Init
      <3>2. QED
        BY <3>1
    <2>2. Init => nrm = 0 /\ stale = {}
      BY Zenon DEF Init
    <2>3. QED
      BY <2>1, <2>2 DEF RemovedInv
  <1>2. CallInv /\ RemovedInv /\ [Next]_vars => RemovedInv'
    BY RemovedStep
  <1>3. CallInv /\ RemovedInv => RemovedIdInvalid
    <2> SUFFICES ASSUME CallInv, RemovedInv, NEW p \in stale, semconv(uap[p].id)
                 PROVE  IdValue(<<nrm, uap[p].id[2]>>) > ID_MAX
      BY DEF RemovedIdInvalid
    <2>1. uap[p].id[1] = sema[uap[p].id[2]].seq
      BY DEF semconv
    <2>2. uap[p].id \in Id
      BY TypeGroups DEF CallInv, HistType, CallType
    <2>3. uap[p].id[1] \in Nat
      BY <2>2, ConstLemma DEF Id
    <2>4. QED
      BY <2>1, <2>3 DEF RemovedInv
  <1>4. QED
    BY <1>1, <1>2, <1>3, SemInv, PTL DEF Spec


-----------------------------------------------------------------------------
(* The undo structures *)

\* No entry exceeds the limits that semaoe() checks, also after semundo().
EntriesBounded ==
  \A p \in Proc :
    /\ Cardinality(Entries(aoe[p])) <= SEMUME
    /\ \A k \in Ent : Abs(aoe[p][k]) <= SEMAEM

UndoInv == UndoChainExact /\ EntriesBounded

LEMMA EntFinite == IsFiniteSet(Ent)
  <1>1. IsFiniteSet(0 .. SEQ_MAX) /\ IsFiniteSet(Slot) /\ IsFiniteSet(Num)
    BY FS_Interval, ConstLemma DEF Slot, Num
  <1>2. IsFiniteSet(Id)
    BY <1>1, FS_Product DEF Id
  <1>3. QED
    BY <1>1, <1>2, FS_Product DEF Ent

LEMMA EntriesFinite ==
  ASSUME NEW f
  PROVE  IsFiniteSet(Entries(f)) /\ Cardinality(Entries(f)) \in Nat
  <1>1. Entries(f) \subseteq Ent
    BY DEF Entries
  <1>2. IsFiniteSet(Entries(f))
    BY <1>1, EntFinite, FS_Subset
  <1>3. QED
    BY <1>2, FS_CardinalityType

\* What semaoe() does to the entries: nothing, or it changes one of them.
LEMMA semaoeEffect ==
  ASSUME NEW p \in Proc, NEW val \in Int, NEW k \in Ent, semaoe(p, val, k), UndoType
  PROVE  /\ semaoeError(p, val, k) # "" \/ val = 0 => aoe' = aoe /\ semunp' = semunp
         /\ semaoeError(p, val, k) = "" /\ val # 0 =>
              /\ \A q \in Proc : q # p => aoe'[q] = aoe[q]
              /\ \A l \in Ent : l # k => aoe'[p][l] = aoe[p][l]
              /\ aoe'[p][k] = aoe[p][k] - val
              /\ semunp' = IF Entries(aoe'[p]) = {} THEN semunp \ {p} ELSE semunp \cup {p}
              /\ p \in sem_undo'
              /\ aoe[p][k] # 0 \/ Cardinality(Entries(aoe[p])) < SEMUME
              /\ Abs(aoe'[p][k]) <= SEMAEM
              /\ Abs(val) <= SEMAEM
         /\ \/ sem_undo' = sem_undo /\ semfup' = semfup
            \/ /\ p \notin sem_undo /\ semfup > 0
               /\ sem_undo' = sem_undo \cup {p} /\ semfup' = semfup - 1
  <1> DEFINE new == [aoe[p] EXCEPT ![k] = @ - val]
  <1>1. /\ sem_undo' = IF TakesUndo(p, val) THEN sem_undo \cup {p} ELSE sem_undo
        /\ semfup' = IF TakesUndo(p, val) THEN semfup - 1 ELSE semfup
        /\ aoe' = IF semaoeError(p, val, k) = "" /\ val # 0 THEN [aoe EXCEPT ![p] = new] ELSE aoe
        /\ semunp' = IF ~(semaoeError(p, val, k) = "") \/ val = 0 THEN semunp
                     ELSE IF Entries(new) = {} THEN semunp \ {p} ELSE semunp \cup {p}
    BY DEF semaoe
  <1>2. \/ sem_undo' = sem_undo /\ semfup' = semfup
        \/ /\ p \notin sem_undo /\ semfup > 0
           /\ sem_undo' = sem_undo \cup {p} /\ semfup' = semfup - 1
    BY <1>1 DEF TakesUndo
  <1>3. semaoeError(p, val, k) # "" \/ val = 0 => aoe' = aoe /\ semunp' = semunp
    BY <1>1
  <1>4. ASSUME semaoeError(p, val, k) = "", val # 0
        PROVE  /\ \A q \in Proc : q # p => aoe'[q] = aoe[q]
               /\ \A l \in Ent : l # k => aoe'[p][l] = aoe[p][l]
               /\ aoe'[p][k] = aoe[p][k] - val
               /\ semunp' = IF Entries(aoe'[p]) = {} THEN semunp \ {p} ELSE semunp \cup {p}
               /\ p \in sem_undo'
               /\ aoe[p][k] # 0 \/ Cardinality(Entries(aoe[p])) < SEMUME
               /\ Abs(aoe'[p][k]) <= SEMAEM
               /\ Abs(val) <= SEMAEM
    <2>1. aoe' = [aoe EXCEPT ![p] = new]
      BY <1>1, <1>4
    <2>2. aoe'[p] = new /\ \A q \in Proc : q # p => aoe'[q] = aoe[q]
      BY <2>1 DEF UndoType
    <2>3. /\ \A l \in Ent : l # k => aoe'[p][l] = aoe[p][l]
          /\ aoe'[p][k] = aoe[p][k] - val
      BY <2>2 DEF UndoType
    <2>4. semunp' = IF Entries(aoe'[p]) = {} THEN semunp \ {p} ELSE semunp \cup {p}
      BY <1>1, <1>4, <2>2
    <2>5. aoe[p][k] \in Int /\ Cardinality(Entries(aoe[p])) \in Nat
      BY EntriesFinite DEF UndoType
    <2>6. /\ ~(Abs(val) > SEMAEM) /\ ~(p \notin sem_undo /\ semfup = 0)
          /\ ~(aoe[p][k] = 0 /\ Cardinality(Entries(aoe[p])) >= SEMUME)
          /\ ~(Abs(aoe[p][k] - val) > SEMAEM)
      BY <1>4 DEF semaoeError
    <2>7. Abs(val) \in Int /\ Abs(aoe[p][k] - val) \in Int
      BY <2>5 DEF Abs
    <2>8. Abs(val) <= SEMAEM /\ Abs(aoe'[p][k]) <= SEMAEM
      BY <2>3, <2>6, <2>7, ConstLemma
    <2>9. p \in sem_undo'
      <3>1. CASE p \in sem_undo
        BY <1>1, <3>1
      <3>2. CASE p \notin sem_undo
        <4>1. semfup > 0
          BY <2>6, <3>2 DEF UndoType
        <4>2. TakesUndo(p, val)
          BY <1>4, <2>8, <3>2, <4>1 DEF TakesUndo
        <4>3. QED
          BY <1>1, <4>2
      <3>3. QED
        BY <3>1, <3>2
    <2>10. aoe[p][k] # 0 \/ Cardinality(Entries(aoe[p])) < SEMUME
      BY <2>5, <2>6, ConstLemma
    <2>11. QED
      BY <2>2, <2>3, <2>4, <2>8, <2>9, <2>10
  <1>5. QED
    BY <1>2, <1>3, <1>4

\* Taking a structure from the free list.
LEMMA TakeOne ==
  ASSUME NEW p \in Proc, UndoType, semfup + Cardinality(sem_undo) = SEMMNU,
         \/ sem_undo' = sem_undo /\ semfup' = semfup
         \/ /\ p \notin sem_undo /\ semfup > 0
            /\ sem_undo' = sem_undo \cup {p} /\ semfup' = semfup - 1
  PROVE  (semfup + Cardinality(sem_undo) = SEMMNU)'
  <1>1. IsFiniteSet(sem_undo)
    BY SemAssumption, FS_Subset DEF UndoType
  <1>2. Cardinality(sem_undo) \in Nat
    BY <1>1, FS_CardinalityType
  <1>3. p \notin sem_undo => Cardinality(sem_undo \cup {p}) = Cardinality(sem_undo) + 1
    BY <1>1, FS_AddElement
  <1>4. semfup \in Nat /\ SEMMNU \in Nat
    BY ConstLemma DEF UndoType
  <1>5. CASE sem_undo' = sem_undo /\ semfup' = semfup
    BY <1>5
  <1>6. CASE /\ p \notin sem_undo /\ semfup > 0
             /\ sem_undo' = sem_undo \cup {p} /\ semfup' = semfup - 1
    <2>1. Cardinality(sem_undo') = Cardinality(sem_undo) + 1
      BY <1>3, <1>6
    <2>2. QED
      BY <1>2, <1>4, <1>6, <2>1
  <1>7. QED
    BY <1>5, <1>6

LEMMA semaoeUndo ==
  ASSUME NEW p \in Proc, NEW val \in Int, NEW k \in Ent, semaoe(p, val, k), UndoType, UndoInv
  PROVE  UndoInv'
  <1> DEFINE ok == semaoeError(p, val, k) = "" /\ val # 0
  <1>1. (semfup + Cardinality(sem_undo) = SEMMNU)'
    BY semaoeEffect, TakeOne DEF UndoInv, UndoChainExact
  <1>2. sem_undo \subseteq sem_undo'
    BY semaoeEffect
  <1>3. CASE ~ok
    <2>1. aoe' = aoe /\ semunp' = semunp
      BY <1>3, semaoeEffect
    <2>2. QED
      BY <1>1, <1>2, <2>1 DEF UndoInv, UndoChainExact, EntriesBounded
  <1>4. CASE ok
    <2>1. /\ \A q \in Proc : q # p => aoe'[q] = aoe[q]
          /\ \A l \in Ent : l # k => aoe'[p][l] = aoe[p][l]
          /\ semunp' = IF Entries(aoe'[p]) = {} THEN semunp \ {p} ELSE semunp \cup {p}
          /\ p \in sem_undo'
          /\ aoe[p][k] # 0 \/ Cardinality(Entries(aoe[p])) < SEMUME
          /\ Abs(aoe'[p][k]) <= SEMAEM
      BY <1>4, semaoeEffect
    <2>2. UndoChainExact'
      <3>1. semunp' = {q \in Proc : Entries(aoe'[q]) # {}}
        BY <2>1 DEF UndoInv, UndoChainExact
      <3>2. semunp' \subseteq sem_undo'
        BY <1>2, <2>1 DEF UndoInv, UndoChainExact
      <3>3. QED
        BY <1>1, <3>1, <3>2 DEF UndoChainExact
    <2>3. Cardinality(Entries(aoe'[p])) <= SEMUME
      <3>1. IsFiniteSet(Entries(aoe[p])) /\ Cardinality(Entries(aoe[p])) \in Nat
        BY EntriesFinite
      <3>2. Cardinality(Entries(aoe[p])) <= SEMUME
        BY DEF UndoInv, EntriesBounded
      <3>3. CASE aoe[p][k] # 0
        <4>1. Entries(aoe'[p]) \subseteq Entries(aoe[p])
          BY <2>1, <3>3 DEF Entries
        <4>2. Cardinality(Entries(aoe'[p])) <= Cardinality(Entries(aoe[p]))
          BY <3>1, <4>1, FS_Subset
        <4>3. QED
          BY <3>1, <3>2, <4>2, EntriesFinite, ConstLemma
      <3>4. CASE Cardinality(Entries(aoe[p])) < SEMUME
        <4>1. Entries(aoe'[p]) \subseteq Entries(aoe[p]) \cup {k}
          BY <2>1 DEF Entries
        <4>2. /\ IsFiniteSet(Entries(aoe[p]) \cup {k})
              /\ Cardinality(Entries(aoe[p]) \cup {k}) \in Nat
              /\ Cardinality(Entries(aoe[p]) \cup {k}) <= Cardinality(Entries(aoe[p])) + 1
          <5>1. /\ IsFiniteSet(Entries(aoe[p]) \cup {k})
                /\ \/ Cardinality(Entries(aoe[p]) \cup {k}) = Cardinality(Entries(aoe[p]))
                   \/ Cardinality(Entries(aoe[p]) \cup {k}) = Cardinality(Entries(aoe[p])) + 1
            BY <3>1, FS_AddElement
          <5>2. QED
            BY <3>1, <5>1
        <4>3. Cardinality(Entries(aoe'[p])) <= Cardinality(Entries(aoe[p]) \cup {k})
          BY <4>1, <4>2, FS_Subset
        <4>4. QED
          BY <3>1, <3>4, <4>2, <4>3, EntriesFinite, ConstLemma
      <3>5. QED
        BY <2>1, <3>3, <3>4
    <2>4. EntriesBounded'
      BY <2>1, <2>3 DEF UndoInv, EntriesBounded
    <2>5. QED
      BY <2>2, <2>4 DEF UndoInv
  <1>5. QED
    BY <1>3, <1>4

LEMMA semunrmUndo ==
  ASSUME NEW id, NEW nums, semunrm(id, nums), UndoType, UndoInv
  PROVE  UndoInv'
  <1>1. /\ \A p \in Proc, k \in Ent : aoe'[p][k] \in {0, aoe[p][k]}
        /\ \A p \in Proc, k \in Ent : p \notin semunp => aoe'[p][k] = aoe[p][k]
        /\ semunp' = {p \in semunp : Entries(aoe'[p]) # {}}
        /\ UNCHANGED <<sem_undo, semfup>>
    BY DEF semunrm
  <1>2. UndoChainExact'
    <2>1. ASSUME NEW p \in Proc, Entries(aoe'[p]) # {} PROVE p \in semunp
      BY <1>1, <2>1 DEF UndoInv, UndoChainExact, Entries
    <2>2. semunp' = {p \in Proc : Entries(aoe'[p]) # {}}
      BY <1>1, <2>1 DEF UndoType
    <2>3. QED
      BY <1>1, <2>2 DEF UndoInv, UndoChainExact
  <1>3. ASSUME NEW p \in Proc
        PROVE  /\ Cardinality(Entries(aoe'[p])) <= SEMUME
               /\ \A k \in Ent : Abs(aoe'[p][k]) <= SEMAEM
    <2>1. Entries(aoe'[p]) \subseteq Entries(aoe[p])
      BY <1>1 DEF Entries
    <2>2. Cardinality(Entries(aoe'[p])) <= Cardinality(Entries(aoe[p]))
      BY <2>1, EntriesFinite, FS_Subset
    <2>3. Cardinality(Entries(aoe'[p])) <= SEMUME
      BY <2>2, EntriesFinite, ConstLemma DEF UndoInv, EntriesBounded
    <2>4. Abs(0) <= SEMAEM
      BY ConstLemma DEF Abs
    <2>5. QED
      BY <1>1, <2>3, <2>4 DEF UndoInv, EntriesBounded
  <1>4. QED
    BY <1>2, <1>3 DEF UndoInv, EntriesBounded

LEMMA semexitUndo ==
  ASSUME NEW p \in Proc, semexit(p), UndoType, UndoInv
  PROVE  UndoInv'
  <1>1. /\ p \in sem_undo
        /\ aoe' = [aoe EXCEPT ![p] = [k \in Ent |-> 0]]
        /\ semunp' = semunp \ {p}
        /\ semfup' = semfup + 1
        /\ sem_undo' = sem_undo \ {p}
    BY DEF semexit
  <1>2. aoe'[p] = [k \in Ent |-> 0] /\ \A q \in Proc : q # p => aoe'[q] = aoe[q]
    BY <1>1 DEF UndoType
  <1>3. Entries(aoe'[p]) = {}
    BY <1>2 DEF Entries
  <1>4. UndoChainExact'
    <2>1. IsFiniteSet(sem_undo)
      BY SemAssumption, FS_Subset DEF UndoType
    <2>2. Cardinality(sem_undo \ {p}) = Cardinality(sem_undo) - 1 /\ Cardinality(sem_undo) \in Nat
      BY <1>1, <2>1, FS_RemoveElement, FS_CardinalityType
    <2>3. semfup' + Cardinality(sem_undo') = SEMMNU
      BY <1>1, <2>2 DEF UndoType, UndoInv, UndoChainExact
    <2>4. semunp' = {q \in Proc : Entries(aoe'[q]) # {}} /\ semunp' \subseteq sem_undo'
      BY <1>1, <1>2, <1>3 DEF UndoInv, UndoChainExact
    <2>5. QED
      BY <2>3, <2>4 DEF UndoChainExact
  <1>5. Cardinality(Entries(aoe'[p])) <= SEMUME
    BY <1>3, FS_EmptySet, ConstLemma
  <1>6. \A k \in Ent : Abs(aoe'[p][k]) <= SEMAEM
    BY <1>2, ConstLemma DEF Abs
  <1>7. EntriesBounded'
    BY <1>2, <1>5, <1>6 DEF UndoInv, EntriesBounded
  <1>8. QED
    BY <1>4, <1>7 DEF UndoInv

\* An operation of a pass: it is on a semaphore of the pool.
OpIn(p, o) ==
  /\ o \in Sembuf /\ o.op \in Int /\ -o.op \in Int /\ o.num \in Nat
  /\ SemAt(p, o.num) \in SemNo
  /\ <<uap[p].id, o.num>> \in Ent
  /\ uap[p].id \in Id /\ uap[p].id[2] \in Slot

\* An operation on a semaphore of a set that exists.
OpOK(p, o) ==
  /\ OpIn(p, o)
  /\ semconv(uap[p].id)
  /\ o.num < sema[uap[p].id[2]].nsems
  /\ SemAt(p, o.num) \in SemsOf(uap[p].id[2])

\* One of the two, or the process has strayed.
OpFair(p, o) == OpIn(p, o) /\ (p \in stale => p \in strayed) /\ (p \notin stale => OpOK(p, o))

LEMMA OpOKLemma ==
  ASSUME CallInv, NEW p \in Proc, Passing(p), NEW j \in 1 .. Len(uap[p].ops)
  PROVE  OpFair(p, uap[p].ops[j])
  <1>1. /\ uap[p].ops[j] \in Sembuf
        /\ SemAt(p, uap[p].ops[j].num) \in SemNo
        /\ <<uap[p].id, uap[p].ops[j].num>> \in Ent
        /\ p \notin stale =>
             /\ semconv(uap[p].id)
             /\ uap[p].ops[j].num < sema[uap[p].id[2]].nsems
             /\ SemAt(p, uap[p].ops[j].num) \in SemsOf(uap[p].id[2])
    BY InPass
  <1>2. uap[p].id \in Id /\ uap[p].id[2] \in Slot
    BY TypeGroups DEF CallInv, CallType, Id
  <1>3. p \in stale => p \in strayed
    BY DEF CallInv, CallOK, CallOKOf
  <1>4. uap[p].ops[j].op \in Int /\ -uap[p].ops[j].op \in Int /\ uap[p].ops[j].num \in Nat
    BY <1>1 DEF Sembuf
  <1>5. OpIn(p, uap[p].ops[j])
    BY <1>1, <1>2, <1>4 DEF OpIn
  <1>6. QED
    BY <1>1, <1>3, <1>5 DEF OpOK, OpFair

LEMMA CurrentOp ==
  ASSUME CallInv, NEW p \in Proc, InOp(p)
  PROVE  i[p] \in 1 .. Len(uap[p].ops) /\ OpFair(p, Op(p))
  <1>1. i[p] \in 1 .. Len(uap[p].ops)
    BY IndexType DEF InOp
  <1>2. QED
    BY <1>1, OpOKLemma DEF InOp, Op, Passing

LEMMA LastOp ==
  ASSUME CallInv, IndexOK, NEW p \in Proc, Passing(p), i[p] > 1
  PROVE  i[p] - 1 \in 1 .. Len(uap[p].ops) /\ OpFair(p, uap[p].ops[i[p] - 1])
  <1>1. i[p] - 1 \in 1 .. Len(uap[p].ops)
    BY IndexType DEF IndexOK, IndexOKOf
  <1>2. QED
    BY <1>1, OpOKLemma

LEMMA UndoStep ==
  ASSUME CallInv, IndexOK, UndoInv, [Next]_vars
  PROVE  UndoInv'
  <1>1. UndoType
    BY TypeGroups DEF CallInv
  <1>2. ASSUME UNCHANGED undo PROVE UndoInv'
    BY <1>2 DEF undo, UndoInv, UndoChainExact, EntriesBounded
  <1>3. ASSUME NEW p \in Proc, Semctl(p) PROVE UndoInv'
    <2>1. ASSUME NEW id, NEW nums, semunrm(id, nums) PROVE UndoInv'
      BY <1>1, <2>1, semunrmUndo
    <2>2. ASSUME NEW id, semctlRmid(p, id) PROVE UndoInv'
      BY <2>1, <2>2, Zenon DEF semctlRmid
    <2>3. ASSUME NEW id, NEW num, NEW val, semctlSetval(p, id, num, val) PROVE UndoInv'
      BY <2>1, <2>3, Zenon DEF semctlSetval
    <2>4. ASSUME NEW id, semctlSetall(p, id) \/ semctlSet(p, id) PROVE UndoInv'
      BY <1>2, <2>4 DEF semctlSetall, semctlSet, Enter
    <2>5. QED
      BY <1>3, <2>2, <2>3, <2>4 DEF Semctl
  <1>4. ASSUME NEW p \in Proc, semopDo(p) PROVE UndoInv'
    <2>1. InOp(p) /\ (semaoe(p, Op(p).op, <<uap[p].id, Op(p).num>>) \/ UNCHANGED undo)
      BY <1>4 DEF semopDo
    <2>2. QED
      BY <1>1, <1>2, <2>1, CurrentOp, semaoeUndo DEF OpIn, OpFair
  <1>5. ASSUME NEW p \in Proc, semopFail(p) PROVE UndoInv'
    <2>1. InOp(p) /\ (semaoe(p, Op(p).op, <<uap[p].id, Op(p).num>>) \/ UNCHANGED undo)
      BY <1>5 DEF semopFail
    <2>2. QED
      BY <1>1, <1>2, <2>1, CurrentOp, semaoeUndo DEF OpIn, OpFair
  <1>6. ASSUME NEW p \in Proc, semundo(p) PROVE UndoInv'
    <2>1. PICK o : o = uap[p].ops[i[p] - 1]
      OBVIOUS
    <2>2. /\ Passing(p) /\ i[p] > 1
          /\ semaoe(p, -o.op, <<uap[p].id, o.num>>) \/ UNCHANGED undo
      BY <1>6, <2>1 DEF semundo, Passing
    <2>3. OpFair(p, o)
      BY <2>1, <2>2, LastOp
    <2>4. QED
      BY <1>1, <1>2, <2>2, <2>3, semaoeUndo DEF OpIn, OpFair
  <1>7. ASSUME NEW p \in Proc, PassStep(p) PROVE UndoInv'
    <2>1. CASE semopError(p) \/ semopDone(p) \/ semopSleep(p)
      BY <1>2, <2>1 DEF semopError, semopDone, semopSleep
    <2>2. QED
      BY <1>4, <1>5, <1>6, <1>7, <2>1 DEF PassStep
  <1>14. ASSUME NEW p \in Proc, Resume(p) PROVE UndoInv'
    <2>1. CASE semopAgain(p) \/ semopIntr(p) \/ semopCopied(p) \/ semopRecopied(p) \/ semctlSetCopied(p)
      BY <1>2, <2>1 DEF semopAgain, semopIntr, semopCopied, semopRecopied, semctlSetCopied
    <2>2. ASSUME NEW vals, semctlSetallCopied(p, vals) PROVE UndoInv'
      <3>1. UNCHANGED undo \/ semunrm(uap[p].id, 0 .. sema[uap[p].id[2]].nsems)
        BY <2>2, Zenon DEF semctlSetallCopied
      <3>2. QED
        BY <1>1, <1>2, <3>1, semunrmUndo
    <2>3. QED
      BY <1>14, <2>1, <2>2 DEF Resume
  <1>8. ASSUME NEW p \in Proc, semexit(p) PROVE UndoInv'
    BY <1>1, <1>8, semexitUndo
  <1>9. ASSUME NEW p \in Proc, psignal(p) PROVE UndoInv'
    BY <1>2, <1>9 DEF psignal
  <1>10. ASSUME NEW p \in Proc, NEW key, NEW n, semget(p, key, n) PROVE UndoInv'
    BY <1>2, <1>10 DEF semget
  <1>11. ASSUME NEW p \in Proc, NEW id, NEW ops, semop(p, id, ops) PROVE UndoInv'
    BY <1>2, <1>11 DEF semop, Enter
  <1>12. CASE UNCHANGED vars
    BY <1>2, <1>12 DEF vars
  <1>13. QED
    BY <1>3, <1>7, <1>8, <1>9, <1>10, <1>11, <1>12, <1>14 DEF Next

-----------------------------------------------------------------------------
(* Sets, the free semaphores and the undo entries *)

\* What UndoEntriesLive and PoolDivided say as long as nobody has strayed.
LiveEnt(k) == semconv(k[1]) /\ k[2] < sema[k[1][2]].nsems
AllLive == \A p \in Proc : \A k \in Entries(aoe[p]) : LiveEnt(k)
Divided ==
  /\ \A s \in Slot : sema[s].alloc => SemsOf(s) \cap semmap = {}
  /\ \A s, t \in Slot : s # t /\ sema[s].alloc /\ sema[t].alloc =>
       SemsOf(s) \cap SemsOf(t) = {}
  /\ \A x \in semmap : semval[x] = 0 /\ semcnt[<<x, "n">>] = 0 /\ semcnt[<<x, "z">>] = 0

LiveInv == UndoEntriesLive /\ PoolDivided
StrictLive == AllLive /\ Divided

LEMMA PoolParts == PoolDivided <=> (strayed = {} => Divided)
  BY DEF PoolDivided, Divided

LEMMA NobodyStrayed ==
  ASSUME LiveInv, strayed = {} PROVE StrictLive
  BY PoolParts DEF LiveInv, StrictLive, UndoEntriesLive, AllLive, LiveEnt

\* Nobody comes back to the straight and narrow.
LEMMA StrayedGrows ==
  ASSUME [Next]_vars PROVE strayed \subseteq strayed'
  <1>1. ASSUME UNCHANGED hist PROVE strayed \subseteq strayed'
    BY <1>1 DEF hist
  <1>2. ASSUME NEW p \in Proc, Semctl(p) PROVE strayed \subseteq strayed'
    <2>1. ASSUME NEW id, semctlRmid(p, id) PROVE strayed \subseteq strayed'
      BY <2>1, ZenonT(40) DEF semctlRmid
    <2>2. ASSUME NEW id, NEW num, NEW val, semctlSetval(p, id, num, val)
          PROVE  strayed \subseteq strayed'
      BY <2>2, ZenonT(40) DEF semctlSetval
    <2>3. ASSUME NEW id, semctlSetall(p, id) \/ semctlSet(p, id) PROVE strayed \subseteq strayed'
      BY <2>3 DEF semctlSetall, semctlSet, Enter
    <2>4. QED
      BY <1>2, <2>1, <2>2, <2>3 DEF Semctl
  <1>3. ASSUME NEW p \in Proc, PassStep(p) PROVE strayed \subseteq strayed'
    BY <1>3, ZenonT(40) DEF PassStep, semopDo, semopFail, semundo, semopError, semopSleep, semopDone, hist
  <1>4. ASSUME NEW p \in Proc, Resume(p) PROVE strayed \subseteq strayed'
    <2>1. CASE semopAgain(p) \/ semopIntr(p)
      BY <2>1 DEF semopAgain, semopIntr
    <2>2. CASE semopCopied(p) \/ semopRecopied(p) \/ semctlSetCopied(p)
      BY <2>2 DEF semopCopied, semopRecopied, semctlSetCopied, Check, GoesOn
    <2>3. ASSUME NEW vals, semctlSetallCopied(p, vals) PROVE strayed \subseteq strayed'
      BY <2>3 DEF semctlSetallCopied, GoesOn
    <2>4. QED
      BY <1>4, <2>1, <2>2, <2>3 DEF Resume
  <1>5. ASSUME NEW p \in Proc, NEW key, NEW n, semget(p, key, n) PROVE strayed \subseteq strayed'
    BY <1>1, <1>5 DEF semget
  <1>6. ASSUME NEW p \in Proc, semexit(p) PROVE strayed \subseteq strayed'
    BY <1>6, ZenonT(40) DEF semexit
  <1>7. ASSUME NEW p \in Proc, psignal(p) PROVE strayed \subseteq strayed'
    BY <1>1, <1>7 DEF psignal
  <1>8. ASSUME NEW p \in Proc, NEW id, NEW ops, semop(p, id, ops) PROVE strayed \subseteq strayed'
    BY <1>8 DEF semop, Enter
  <1>9. CASE UNCHANGED vars
    BY <1>1, <1>9 DEF vars
  <1>10. QED
    BY <1>2, <1>3, <1>4, <1>5, <1>6, <1>7, <1>8, <1>9 DEF Next

\* The counts of a step are those before it, or 0.
CountsFall == \A c \in Chan : semcnt'[c] \in {0, semcnt[c]}

LEMMA wakeFall ==
  ASSUME NEW cs, wake(cs)
  PROVE  CountsFall
  BY DEF wake, CountsFall

LEMMA FreeChan ==
  ASSUME CallInv, NEW x \in semmap
  PROVE  x \in SemNo /\ <<x, "n">> \in Chan /\ <<x, "z">> \in Chan
  <1>1. x \in SemNo
    BY TypeGroups DEF CallInv, SemaType
  <1>2. QED
    BY <1>1 DEF Chan

\* A step that neither changes the sets nor touches free semaphores.
LEMMA PoolKept ==
  ASSUME CallInv, Divided, UNCHANGED <<sema, semmap>>,
         \A x \in semmap : semval'[x] = semval[x], CountsFall
  PROVE  Divided'
  <1>1. \A x \in semmap : semcnt'[<<x, "n">>] = 0 /\ semcnt'[<<x, "z">>] = 0
    BY FreeChan DEF CountsFall, Divided
  <1>2. QED
    BY <1>1 DEF Divided, SemsOf

\* What SemaKept leaves of an entry.
LEMMA KeptEnt ==
  ASSUME NEW k \in Ent, SemaKept, LiveEnt(k) PROVE LiveEnt(k)'
  <1>1. k[1][2] \in Slot
    BY DEF Ent, Id
  <1>2. QED
    BY <1>1 DEF LiveEnt, SemaKept, semconv

LEMMA EntriesFall ==
  ASSUME UndoEntriesLive, SemaKept, strayed \subseteq strayed',
         \A p \in Proc, k \in Ent : aoe'[p][k] \in {0, aoe[p][k]}
  PROVE  UndoEntriesLive'
  <1> SUFFICES ASSUME NEW p \in Proc, p \notin strayed', NEW k \in Ent, aoe'[p][k] # 0
               PROVE  LiveEnt(k)'
    BY DEF UndoEntriesLive, Entries, LiveEnt
  <1>1. k \in Entries(aoe[p])
    BY DEF Entries
  <1>2. LiveEnt(k)
    BY <1>1 DEF UndoEntriesLive, LiveEnt
  <1>3. QED
    BY <1>2, KeptEnt

LEMMA semaoeLive ==
  ASSUME NEW p \in Proc, NEW o, OpFair(p, o), NEW val \in Int,
         semaoe(p, val, <<uap[p].id, o.num>>), UndoType, UndoEntriesLive, sema' = sema,
         strayed \subseteq strayed'
  PROVE  UndoEntriesLive'
  <1>1. PICK k : k = <<uap[p].id, o.num>>
    OBVIOUS
  <1>2. k \in Ent /\ semaoe(p, val, k) /\ (p \notin strayed => LiveEnt(k))
    BY <1>1 DEF OpFair, OpOK, OpIn, LiveEnt
  <1>3. \/ aoe' = aoe
        \/ /\ \A q \in Proc : q # p => aoe'[q] = aoe[q]
           /\ \A l \in Ent : l # k => aoe'[p][l] = aoe[p][l]
    BY <1>2, semaoeEffect
  <1>4. SemaKept
    BY DEF SemaKept
  <1> SUFFICES ASSUME NEW q \in Proc, q \notin strayed', NEW l \in Ent, aoe'[q][l] # 0
               PROVE  LiveEnt(l)'
    BY DEF UndoEntriesLive, Entries, LiveEnt
  <1>5. CASE l \in Entries(aoe[q])
    <2>1. LiveEnt(l)
      BY <1>5 DEF UndoEntriesLive, LiveEnt
    <2>2. QED
      BY <1>4, <2>1, KeptEnt
  <1>6. CASE l \notin Entries(aoe[q])
    <2>1. q = p /\ l = k
      BY <1>3, <1>6 DEF Entries
    <2>2. LiveEnt(k)
      BY <1>2, <2>1
    <2>3. QED
      BY <1>2, <1>4, <2>1, <2>2, KeptEnt
  <1>7. QED
    BY <1>5, <1>6

LEMMA semgetLive ==
  ASSUME CallInv, LiveInv, NEW p \in Proc, NEW key, NEW n \in SetSizes, semget(p, key, n)
  PROVE  LiveInv'
  <1>1. PICK s \in Slot, a \in SemNo :
          /\ ~sema[s].alloc
          /\ rmalloc(a, n)
          /\ sema' = [sema EXCEPT ![s] =
                [alloc |-> TRUE, seq |-> @.seq, key |-> key, base |-> a, nsems |-> n]]
          /\ semmap' = semmap \ (a .. a + n - 1)
    BY DEF semget
  <1>2. UNCHANGED <<semval, semcnt, aoe, strayed>>
    BY DEF semget, undo, hist
  <1>3. /\ \A t \in Slot : t # s => sema'[t] = sema[t]
        /\ sema'[s].base = a /\ sema'[s].nsems = n
    BY <1>1, TypeGroups DEF CallInv, SemaType
  <1>4. a .. a + n - 1 \subseteq semmap
    BY <1>1 DEF rmalloc, Fits
  <1>5. UndoEntriesLive'
    <2>1. \A q \in Proc : \A k \in Entries(aoe[q]) : k[1][2] \in Slot
      BY DEF Entries, Ent, Id
    <2>2. QED
      BY <1>1, <1>2, <1>3, <2>1 DEF LiveInv, UndoEntriesLive, semconv
  <1>6. SemsOf(s)' = a .. a + n - 1 /\ \A t \in Slot : t # s => SemsOf(t)' = SemsOf(t)
    BY <1>3 DEF SemsOf
  <1>7. Divided => Divided'
    BY <1>1, <1>2, <1>3, <1>4, <1>6, ZenonT(60) DEF Divided
  <1>8. PoolDivided'
    BY <1>2, <1>7, PoolParts DEF LiveInv, PoolDivided, Divided
  <1>9. QED
    BY <1>5, <1>8 DEF LiveInv

LEMMA semctlRmidLive ==
  ASSUME CallInv, UndoInv, LiveInv, NEW p \in Proc, NEW id \in Id, semctlRmid(p, id)
  PROVE  LiveInv'
  <1>1. PICK slot \in Slot : slot = id[2] /\ sema[slot].alloc /\ sema[slot].seq = id[1]
    BY DEF semctlRmid, semconv, Id
  <1>2. /\ semunrm(id, 0 .. sema[slot].nsems)
        /\ semval' = Cleared(semval, slot)
        /\ wake(SemsOf(slot) \X {"n", "z"})
        /\ semmap' = semmap \cup SemsOf(slot)
        /\ sema' = [sema EXCEPT ![slot] = [alloc |-> FALSE, seq |-> NextSeq(id), key |-> @.key,
                                       base |-> @.base, nsems |-> @.nsems]]
        /\ strayed' = strayed
    BY <1>1 DEF semctlRmid, RmidWake
  <1>3. ~sema'[slot].alloc /\ \A t \in Slot : t # slot => sema'[t] = sema[t]
    BY <1>2, TypeGroups DEF CallInv, SemaType
  <1>4. \A t \in Slot : t # slot => SemsOf(t)' = SemsOf(t)
    BY <1>3 DEF SemsOf
  <1>5. UndoEntriesLive'
    <2> SUFFICES ASSUME NEW q \in Proc, q \notin strayed, NEW k \in Ent, aoe'[q][k] # 0
                 PROVE  semconv(k[1])' /\ k[2] < sema'[k[1][2]].nsems
      BY <1>2 DEF UndoEntriesLive, Entries
    <2>1. k[1] \in Id /\ k[2] \in Num /\ k[1][2] \in Slot
      BY DEF Ent, Id
    <2>2. /\ aoe[q][k] # 0
          /\ ~(q \in semunp /\ k[1] = id /\ k[2] \in 0 .. sema[slot].nsems)
      BY <1>2 DEF semunrm
    <2>3. k \in Entries(aoe[q]) /\ q \in semunp
      BY <2>2 DEF Entries, UndoInv, UndoChainExact
    <2>4. semconv(k[1]) /\ k[2] < sema[k[1][2]].nsems
      BY <2>3 DEF LiveInv, UndoEntriesLive
    <2>5. k[1][2] # slot
      <3> SUFFICES ASSUME k[1][2] = slot PROVE FALSE
        OBVIOUS
      <3>1. k[1][1] = id[1] /\ k[1][2] = id[2]
        BY <1>1, <2>4 DEF semconv
      <3>2. k[1] = id
        BY <2>1, <3>1 DEF Id
      <3>3. k[2] \in Nat /\ sema[slot].nsems \in Nat
        BY <2>1, TypeGroups, ConstLemma DEF CallInv, SemaType, Num
      <3>4. QED
        BY <2>2, <2>3, <2>4, <3>2, <3>3
    <2>6. QED
      BY <1>3, <2>1, <2>4, <2>5 DEF semconv
  <1>6. ASSUME Divided, NEW x \in semmap'
        PROVE  semval'[x] = 0 /\ semcnt'[<<x, "n">>] = 0 /\ semcnt'[<<x, "z">>] = 0
    <2>1. SemsOf(slot) \subseteq SemNo
      BY <1>1, TypeGroups, ConstLemma, SMTT(30) DEF CallInv, SemsOf, SetsInPool, SemNo, SemaType
    <2>2. x \in SemNo /\ <<x, "n">> \in Chan /\ <<x, "z">> \in Chan
      <3>1. x \in SemNo
        BY <1>2, <1>6, <2>1, FreeChan
      <3>2. QED
        BY <3>1 DEF Chan
    <2>3. CASE x \in SemsOf(slot)
      <3>1. <<x, "n">> \in SemsOf(slot) \X {"n", "z"} /\ <<x, "z">> \in SemsOf(slot) \X {"n", "z"}
        BY <2>3
      <3>2. QED
        BY <1>2, <2>2, <2>3, <3>1 DEF wake, Cleared
    <2>4. CASE x \notin SemsOf(slot)
      <3>1. x \in semmap /\ semval[x] = 0 /\ semcnt[<<x, "n">>] = 0 /\ semcnt[<<x, "z">>] = 0
        BY <1>2, <1>6, <2>4 DEF Divided
      <3>2. QED
        BY <1>2, <2>2, <2>4, <3>1 DEF wake, Cleared
    <2>5. QED
      BY <2>3, <2>4
  <1>7. ASSUME Divided PROVE Divided'
    <2>1. \A s \in Slot : sema'[s].alloc => SemsOf(s)' \cap semmap' = {}
      BY <1>1, <1>2, <1>3, <1>4, <1>7 DEF Divided
    <2>2. \A s, t \in Slot : s # t /\ sema'[s].alloc /\ sema'[t].alloc => SemsOf(s)' \cap SemsOf(t)' = {}
      BY <1>3, <1>4, <1>7 DEF Divided
    <2>3. QED
      BY <1>6, <1>7, <2>1, <2>2 DEF Divided
  <1>8. PoolDivided'
    BY <1>2, <1>7, PoolParts DEF LiveInv, PoolDivided, Divided
  <1>9. QED
    BY <1>5, <1>8 DEF LiveInv

LEMMA SetInPool ==
  ASSUME CallInv, NEW s \in Slot, NEW n \in Nat, n < sema[s].nsems
  PROVE  sema[s].base + n \in SemsOf(s) /\ sema[s].base + n \in SemNo
  BY SlotLemma

LEMMA EntriesStep ==
  ASSUME CallInv, IndexOK, UndoInv, LiveInv, [Next]_vars
  PROVE  UndoEntriesLive'
  <1>1. UndoType /\ UndoEntriesLive /\ strayed \subseteq strayed'
    BY TypeGroups, StrayedGrows DEF CallInv, LiveInv
  <1>2. ASSUME SemaKept, NEW id, NEW nums, semunrm(id, nums) PROVE UndoEntriesLive'
    <2>1. \A q \in Proc, k \in Ent : aoe'[q][k] \in {0, aoe[q][k]}
      BY <1>2 DEF semunrm
    <2>2. QED
      BY <1>1, <1>2, <2>1, EntriesFall
  <1>3. ASSUME SemaKept, UNCHANGED undo PROVE UndoEntriesLive'
    <2>1. \A q \in Proc, k \in Ent : aoe'[q][k] \in {0, aoe[q][k]}
      BY <1>3 DEF undo
    <2>2. QED
      BY <1>1, <1>3, <2>1, EntriesFall
  <1>4. ASSUME sema' = sema PROVE SemaKept
    BY <1>4 DEF SemaKept
  <1>5. ASSUME NEW p \in Proc, NEW id \in Id, NEW num \in Num, NEW val \in 0 .. SEMVMX,
               semctlSetval(p, id, num, val)
        PROVE  UndoEntriesLive'
    <2>1. sema' = sema /\ semunrm(id, {num})
      BY <1>5, Zenon DEF semctlSetval
    <2>2. QED
      BY <1>2, <1>4, <2>1
  <1>6. ASSUME NEW p \in Proc, semexit(p) PROVE UndoEntriesLive'
    <2>1. aoe' = [aoe EXCEPT ![p] = [k \in Ent |-> 0]] /\ sema' = sema
      BY <1>6, Zenon DEF semexit
    <2>2. \A q \in Proc, k \in Ent : aoe'[q][k] \in {0, aoe[q][k]}
      BY <1>1, <2>1 DEF UndoType
    <2>3. QED
      BY <1>1, <1>4, <2>1, <2>2, EntriesFall
  <1>7. ASSUME NEW p \in Proc, NEW o, NEW val \in Int, OpFair(p, o), sema' = sema,
               semaoe(p, val, <<uap[p].id, o.num>>) \/ UNCHANGED undo
        PROVE  UndoEntriesLive'
    BY <1>1, <1>3, <1>4, <1>7, semaoeLive
  <1>8. ASSUME NEW p \in Proc, semopDo(p) \/ semopFail(p) PROVE UndoEntriesLive'
    <2>1. /\ InOp(p) /\ (semaoe(p, Op(p).op, <<uap[p].id, Op(p).num>>) \/ UNCHANGED undo)
          /\ sema' = sema
      BY <1>8 DEF semopDo, semopFail, kern
    <2>2. OpFair(p, Op(p)) /\ Op(p).op \in Int
      BY <2>1, CurrentOp DEF OpFair, OpIn
    <2>3. QED
      BY <1>7, <2>1, <2>2
  <1>9. ASSUME NEW p \in Proc, semundo(p) PROVE UndoEntriesLive'
    <2>1. PICK o : o = uap[p].ops[i[p] - 1]
      OBVIOUS
    <2>2. /\ Passing(p) /\ i[p] > 1 /\ sema' = sema
          /\ semaoe(p, -o.op, <<uap[p].id, o.num>>) \/ UNCHANGED undo
      BY <1>9, <2>1 DEF semundo, Passing
    <2>3. OpFair(p, o) /\ -o.op \in Int
      BY <2>1, <2>2, LastOp DEF OpFair, OpIn
    <2>4. QED
      BY <1>7, <2>2, <2>3
  <1>10. ASSUME NEW p \in Proc, PassStep(p) PROVE UndoEntriesLive'
    <2>1. CASE semopError(p) \/ semopDone(p) \/ semopSleep(p)
      BY <1>3, <1>4, <2>1 DEF semopError, semopDone, semopSleep, kern
    <2>2. QED
      BY <1>8, <1>9, <1>10, <2>1 DEF PassStep
  <1>11. ASSUME NEW p \in Proc, Resume(p) PROVE UndoEntriesLive'
    <2>1. CASE semopAgain(p) \/ semopIntr(p) \/ semopCopied(p) \/ semopRecopied(p)
      BY <1>3, <1>4, <2>1 DEF semopAgain, semopIntr, semopCopied, semopRecopied, kern
    <2>2. CASE semctlSetCopied(p)
      <3>1. SemaKept
        BY <2>2, semctlSetCopiedSema
      <3>2. UNCHANGED undo
        BY <2>2 DEF semctlSetCopied
      <3>3. QED
        BY <1>3, <3>1, <3>2
    <2>3. ASSUME NEW vals, semctlSetallCopied(p, vals) PROVE UndoEntriesLive'
      <3>1. sema' = sema
        BY <2>3 DEF semctlSetallCopied
      <3>2. UNCHANGED undo \/ semunrm(uap[p].id, 0 .. sema[uap[p].id[2]].nsems)
        BY <2>3, Zenon DEF semctlSetallCopied
      <3>3. QED
        BY <1>2, <1>3, <1>4, <3>1, <3>2
    <2>4. QED
      BY <1>11, <2>1, <2>2, <2>3 DEF Resume
  <1>12. ASSUME NEW p \in Proc, NEW at, NEW id, NEW ops, Enter(p, at, id, ops)
         PROVE  UndoEntriesLive'
    BY <1>3, <1>4, <1>12 DEF Enter, kern
  <1>13. ASSUME NEW p \in Proc, Semctl(p) PROVE UndoEntriesLive'
    BY <1>5, <1>12, <1>13, semctlRmidLive DEF Semctl, semctlSetall, semctlSet, LiveInv
  <1>14. ASSUME NEW p \in Proc, NEW id, NEW ops, semop(p, id, ops) PROVE UndoEntriesLive'
    BY <1>12, <1>14 DEF semop
  <1>15. ASSUME NEW p \in Proc, psignal(p) PROVE UndoEntriesLive'
    BY <1>3, <1>4, <1>15 DEF psignal, kern
  <1>16. CASE UNCHANGED vars
    BY <1>3, <1>4, <1>16 DEF vars, kern
  <1>17. QED
    BY <1>6, <1>10, <1>11, <1>13, <1>14, <1>15, <1>16, semgetLive DEF Next, LiveInv

\* A call of a process that is not stale has a set.
LEMMA OwnSet ==
  ASSUME CallInv, NEW p \in Proc, pc[p] # "user", p \notin stale
  PROVE  uap[p].id[2] \in Slot /\ semconv(uap[p].id) /\ sema[uap[p].id[2]].alloc
  BY TypeGroups DEF CallInv, CallOK, CallOKOf, CallType, Id, semconv

LEMMA PoolStep ==
  ASSUME CallInv, IndexOK, UndoInv, LiveInv, [Next]_vars, strayed' = {}
  PROVE  Divided'
  <1>1. strayed = {} /\ StrictLive /\ AllLive /\ Divided /\ UndoType
    BY StrayedGrows, NobodyStrayed, TypeGroups DEF StrictLive, CallInv
  <1>2. \A s \in Slot : \A x \in SemsOf(s) : sema[s].alloc => x \notin semmap
    BY <1>1 DEF Divided
  <1>3. ASSUME UNCHANGED kern PROVE Divided'
    BY <1>1, <1>3 DEF kern, Divided, SemsOf
  <1>4. ASSUME NEW p \in Proc, NEW id \in Id, NEW num \in Num, NEW val \in 0 .. SEMVMX,
               semctlSetval(p, id, num, val)
        PROVE  Divided'
    <2>1. /\ semconv(id) /\ num < sema[id[2]].nsems
          /\ semval' = [semval EXCEPT ![sema[id[2]].base + num] = val]
          /\ CountsFall
          /\ UNCHANGED <<sema, semmap>>
      BY <1>4, wakeFall DEF semctlSetval
    <2>2. id[2] \in Slot /\ num \in Nat /\ sema[id[2]].alloc
      BY <2>1, ConstLemma DEF Id, Num, semconv
    <2>3. sema[id[2]].base + num \in SemsOf(id[2])
      BY <2>1, <2>2, SetInPool
    <2>4. \A x \in semmap : semval'[x] = semval[x]
      <3>1. \A x \in semmap : x \in SemNo /\ x # sema[id[2]].base + num
        BY <1>2, <2>2, <2>3, FreeChan
      <3>2. QED
        BY <2>1, <3>1, TypeGroups DEF CallInv
    <2>5. QED
      BY <1>1, <2>1, <2>4, PoolKept
  <1>5. ASSUME NEW p \in Proc, NEW vals, semctlSetallCopied(p, vals)
        PROVE  Divided'
    <2> DEFINE id == uap[p].id
    <2>1. CASE /\ semval' = [s \in SemNo |-> IF s \in SemsOf(id[2]) THEN vals[s] ELSE semval[s]]
               /\ wake({<<s, IF vals[s] # 0 THEN "n" ELSE "z">> : s \in SemsOf(id[2])})
               /\ GoesOn(p)
      <3>1. p \notin stale /\ pc[p] = "setall" /\ UNCHANGED <<sema, semmap>>
        BY <1>5, <2>1 DEF GoesOn, semctlSetallCopied, Copied
      <3>2. id[2] \in Slot /\ sema[id[2]].alloc
        BY <3>1, OwnSet
      <3>3. \A x \in semmap : semval'[x] = semval[x]
        BY <1>2, <2>1, <3>2, FreeChan
      <3>4. CountsFall
        BY <2>1, wakeFall
      <3>5. QED
        BY <1>1, <3>1, <3>3, <3>4, PoolKept
    <2>2. CASE UNCHANGED <<semval, semcnt>>
      <3>1. UNCHANGED kern
        BY <1>5, <2>2 DEF semctlSetallCopied, kern
      <3>2. QED
        BY <1>3, <3>1
    <2>3. QED
      BY <1>5, <2>1, <2>2 DEF semctlSetallCopied
  <1>6. ASSUME NEW p \in Proc, semexit(p) PROVE Divided'
    <2> DEFINE at(k) == sema[k[1][2]].base + k[2]
               live == {k \in Entries(aoe[p]) : semconv(k[1]) /\ at(k) \in SemNo}
               done == {k \in live : Adjustable(semval[at(k)] + aoe[p][k])}
    <2>1. /\ \A x \in SemNo : (~ \E k \in done : at(k) = x) => semval'[x] = semval[x]
          /\ UNCHANGED <<sema, semmap>>
      <3>1. semval' = [s \in SemNo |-> IF \E k \in done : at(k) = s
                         THEN semval[at(CHOOSE k \in done : at(k) = s)]
                              + aoe[p][CHOOSE k \in done : at(k) = s]
                         ELSE semval[s]]
        BY <1>6, Zenon DEF semexit
      <3>2. UNCHANGED <<sema, semmap>>
        BY <1>6, ZenonT(40) DEF semexit
      <3> HIDE DEF done, at
      <3>3. QED
        BY <3>1, <3>2
    <2>2. CountsFall
      BY <1>6, wakeFall, Zenon DEF semexit
    <2>3. \A k \in done : at(k) \notin semmap
      <3> SUFFICES ASSUME NEW k \in done PROVE at(k) \notin semmap
        OBVIOUS
      <3>1. k \in Entries(aoe[p]) /\ k \in Ent /\ sema[k[1][2]].alloc
        BY DEF Entries, semconv
      <3>2. k[1][2] \in Slot /\ k[2] \in Nat
        BY <3>1, ConstLemma DEF Ent, Id, Num
      <3>3. k[2] < sema[k[1][2]].nsems
        BY <1>1, <3>1 DEF AllLive, LiveEnt
      <3>4. QED
        BY <1>2, <3>1, <3>2, <3>3, SetInPool
    <2>4. \A x \in semmap : semval'[x] = semval[x]
      BY <2>1, <2>3, FreeChan
    <2>5. QED
      BY <1>1, <2>1, <2>2, <2>4, PoolKept
  <1>7. ASSUME NEW p \in Proc, NEW o, OpFair(p, o), Passing(p), NEW v,
               semval' = [semval EXCEPT ![SemAt(p, o.num)] = v],
               UNCHANGED <<sema, semmap>>, CountsFall
        PROVE  Divided'
    <2>1. SemAt(p, o.num) \notin semmap
      BY <1>1, <1>2, <1>7 DEF OpFair, OpOK, OpIn, semconv
    <2>2. \A x \in semmap : semval'[x] = semval[x]
      BY <1>7, <2>1, FreeChan, TypeGroups DEF CallInv
    <2>3. QED
      BY <1>1, <1>7, <2>2, PoolKept
  <1>8. ASSUME NEW p \in Proc, semopDo(p) PROVE Divided'
    <2>1. PICK o : o = Op(p)
      OBVIOUS
    <2>2. /\ InOp(p)
          /\ semval' = [semval EXCEPT ![SemAt(p, o.num)] = semval[SemAt(p, o.num)] + o.op]
          /\ UNCHANGED <<sema, semmap>>
      BY <1>8, <2>1 DEF semopDo
    <2>3. CountsFall
      BY <1>8, wakeFall DEF semopDo
    <2>4. OpFair(p, o) /\ Passing(p)
      BY <2>1, <2>2, CurrentOp DEF InOp, Passing
    <2>5. QED
      BY <1>7, <2>2, <2>3, <2>4
  <1>9. ASSUME NEW p \in Proc, semundo(p) PROVE Divided'
    <2>1. PICK o : o = uap[p].ops[i[p] - 1]
      OBVIOUS
    <2>2. /\ Passing(p) /\ i[p] > 1
          /\ semval' = [semval EXCEPT ![SemAt(p, o.num)] = semval[SemAt(p, o.num)] - o.op]
          /\ UNCHANGED <<sema, semmap, semcnt>>
      BY <1>9, <2>1 DEF semundo, Passing
    <2>3. CountsFall
      BY <2>2 DEF CountsFall
    <2>4. OpFair(p, o)
      BY <2>1, <2>2, LastOp
    <2>5. QED
      BY <1>7, <2>2, <2>3, <2>4
  <1>11. ASSUME NEW c \in Chan, NEW base \in Nat, Uncount(c, base),
                UNCHANGED <<sema, semval, semmap>>, c[1] \in semmap => base <= 1
         PROVE  Divided'
    <2>1. \A x \in semmap : semcnt'[<<x, "n">>] = 0 /\ semcnt'[<<x, "z">>] = 0
      <3> SUFFICES ASSUME NEW x \in semmap, NEW d \in {<<x, "n">>, <<x, "z">>}
                   PROVE  semcnt'[d] = 0
        OBVIOUS
      <3>1. d \in Chan /\ semcnt[d] = 0 /\ d[1] = x
        <4>1. d = <<x, "n">> \/ d = <<x, "z">>
          OBVIOUS
        <4>2. <<x, "n">>[1] = x /\ <<x, "z">>[1] = x
          OBVIOUS
        <4>3. <<x, "n">> \in Chan /\ <<x, "z">> \in Chan
          BY FreeChan
        <4>4. semcnt[<<x, "n">>] = 0 /\ semcnt[<<x, "z">>] = 0
          BY <1>1 DEF Divided
        <4>5. QED
          BY <4>1, <4>2, <4>3, <4>4, Zenon
      <3>2. semcnt \in [Chan -> Nat]
        BY TypeGroups DEF CallInv, ChanType
      <3>3. CASE d = c
        BY <1>11, <3>1, <3>2, <3>3 DEF Uncount
      <3>4. CASE d # c
        BY <1>11, <3>1, <3>2, <3>4 DEF Uncount
      <3>5. QED
        BY <3>3, <3>4
    <2>2. QED
      BY <1>1, <1>11, <2>1 DEF Divided, SemsOf
  <1>12. ASSUME NEW p \in Proc, semopSleep(p) PROVE Divided'
    <2>1. /\ cpu = p /\ pc[p] = "undo" /\ err[p] \in {"n", "z"}
          /\ UNCHANGED <<sema, semval, semmap>>
          /\ \/ semcnt' = [semcnt EXCEPT ![semp[p]] = @ + 1]
             \/ Uncount(semp[p], semcnt[semp[p]] + 1)
      BY <1>12 DEF semopSleep
    <2>2. p \notin stale
      BY <1>1, <2>1 DEF CallInv, CallOK, CallOKOf, Passing
    <2>3. semp[p] \in Chan /\ semp[p][1] \in SemsOf(uap[p].id[2])
      BY <2>1, <2>2 DEF CallInv, WaitOK, WaitOKOf
    <2>4. semp[p][1] \notin semmap /\ semcnt[semp[p]] \in Nat
      BY <1>2, <2>1, <2>2, <2>3, OwnSet, TypeGroups DEF CallInv, ChanType
    <2>5. CASE semcnt' = [semcnt EXCEPT ![semp[p]] = @ + 1]
      <3>1. \A x \in semmap : /\ semcnt'[<<x, "n">>] = semcnt[<<x, "n">>]
                              /\ semcnt'[<<x, "z">>] = semcnt[<<x, "z">>]
        <4> SUFFICES ASSUME NEW x \in semmap, NEW d \in {<<x, "n">>, <<x, "z">>}
                     PROVE  semcnt'[d] = semcnt[d]
          OBVIOUS
        <4>1. d \in Chan /\ d[1] = x
          <5>1. d = <<x, "n">> \/ d = <<x, "z">>
            OBVIOUS
          <5>2. <<x, "n">>[1] = x /\ <<x, "z">>[1] = x
            OBVIOUS
          <5>3. <<x, "n">> \in Chan /\ <<x, "z">> \in Chan
            BY FreeChan
          <5>4. QED
            BY <5>1, <5>2, <5>3, Zenon
        <4>2. d # semp[p]
          BY <2>4, <4>1
        <4>3. QED
          BY <2>5, <4>1, <4>2, TypeGroups DEF CallInv, ChanType
      <3>2. QED
        BY <1>1, <2>1, <3>1 DEF Divided, SemsOf
    <2>6. CASE Uncount(semp[p], semcnt[semp[p]] + 1)
      <3>1. semcnt[semp[p]] + 1 \in Nat
        BY <2>4
      <3>2. QED
        BY <1>11, <2>1, <2>3, <2>4, <2>6, <3>1
    <2>7. QED
      BY <2>1, <2>5, <2>6
  <1>13. ASSUME NEW p \in Proc, semopIntr(p) PROVE Divided'
    <2>1. /\ pc[p] = "sleep"
          /\ Uncount(semp[p], semcnt[semp[p]])
          /\ UNCHANGED <<sema, semval, semmap>>
      BY <1>13 DEF semopIntr, Awake
    <2>2. semp[p] \in Chan
      BY <2>1 DEF CallInv, WaitOK, WaitOKOf
    <2>3. semcnt[semp[p]] \in Nat
      BY <2>2, TypeGroups DEF CallInv, ChanType
    <2>4. semp[p][1] \in semmap => semcnt[semp[p]] <= 1
      <3>1. semp[p] = <<semp[p][1], "n">> \/ semp[p] = <<semp[p][1], "z">>
        BY <2>2 DEF Chan
      <3>2. ASSUME semp[p][1] \in semmap PROVE semcnt[semp[p]] = 0
        <4>1. semcnt[<<semp[p][1], "n">>] = 0 /\ semcnt[<<semp[p][1], "z">>] = 0
          BY <1>1, <3>2 DEF Divided
        <4>2. QED
          BY <3>1, <4>1, Zenon
      <3>3. QED
        BY <3>2
    <2>5. QED
      BY <1>11, <2>1, <2>2, <2>3, <2>4
  <1>14. ASSUME NEW p \in Proc, PassStep(p) PROVE Divided'
    <2>1. CASE semopError(p) \/ semopDone(p) \/ semopFail(p)
      BY <1>3, <2>1 DEF semopError, semopDone, semopFail
    <2>2. QED
      BY <1>8, <1>9, <1>12, <1>14, <2>1 DEF PassStep
  <1>15. ASSUME NEW p \in Proc, semctlSetCopied(p) PROVE Divided'
    <2>1. sema' = sema
      <3>1. Copied(p, "ipcset") /\ (sema' = sema \/ GoesOn(p))
        BY <1>15 DEF semctlSetCopied
      <3>2. CASE GoesOn(p)
        <4>1. p \notin stale /\ pc[p] # "user"
          BY <3>1, <3>2 DEF GoesOn, Copied
        <4>2. sema[uap[p].id[2]].alloc
          BY <4>1, OwnSet
        <4>3. QED
          BY <1>15, <4>2 DEF semctlSetCopied
      <3>3. QED
        BY <3>1, <3>2
    <2>2. UNCHANGED <<semval, semcnt, semmap>>
      BY <1>15 DEF semctlSetCopied
    <2>3. QED
      BY <1>3, <2>1, <2>2 DEF kern
  <1>16. ASSUME NEW p \in Proc, Resume(p) PROVE Divided'
    <2>1. CASE semopAgain(p) \/ semopCopied(p) \/ semopRecopied(p)
      BY <1>3, <2>1 DEF semopAgain, semopCopied, semopRecopied
    <2>2. QED
      BY <1>5, <1>13, <1>15, <1>16, <2>1 DEF Resume
  <1>17. ASSUME NEW p \in Proc, NEW at, NEW id, NEW ops, Enter(p, at, id, ops)
         PROVE  Divided'
    BY <1>3, <1>17 DEF Enter
  <1>18. ASSUME NEW p \in Proc, NEW id \in Id, semctlRmid(p, id) PROVE Divided'
    <2>1. PoolDivided'
      BY <1>18, semctlRmidLive DEF LiveInv
    <2>2. QED
      BY <2>1 DEF PoolDivided, Divided
  <1>19. ASSUME NEW p \in Proc, NEW key, NEW n \in SetSizes, semget(p, key, n) PROVE Divided'
    <2>1. PoolDivided'
      BY <1>19, semgetLive DEF LiveInv
    <2>2. QED
      BY <2>1 DEF PoolDivided, Divided
  <1>20. ASSUME NEW p \in Proc, Semctl(p) PROVE Divided'
    BY <1>4, <1>17, <1>18, <1>20 DEF Semctl, semctlSetall, semctlSet
  <1>21. ASSUME NEW p \in Proc, NEW id, NEW ops, semop(p, id, ops) PROVE Divided'
    BY <1>17, <1>21 DEF semop
  <1>22. ASSUME NEW p \in Proc, psignal(p) PROVE Divided'
    BY <1>3, <1>22 DEF psignal
  <1>23. CASE UNCHANGED vars
    BY <1>3, <1>23 DEF vars
  <1>24. QED
    BY <1>6, <1>14, <1>16, <1>19, <1>20, <1>21, <1>22, <1>23 DEF Next

LEMMA LiveStep ==
  ASSUME CallInv, IndexOK, UndoInv, LiveInv, [Next]_vars
  PROVE  LiveInv'
  <1>1. strayed' = {} => Divided'
    BY PoolStep
  <1>2. PoolDivided'
    BY <1>1 DEF PoolDivided, Divided
  <1>3. QED
    BY <1>2, EntriesStep DEF LiveInv

\* What EntriesBounded says of the entries f.
Bounded(f) ==
  \A p \in Proc :
    /\ Cardinality(Entries(f[p])) <= SEMUME
    /\ \A k \in Ent : Abs(f[p][k]) <= SEMAEM

\* Operation j of the pass led from snap[j] to snap[j + 1].
Did(p, j) ==
  LET o == uap[p].ops[j]
      s == SemAt(p, o.num)
      k == <<uap[p].id, o.num>>
  IN /\ snap[j + 1].val[s] = snap[j].val[s] + o.op
     /\ \A x \in SemNo : x # s => snap[j + 1].val[x] = snap[j].val[x]
     /\ o.undo /\ o.op # 0 =>
          /\ Abs(o.op) <= SEMAEM /\ p \in sem_undo
          /\ snap[j + 1].aoe[p][k] = snap[j].aoe[p][k] - o.op
          /\ \A l \in Ent : l # k => snap[j + 1].aoe[p][l] = snap[j].aoe[p][l]
          /\ \A q \in Proc : q # p => snap[j + 1].aoe[q] = snap[j].aoe[q]
     /\ ~(o.undo /\ o.op # 0) => snap[j + 1].aoe = snap[j].aoe

\* The process in a pass has come from snap[1] to its present place
\* through the states that snap holds, each of them within the limits.
PassOf(p) ==
  /\ snap # <<>> /\ i[p] <= Len(snap) /\ Len(snap) <= Len(uap[p].ops) + 1
  /\ pc[p] = "op" => Len(snap) = i[p]
  /\ semval = snap[i[p]].val /\ aoe = snap[i[p]].aoe
  /\ \A j \in 1 .. Len(snap) - 1 : Did(p, j)
  /\ \A j \in 1 .. Len(snap) : Bounded(snap[j].aoe)
PassInv == \A p \in Proc : Passing(p) => PassOf(p)

SnapType == [val : [SemNo -> Int], aoe : [Proc -> [Ent -> Int]]]

LEMMA SnapFacts ==
  ASSUME CallInv
  PROVE  snap \in Seq(SnapType) /\ Len(snap) \in Nat
  BY TypeGroups DEF CallInv, HistType, SnapType

LEMMA SnapElem ==
  ASSUME CallInv, NEW j \in 1 .. Len(snap)
  PROVE  snap[j].val \in [SemNo -> Int] /\ snap[j].aoe \in [Proc -> [Ent -> Int]]
  <1>1. snap[j] \in SnapType
    BY SnapFacts
  <1>2. QED
    BY <1>1 DEF SnapType

\* No other process is in a pass.
LEMMA PassAlone ==
  ASSUME CallInv, NEW p \in Proc, cpu \in {p, None},
         \A q \in Proc : q # p => pc'[q] = pc[q], (Passing(p) => PassOf(p))'
  PROVE  PassInv'
  <1>1. ASSUME NEW q \in Proc, q # p, Passing(q)' PROVE FALSE
    <2>1. cpu = q
      BY <1>1 DEF Passing, CallInv, CpuOK
    <2>2. QED
      BY <1>1, <2>1, NoneLemma
  <1>2. ASSUME NEW q \in Proc, Passing(q)' PROVE PassOf(q)'
    <2>1. CASE q = p
      BY <1>2, <2>1
    <2>2. QED
      BY <1>1, <1>2, <2>1
  <1>3. QED
    BY <1>2 DEF PassInv

\* A new pass begins.
LEMMA CheckPass ==
  ASSUME CallInv, UndoInv, NEW p \in Proc, Check(p), cpu \in {p, None},
         UNCHANGED <<semval, aoe, sem_undo, uap>>
  PROVE  PassInv'
  <1>1. /\ i'[p] = 1 /\ snap' = <<[val |-> semval, aoe |-> aoe]>>
        /\ \A q \in Proc : q # p => pc'[q] = pc[q]
    BY TypeGroups DEF CallInv, CallType, Check
  <1>2. snap' # <<>> /\ Len(snap') = 1 /\ snap'[1].val = semval /\ snap'[1].aoe = aoe
    BY <1>1
  <1>3. Bounded(aoe)
    BY DEF UndoInv, EntriesBounded, Bounded
  <1>4. Bounded(snap[1].aoe)'
    BY <1>2, <1>3 DEF Bounded
  <1>5. \A j \in 1 .. Len(snap') : Bounded(snap[j].aoe)'
    BY <1>2, <1>4
  <1>6. Len(uap'[p].ops) \in Nat
    BY IndexType
  <1>7. PassOf(p)'
    BY <1>1, <1>2, <1>5, <1>6 DEF PassOf
  <1>8. QED
    BY <1>1, <1>7, PassAlone

\* The states of the pass and what leads from one to the next depend on
\* variables that semopFail and semundo leave alone.
LEMMA DidKept ==
  ASSUME NEW p \in Proc, NEW j, Did(p, j), UNCHANGED <<snap, uap, sema>>,
         sem_undo \subseteq sem_undo'
  PROVE  Did(p, j)'
  BY DEF Did, SemAt

LEMMA semopDoPass ==
  ASSUME CallInv, UndoInv, PassInv, NEW p \in Proc, semopDo(p)
  PROVE  PassInv'
  <1>1. PICK o : o = Op(p)
    OBVIOUS
  <1>2. PICK s : s = SemAt(p, o.num)
    OBVIOUS
  <1>3. PICK k : k = <<uap[p].id, o.num>>
    OBVIOUS
  <1>4. PICK n : n = i[p]
    OBVIOUS
  <1>5. /\ cpu = p /\ pc[p] = "op" /\ InOp(p) /\ Obstacle(p) = ""
        /\ semval' = [semval EXCEPT ![s] = semval[s] + o.op]
        /\ (o.undo /\ semaoe(p, o.op, k)) \/ (~o.undo /\ UNCHANGED undo)
        /\ i' = [i EXCEPT ![p] = @ + 1]
        /\ snap' = Append(snap, [val |-> semval', aoe |-> aoe'])
        /\ UNCHANGED <<sema, cpu, pc, uap>>
    BY <1>1, <1>2, <1>3 DEF semopDo, InOp
  <1>6. OpFair(p, o) /\ n \in 1 .. Len(uap[p].ops) /\ o = uap[p].ops[n]
    BY <1>1, <1>4, <1>5, CurrentOp DEF Op
  <1>7. PassOf(p) /\ Len(snap) = n /\ n \in Nat \ {0} /\ Len(uap[p].ops) \in Nat
    BY <1>4, <1>5, IndexType DEF PassInv, PassOf, Passing
  <1>8. /\ UndoType /\ semval \in [SemNo -> Int] /\ snap \in Seq(SnapType)
        /\ s \in SemNo /\ k \in Ent /\ o.op \in Int
    BY <1>2, <1>3, <1>6, SnapFacts, TypeGroups DEF CallInv, OpIn, OpFair
  <1>9. i'[p] = n + 1
    BY <1>4, <1>5, TypeGroups DEF CallInv, CallType
  <1>10. UndoInv' /\ UndoType'
    BY <1>5, <1>8, semaoeUndo, semaoeLemma DEF UndoInv, UndoChainExact, EntriesBounded, undo, UndoType
  <1>11. PICK e : e = [val |-> semval', aoe |-> aoe']
    OBVIOUS
  <1>12. e.val = semval' /\ e.aoe = aoe'
    BY <1>11
  <1>13. /\ Len(snap') = n + 1 /\ snap' # <<>>
         /\ snap'[n + 1] = e
         /\ \A j \in 1 .. n : snap'[j] = snap[j]
    <2>1. semval' \in [SemNo -> Int] /\ aoe' \in [Proc -> [Ent -> Int]]
      <3>1. semval' = [semval EXCEPT ![s] = semval[s] + o.op]
        BY <1>5
      <3>2. semval[s] + o.op \in Int
        BY <1>8
      <3>3. QED
        BY <1>8, <1>10, <3>1, <3>2 DEF UndoType
    <2>2. e \in SnapType
      BY <1>11, <2>1 DEF SnapType
    <2>3. snap' = Append(snap, e)
      BY <1>5, <1>11
    <2>4. QED
      BY <1>7, <1>8, <2>2, <2>3
  <1>14. snap[n].val = semval /\ snap[n].aoe = aoe
    BY <1>4, <1>7 DEF PassOf
  <1>15. sem_undo \subseteq sem_undo'
    BY <1>5, <1>8, semaoeEffect DEF undo
  <1>16. o.undo /\ o.op # 0 => semaoeError(p, o.op, k) = ""
    <2>1. o.undo /\ o.op > 0 => semaoeError(p, o.op, k) = ""
      BY <1>1, <1>3, <1>5, <1>8 DEF Obstacle
    <2>2. o.undo /\ o.op < 0 => semaoeError(p, o.op, k) = ""
      BY <1>1, <1>3, <1>5, <1>8, <2>1 DEF Obstacle
    <2>3. o.op # 0 => o.op > 0 \/ o.op < 0
      BY <1>8
    <2>4. QED
      BY <2>1, <2>2, <2>3, Zenon
  <1>17. Did(p, n)'
    <2>1. /\ snap'[n + 1].val = semval' /\ snap'[n].val = semval
          /\ snap'[n + 1].aoe = aoe' /\ snap'[n].aoe = aoe
      BY <1>7, <1>12, <1>13, <1>14
    <2>2. /\ semval'[s] = semval[s] + o.op
          /\ \A x \in SemNo : x # s => semval'[x] = semval[x]
      BY <1>5, <1>8
    <2>3. ASSUME o.undo, o.op # 0
          PROVE  /\ Abs(o.op) <= SEMAEM /\ p \in sem_undo'
                 /\ aoe'[p][k] = aoe[p][k] - o.op
                 /\ \A l \in Ent : l # k => aoe'[p][l] = aoe[p][l]
                 /\ \A q \in Proc : q # p => aoe'[q] = aoe[q]
      <3>1. semaoe(p, o.op, k) /\ semaoeError(p, o.op, k) = ""
        BY <1>5, <1>16, <2>3, Zenon
      <3>2. QED
        BY <1>8, <2>3, <3>1, semaoeEffect, ZenonT(60)
    <2>4. ~(o.undo /\ o.op # 0) => aoe' = aoe
      BY <1>5, <1>8, semaoeEffect DEF undo
    <2>5. /\ uap'[p].ops[n] = o /\ SemAt(p, o.num)' = s
          /\ <<uap'[p].id, o.num>> = k
      BY <1>2, <1>3, <1>5, <1>6 DEF SemAt
    <2>6. QED
      BY <2>1, <2>2, <2>3, <2>4, <2>5 DEF Did
  <1>18. ASSUME NEW j \in 1 .. n - 1 PROVE Did(p, j)'
    <2>1. Did(p, j) /\ j \in 1 .. n /\ j + 1 \in 1 .. n
      BY <1>7 DEF PassOf
    <2>2. snap'[j] = snap[j] /\ snap'[j + 1] = snap[j + 1]
      BY <1>13, <2>1
    <2>3. QED
      BY <1>5, <1>15, <2>1, <2>2, ZenonT(60) DEF Did, SemAt
  <1>19. \A j \in 1 .. Len(snap') - 1 : Did(p, j)'
    <2>1. \A j \in 1 .. Len(snap') - 1 : j = n \/ j \in 1 .. n - 1
      BY <1>7, <1>13
    <2>2. QED
      BY <1>17, <1>18, <2>1
  <1>20. \A j \in 1 .. Len(snap') : Bounded(snap[j].aoe)'
    <2>1. Bounded(aoe)'
      BY <1>10 DEF UndoInv, EntriesBounded, Bounded
    <2>2. ASSUME NEW j \in 1 .. n PROVE Bounded(snap[j].aoe)'
      BY <1>7, <1>13 DEF PassOf, Bounded
    <2>3. Bounded(snap[n + 1].aoe)'
      BY <1>12, <1>13, <2>1 DEF Bounded
    <2>4. \A j \in 1 .. Len(snap') : j = n + 1 \/ j \in 1 .. n
      BY <1>7, <1>13
    <2>5. QED
      BY <2>2, <2>3, <2>4
  <1>21. semval' = snap'[i'[p]].val /\ aoe' = snap'[i'[p]].aoe
    BY <1>9, <1>12, <1>13
  <1>22. /\ i'[p] <= Len(snap') /\ Len(snap') <= Len(uap'[p].ops) + 1
         /\ Len(snap') = i'[p]
    <2>1. uap' = uap
      BY <1>5
    <2>2. QED
      BY <1>6, <1>7, <1>9, <1>13, <2>1
  <1>23. PassOf(p)'
    BY <1>13, <1>19, <1>20, <1>21, <1>22 DEF PassOf
  <1>24. QED
    BY <1>5, <1>23, PassAlone

LEMMA semopFailPass ==
  ASSUME CallInv, UndoInv, PassInv, NEW p \in Proc, semopFail(p)
  PROVE  PassInv'
  <1>1. PICK o : o = Op(p)
    OBVIOUS
  <1>2. PICK k : k = <<uap[p].id, o.num>>
    OBVIOUS
  <1>3. /\ cpu = p /\ pc[p] = "op" /\ InOp(p) /\ Obstacle(p) # ""
        /\ pc' = [pc EXCEPT ![p] = "undo"]
        /\ UNCHANGED <<kern, cpu, uap, i, hist>>
    BY DEF semopFail, InOp
  <1>4. \/ /\ o.undo
           /\ \/ o.op > 0 /\ o.op + semval[SemAt(p, o.num)] <= SEMVMX
              \/ o.op < 0 /\ semval[SemAt(p, o.num)] >= -o.op
           /\ semaoe(p, o.op, k)
        \/ UNCHANGED undo
    BY <1>1, <1>2 DEF semopFail
  <1>5. OpFair(p, o)
    BY <1>1, <1>3, CurrentOp
  <1>6. /\ UndoType /\ semval \in [SemNo -> Int] /\ k \in Ent /\ o.op \in Int
        /\ semval[SemAt(p, o.num)] \in Int
    BY <1>2, <1>5, TypeGroups DEF CallInv, OpIn, OpFair
  <1>7. aoe' = aoe /\ sem_undo \subseteq sem_undo'
    <2>1. CASE UNCHANGED undo
      BY <2>1 DEF undo
    <2>2. CASE /\ o.undo
               /\ \/ o.op > 0 /\ o.op + semval[SemAt(p, o.num)] <= SEMVMX
                  \/ o.op < 0 /\ semval[SemAt(p, o.num)] >= -o.op
               /\ semaoe(p, o.op, k)
      <3>1. Obstacle(p) = semaoeError(p, o.op, k)
        <4>1. CASE o.op > 0 /\ o.op + semval[SemAt(p, o.num)] <= SEMVMX
          <5>1. ~(o.op + semval[SemAt(p, o.num)] > SEMVMX)
            BY <1>6, <4>1, ConstLemma
          <5>2. QED
            BY <1>1, <1>2, <2>2, <4>1, <5>1 DEF Obstacle
        <4>2. CASE o.op < 0 /\ semval[SemAt(p, o.num)] >= -o.op
          <5>1. ~(o.op > 0)
            BY <1>6, <4>2
          <5>2. QED
            BY <1>1, <1>2, <2>2, <4>2, <5>1 DEF Obstacle
        <4>3. QED
          BY <2>2, <4>1, <4>2
      <3>2. QED
        BY <1>3, <1>6, <2>2, <3>1, semaoeEffect, ZenonT(30)
    <2>3. QED
      BY <1>4, <2>1, <2>2
  <1>8. UNCHANGED <<snap, uap, sema, semval, i>>
    BY <1>3 DEF kern, hist
  <1>9. PassOf(p)
    BY <1>3 DEF PassInv, Passing
  <1>10. \A j \in 1 .. Len(snap') - 1 : Did(p, j)'
    BY <1>7, <1>8, <1>9, DidKept DEF PassOf
  <1>11. \A j \in 1 .. Len(snap') : Bounded(snap[j].aoe)'
    BY <1>8, <1>9 DEF PassOf, Bounded
  <1>12. pc'[p] = "undo"
    BY <1>3, TypeGroups DEF CallInv, CallType
  <1>13. PassOf(p)'
    BY <1>7, <1>8, <1>9, <1>10, <1>11, <1>12 DEF PassOf
  <1>14. \A q \in Proc : q # p => pc'[q] = pc[q]
    BY <1>3, TypeGroups DEF CallInv, CallType
  <1>15. QED
    BY <1>3, <1>13, <1>14, PassAlone

\* semundo() of operation j of the pass brings the state before it back: the
\* checks of semaoe() that the operation passed do not fail on the way back.
LEMMA semundoPass ==
  ASSUME CallInv, IndexOK, UndoInv, PassInv, NEW p \in Proc, semundo(p)
  PROVE  PassInv'
  <1>1. PICK n : n = i[p] - 1
    OBVIOUS
  <1>2. PICK o : o = uap[p].ops[n]
    OBVIOUS
  <1>3. PICK s : s = SemAt(p, o.num)
    OBVIOUS
  <1>4. PICK k : k = <<uap[p].id, o.num>>
    OBVIOUS
  <1>5. /\ cpu = p /\ pc[p] = "undo" /\ i[p] > 1
        /\ semval' = [semval EXCEPT ![s] = semval[s] - o.op]
        /\ (o.undo /\ semaoe(p, -o.op, k)) \/ (~o.undo /\ UNCHANGED undo)
        /\ i' = [i EXCEPT ![p] = @ - 1]
        /\ UNCHANGED <<sema, cpu, pc, uap, snap>>
    BY <1>1, <1>2, <1>3, <1>4 DEF semundo
  <1>6. OpFair(p, o) /\ n \in 1 .. Len(uap[p].ops)
    BY <1>1, <1>2, <1>5, LastOp DEF Passing
  <1>7. PassOf(p) /\ i[p] = n + 1 /\ n \in Nat /\ n >= 1 /\ Len(uap[p].ops) \in Nat /\ Len(snap) \in Nat
    BY <1>1, <1>5, <1>6, IndexType, SnapFacts DEF PassInv, Passing
  <1>8. /\ UndoType /\ semval \in [SemNo -> Int]
        /\ s \in SemNo /\ k \in Ent /\ o.op \in Int /\ -o.op \in Int
    BY <1>3, <1>4, <1>6, TypeGroups DEF CallInv, OpIn, OpFair
  <1>9. i'[p] = n
    BY <1>1, <1>5, TypeGroups DEF CallInv, CallType
  <1>10. n + 1 <= Len(snap) /\ n \in 1 .. Len(snap) - 1 /\ n \in 1 .. Len(snap)
    BY <1>7 DEF PassOf
  <1>11. /\ snap[n].val \in [SemNo -> Int] /\ snap[n].aoe \in [Proc -> [Ent -> Int]]
    BY <1>10, SnapElem
  <1>12. /\ semval = snap[n + 1].val /\ aoe = snap[n + 1].aoe
         /\ Did(p, n) /\ Bounded(snap[n].aoe)
    BY <1>7, <1>10 DEF PassOf
  <1>13. semval' = snap[n].val
    <2>1. /\ semval[s] = snap[n].val[s] + o.op
          /\ \A x \in SemNo : x # s => semval[x] = snap[n].val[x]
      BY <1>2, <1>3, <1>12 DEF Did
    <2>2. \A x \in SemNo : semval'[x] = snap[n].val[x]
      <3>1. snap[n].val[s] \in Int
        BY <1>8, <1>11
      <3>2. semval'[s] = snap[n].val[s]
        BY <1>5, <1>8, <2>1, <3>1
      <3>3. QED
        BY <1>5, <1>8, <2>1, <3>2
    <2>3. semval' \in [SemNo -> Int]
      BY <1>5, <1>8
    <2>4. QED
      BY <1>11, <2>2, <2>3
  <1>14. aoe' = snap[n].aoe /\ sem_undo \subseteq sem_undo'
    <2>1. sem_undo \subseteq sem_undo'
      BY <1>5, <1>8, semaoeEffect DEF undo
    <2>2. CASE ~(o.undo /\ o.op # 0)
      <3>1. aoe = snap[n].aoe
        BY <1>2, <1>12, <2>2 DEF Did
      <3>2. aoe' = aoe
        <4>1. CASE ~o.undo
          BY <1>5, <4>1 DEF undo
        <4>2. CASE o.undo
          <5>1. semaoe(p, -o.op, k) /\ o.op = 0
            BY <1>5, <2>2, <4>2, Zenon
          <5>2. -o.op = 0
            <6>1. \A x \in Int : -x \in Int /\ -x + x = 0
              OBVIOUS
            <6>2. PICK y \in Int : y = -o.op /\ y + o.op = 0
              BY <1>8, <6>1, Zenon
            <6>3. y + 0 = 0
              BY <5>1, <6>2
            <6>4. y = 0
              BY <6>3
            <6>5. QED
              BY <6>2, <6>4, Zenon
          <5>3. QED
            BY <1>8, <5>1, <5>2, semaoeEffect
        <4>3. QED
          BY <4>1, <4>2
      <3>3. QED
        BY <2>1, <3>1, <3>2
    <2>3. CASE o.undo /\ o.op # 0
      <3>1. /\ Abs(o.op) <= SEMAEM /\ p \in sem_undo
            /\ aoe[p][k] = snap[n].aoe[p][k] - o.op
            /\ \A l \in Ent : l # k => aoe[p][l] = snap[n].aoe[p][l]
            /\ \A q \in Proc : q # p => aoe[q] = snap[n].aoe[q]
        BY <1>2, <1>4, <1>12, <2>3 DEF Did
      <3>2. snap[n].aoe[p][k] \in Int /\ snap[n].aoe[p] \in [Ent -> Int]
        BY <1>8, <1>11
      <3>3. aoe[p][k] - (-o.op) = snap[n].aoe[p][k]
        BY <1>8, <3>1, <3>2
      <3>4. ~(Abs(aoe[p][k] - (-o.op)) > SEMAEM)
        <4>1. Abs(snap[n].aoe[p][k]) <= SEMAEM /\ Abs(snap[n].aoe[p][k]) \in Int
          BY <1>8, <1>12, <3>2 DEF Bounded, Abs
        <4>2. QED
          BY <3>3, <4>1, ConstLemma
      <3>5. ~(Abs(-o.op) > SEMAEM) /\ -o.op # 0
        BY <1>8, <2>3, <3>1, ConstLemma DEF Abs
      <3>6. ~(aoe[p][k] = 0 /\ Cardinality(Entries(aoe[p])) >= SEMUME)
        <4> SUFFICES ASSUME aoe[p][k] = 0 PROVE Cardinality(Entries(aoe[p])) < SEMUME
          BY EntriesFinite, ConstLemma
        <4>1. k \in Entries(snap[n].aoe[p]) /\ k \notin Entries(aoe[p])
          BY <1>8, <2>3, <3>1, <3>2 DEF Entries
        <4>2. Entries(aoe[p]) = Entries(snap[n].aoe[p]) \ {k}
          BY <3>1, <4>1 DEF Entries
        <4>3. Cardinality(Entries(aoe[p])) = Cardinality(Entries(snap[n].aoe[p])) - 1
          <5>1. IsFiniteSet(Entries(snap[n].aoe[p]))
            BY EntriesFinite
          <5>2. Cardinality(Entries(snap[n].aoe[p]) \ {k}) = Cardinality(Entries(snap[n].aoe[p])) - 1
            BY <4>1, <5>1, FS_RemoveElement
          <5>3. QED
            BY <4>2, <5>2
        <4>4. Cardinality(Entries(snap[n].aoe[p])) <= SEMUME
          BY <1>12 DEF Bounded
        <4>5. Cardinality(Entries(snap[n].aoe[p])) \in Nat
          BY EntriesFinite
        <4>6. QED
          BY <4>3, <4>4, <4>5, ConstLemma
      <3>7. semaoeError(p, -o.op, k) = ""
        BY <3>1, <3>4, <3>5, <3>6 DEF semaoeError
      <3>8. /\ \A q \in Proc : q # p => aoe'[q] = aoe[q]
            /\ \A l \in Ent : l # k => aoe'[p][l] = aoe[p][l]
            /\ aoe'[p][k] = aoe[p][k] - (-o.op)
        BY <1>5, <1>8, <2>3, <3>5, <3>7, semaoeEffect, ZenonT(60)
      <3>9. UndoType'
        BY <1>5, <1>8, <2>3, semaoeLemma
      <3>10. aoe' \in [Proc -> [Ent -> Int]] /\ aoe'[p] \in [Ent -> Int]
        BY <3>9 DEF UndoType
      <3>11. aoe'[p] = snap[n].aoe[p]
        <4>1. \A l \in Ent : aoe'[p][l] = snap[n].aoe[p][l]
          BY <3>1, <3>3, <3>8
        <4>2. QED
          BY <3>2, <3>10, <4>1
      <3>12. \A q \in Proc : aoe'[q] = snap[n].aoe[q]
        BY <3>1, <3>8, <3>11
      <3>13. QED
        BY <1>11, <2>1, <3>10, <3>12
    <2>4. QED
      BY <2>2, <2>3
  <1>15. \A j \in 1 .. Len(snap') - 1 : Did(p, j)'
    BY <1>5, <1>7, <1>14, DidKept DEF PassOf
  <1>16. \A j \in 1 .. Len(snap') : Bounded(snap[j].aoe)'
    BY <1>5, <1>7 DEF PassOf, Bounded
  <1>17. semval' = snap'[i'[p]].val /\ aoe' = snap'[i'[p]].aoe
    BY <1>5, <1>9, <1>13, <1>14
  <1>18. /\ i'[p] <= Len(snap') /\ Len(snap') <= Len(uap'[p].ops) + 1
         /\ pc'[p] = "undo" /\ snap' # <<>>
    BY <1>5, <1>7, <1>9, <1>10 DEF PassOf
  <1>19. PassOf(p)'
    BY <1>15, <1>16, <1>17, <1>18 DEF PassOf
  <1>20. QED
    BY <1>5, <1>19, PassAlone

\* A step in which a process enters or leaves a call, or is not in a pass.
LEMMA AsidePass ==
  ASSUME CallInv, NEW p \in Proc, cpu \in {p, None}, NEW at, at \notin {"op", "undo"},
         pc' = [pc EXCEPT ![p] = at]
  PROVE  PassInv'
  <1>1. pc'[p] = at /\ \A q \in Proc : q # p => pc'[q] = pc[q]
    BY TypeGroups DEF CallInv, CallType
  <1>2. ~Passing(p)'
    BY <1>1 DEF Passing
  <1>3. QED
    BY <1>1, <1>2, PassAlone

LEMMA ReturnPass ==
  ASSUME CallInv, NEW p \in Proc, cpu \in {p, None}, Return(p)
  PROVE  PassInv'
  <1>1. pc' = [pc EXCEPT ![p] = "user"]
    BY DEF Return
  <1>2. QED
    BY <1>1, AsidePass

LEMMA EnterPass ==
  ASSUME CallInv, NEW p \in Proc, NEW at \in {"copyin", "setall", "ipcset"}, NEW id, NEW ops,
         Enter(p, at, id, ops)
  PROVE  PassInv'
  <1>1. cpu = None /\ pc' = [pc EXCEPT ![p] = at]
    BY DEF Enter, MayCall
  <1>2. QED
    BY <1>1, AsidePass

LEMMA ResumePass ==
  ASSUME CallInv, UndoInv, PassInv, NEW p \in Proc, Resume(p)
  PROVE  PassInv'
  <1>1. ASSUME semopAgain(p), ~Return(p) PROVE PassInv'
    <2>1. cpu = None /\ pc' = [pc EXCEPT ![p] = "recopyin"]
      BY <1>1 DEF semopAgain, Awake
    <2>2. QED
      BY <2>1, AsidePass
  <1>2. ASSUME semopCopied(p), ~Return(p) PROVE PassInv'
    <2>1. Check(p) /\ cpu \in {p, None} /\ UNCHANGED <<semval, aoe, sem_undo, uap>>
      BY <1>2 DEF semopCopied, Copied, kern, undo
    <2>2. QED
      BY <2>1, CheckPass
  <1>3. ASSUME semopRecopied(p), ~Return(p) PROVE PassInv'
    <2>1. Check(p) /\ cpu \in {p, None} /\ UNCHANGED <<semval, aoe, sem_undo, uap>>
      BY <1>3 DEF semopRecopied, Copied, kern, undo
    <2>2. QED
      BY <2>1, CheckPass
  <1>4. ASSUME NEW vals, semctlSetallCopied(p, vals) PROVE Return(p)
    BY <1>4 DEF semctlSetallCopied
  <1>5. semctlSetCopied(p) \/ semopIntr(p) => Return(p)
    BY DEF semctlSetCopied, semopIntr
  <1>6. cpu \in {p, None}
    BY DEF Resume, semopAgain, semopIntr, Awake, semopCopied, semopRecopied, semctlSetCopied,
           semctlSetallCopied, Copied
  <1>7. QED
    BY <1>1, <1>2, <1>3, <1>4, <1>5, <1>6, ReturnPass DEF Resume

LEMMA PassInvStep ==
  ASSUME CallInv, IndexOK, UndoInv, PassInv, [Next]_vars
  PROVE  PassInv'
  <1>1. ASSUME cpu = None, UNCHANGED pc PROVE PassInv'
    <2>1. \A p \in Proc : ~Passing(p)
      BY <1>1, NoneLemma DEF CallInv, CpuOK
    <2>2. QED
      BY <1>1, <2>1 DEF PassInv, Passing
  <1>2. ASSUME UNCHANGED <<kern, undo, call, hist>> PROVE PassInv'
    <2>1. UNCHANGED <<semval, sema, aoe, sem_undo, cpu, pc, uap, i, snap>>
      BY <1>2 DEF kern, undo, call, hist
    <2>2. ASSUME NEW p \in Proc, Passing(p) PROVE PassOf(p)'
      <3>1. PassOf(p)
        BY <2>2 DEF PassInv
      <3>2. \A j \in 1 .. Len(snap') - 1 : Did(p, j)'
        BY <2>1, <3>1, DidKept DEF PassOf
      <3>3. \A j \in 1 .. Len(snap') : Bounded(snap[j].aoe)'
        BY <2>1, <3>1 DEF PassOf, Bounded
      <3>4. QED
        BY <2>1, <3>1, <3>2, <3>3 DEF PassOf
    <2>3. QED
      BY <2>1, <2>2 DEF PassInv, Passing
  <1>3. ASSUME NEW p \in Proc, NEW key, NEW n, semget(p, key, n) PROVE PassInv'
    BY <1>1, <1>3 DEF semget, MayCall, call
  <1>4. ASSUME NEW p \in Proc, Semctl(p) PROVE PassInv'
    <2>1. ASSUME NEW id, semctlSetall(p, id) \/ semctlSet(p, id) PROVE PassInv'
      BY <2>1, EnterPass DEF semctlSetall, semctlSet
    <2>2. ASSUME NEW id, NEW num, NEW val, semctlRmid(p, id) \/ semctlSetval(p, id, num, val)
          PROVE  PassInv'
      BY <1>1, <2>2 DEF semctlRmid, semctlSetval, MayCall, call
    <2>3. QED
      BY <1>4, <2>1, <2>2 DEF Semctl
  <1>5. ASSUME NEW p \in Proc, semexit(p) PROVE PassInv'
    <2>1. cpu = None /\ UNCHANGED pc
      BY <1>5, ZenonT(40) DEF semexit, MayCall, call
    <2>2. QED
      BY <1>1, <2>1
  <1>6. ASSUME NEW p \in Proc, NEW id, NEW ops, semop(p, id, ops) PROVE PassInv'
    BY <1>6, EnterPass DEF semop
  <1>9. ASSUME NEW p \in Proc, semopSleep(p) PROVE PassInv'
    <2>1. cpu = p /\ (Return(p) \/ pc' = [pc EXCEPT ![p] = "sleep"])
      BY <1>9 DEF semopSleep
    <2>2. QED
      BY <2>1, ReturnPass, AsidePass
  <1>10. ASSUME NEW p \in Proc, PassStep(p) PROVE PassInv'
    <2>1. CASE semopError(p) \/ semopDone(p)
      BY <2>1, ReturnPass DEF semopError, semopDone
    <2>2. QED
      BY <1>9, <1>10, <2>1, semopDoPass, semopFailPass, semundoPass DEF PassStep
  <1>11. ASSUME NEW p \in Proc, psignal(p) PROVE PassInv'
    BY <1>2, <1>11 DEF psignal
  <1>12. CASE UNCHANGED vars
    BY <1>2, <1>12 DEF vars
  <1>13. QED
    BY <1>3, <1>4, <1>5, <1>6, <1>10, <1>11, <1>12, ResumePass DEF Next

-----------------------------------------------------------------------------
(* Sleepers are blocked *)

\* No process is in a pass.
Idle == \A p \in Proc : ~Passing(p)

\* The sleepers that WaitsOnlyWhenBlocked speaks of.
Watched(p) == wchan[p] # None /\ p \notin stale /\ NamesOnce(uap[p].ops)

\* Some operation of p cannot be done with the values val, and channel c is
\* the one to wait for it on.
BlockedOn(p, c, val) ==
  \E j \in 1 .. Len(uap[p].ops) :
    LET o == uap[p].ops[j]
        s == SemAt(p, o.num)
    IN \/ c = <<s, "n">> /\ o.op < 0 /\ val[s] < -o.op
       \/ c = <<s, "z">> /\ o.op = 0 /\ val[s] # 0

\* Every such sleeper is blocked with the values val.
AllBlocked(val) == \A p \in Proc : Watched(p) => BlockedOn(p, wchan[p], val)

\* A semaphore that no operation before j named has in snap[j] the value it
\* had at the beginning.
Untouched(p) ==
  \A j \in 1 .. Len(snap) : \A x \in SemNo :
    (\A l \in 1 .. j - 1 : SemAt(p, uap[p].ops[l].num) # x) => snap[j].val[x] = snap[1].val[x]

\* Between two passes the sleepers are blocked with the present values; during
\* one, with those of each state it went through, and whoever is about to
\* sleep is blocked with the values it will leave behind.
AboutToWait(p) ==
  /\ pc[p] = "undo" /\ err[p] \in {"n", "z"}
  /\ p \notin stale /\ NamesOnce(uap[p].ops)
BlockOf(p) ==
  /\ \A j \in 1 .. Len(snap) : AllBlocked(snap[j].val)
  /\ Untouched(p)
  /\ AboutToWait(p) => BlockedOn(p, semp[p], snap[1].val)
BlockInv ==
  /\ Idle => AllBlocked(semval)
  /\ \A p \in Proc : Passing(p) => BlockOf(p)

\* Raising a value wakes those who wait for a larger one, and clearing it
\* those who wait for zero: the others stay blocked.
WakesFor(cs, v, w) ==
  \A x \in SemNo :
    /\ w[x] > v[x] /\ w[x] > 0 => <<x, "n">> \in cs
    /\ w[x] = 0 /\ v[x] # 0 => <<x, "z">> \in cs

LEMMA SleeperSet ==
  ASSUME CallInv, NEW p \in Proc, Watched(p)
  PROVE  /\ pc[p] = "sleep" /\ uap[p].id[2] \in Slot /\ sema[uap[p].id[2]].alloc
         /\ wchan[p] \in Chan /\ wchan[p][1] \in SemNo
  <1>1. pc[p] = "sleep" /\ semconv(uap[p].id)
    BY DEF Watched, CallInv, WaitOK, WaitOKOf, CallOK, CallOKOf
  <1>2. uap[p].id[2] \in Slot /\ wchan[p] \in Chan
    BY TypeGroups DEF Watched, CallInv, CallType, ChanType, Id
  <1>3. QED
    BY <1>1, <1>2 DEF semconv, Chan

\* Only the process with the processor is in a pass.
LEMMA IdleNow ==
  ASSUME CallInv, NEW p \in Proc, cpu \in {p, None}, ~Passing(p)
  PROVE  Idle
  BY NoneLemma DEF CallInv, CpuOK, Idle

LEMMA IdleNext ==
  ASSUME CallInv, NEW p \in Proc, cpu \in {p, None},
         \A q \in Proc : q # p => pc'[q] = pc[q], ~Passing(p)'
  PROVE  Idle'
  <1>1. \A q \in Proc : q # p => ~Passing(q)
    BY NoneLemma DEF CallInv, CpuOK
  <1>2. QED
    BY <1>1 DEF Idle, Passing

LEMMA IdleReturn ==
  ASSUME CallInv, NEW p \in Proc, cpu \in {p, None}, Return(p)
  PROVE  /\ Idle' /\ stale' = stale \ {p}
         /\ \A q \in Proc : q # p => uap'[q] = uap[q]
  <1>1. /\ pc'[p] = "user" /\ \A q \in Proc : q # p => pc'[q] = pc[q]
        /\ stale' = stale \ {p} /\ \A q \in Proc : q # p => uap'[q] = uap[q]
    BY TypeGroups DEF Return, CallInv, CallType
  <1>2. ~Passing(p)'
    BY <1>1 DEF Passing
  <1>3. QED
    BY <1>1, <1>2, IdleNext

\* A pass is the only one.
LEMMA BlockAlone ==
  ASSUME CallInv, NEW p \in Proc, cpu = p, \A q \in Proc : q # p => pc'[q] = pc[q],
         Passing(p)', BlockOf(p)'
  PROVE  BlockInv'
  <1>1. \A q \in Proc : q # p => ~Passing(q)
    BY DEF CallInv, CpuOK
  <1>2. \A q \in Proc : q # p => ~Passing(q)'
    BY <1>1 DEF Passing
  <1>3. ~Idle'
    BY DEF Idle
  <1>4. \A q \in Proc : Passing(q)' => BlockOf(q)'
    BY <1>2
  <1>5. QED
    BY <1>3, <1>4 DEF BlockInv

\* BlockedOn speaks of the values of one semaphore, and of what the call and
\* its set are.
LEMMA BlockedSame ==
  ASSUME NEW p \in Proc, NEW c, NEW v, BlockedOn(p, c, v), uap'[p] = uap[p],
         sema'[uap[p].id[2]].base = sema[uap[p].id[2]].base
  PROVE  BlockedOn(p, c, v)'
  BY DEF BlockedOn, SemAt

LEMMA WakeKeeps ==
  ASSUME CallInv, NEW cs, wake(cs), NEW v \in [SemNo -> Int], NEW w \in [SemNo -> Int],
         WakesFor(cs, v, w), AllBlocked(v),
         NEW p \in Proc, Watched(p), wchan'[p] # None
  PROVE  wchan'[p] = wchan[p] /\ BlockedOn(p, wchan[p], w)
  <1>1. /\ wchan'[p] = wchan[p] /\ wchan[p] # None /\ wchan[p] \notin cs
    <2>1. /\ wchan'[p] \in {None, wchan[p]}
          /\ wchan[p] \in cs /\ wchan[p] # None => wchan'[p] = None
      BY wakeLemma, TypeGroups DEF CallInv
    <2>2. QED
      BY <2>1
  <1>2. BlockedOn(p, wchan[p], v)
    BY <1>1 DEF AllBlocked
  <1>3. PICK j \in 1 .. Len(uap[p].ops) :
          LET o == uap[p].ops[j]
              s == SemAt(p, o.num)
          IN \/ wchan[p] = <<s, "n">> /\ o.op < 0 /\ v[s] < -o.op
             \/ wchan[p] = <<s, "z">> /\ o.op = 0 /\ v[s] # 0
    BY <1>2 DEF BlockedOn
  <1>4. PICK o : o = uap[p].ops[j]
    OBVIOUS
  <1>5. PICK s : s = SemAt(p, o.num)
    OBVIOUS
  <1>6. o.op \in Int
    <2>1. uap[p].ops[j] \in Sembuf
      BY OpType DEF CallInv
    <2>2. QED
      BY <1>4, <2>1 DEF Sembuf
  <1>7. \/ wchan[p] = <<s, "n">> /\ o.op < 0 /\ v[s] < -o.op
        \/ wchan[p] = <<s, "z">> /\ o.op = 0 /\ v[s] # 0
    BY <1>3, <1>4, <1>5
  <1>8. s \in SemNo
    <2>1. wchan[p][1] \in SemNo
      BY <1>1, SleeperSet
    <2>2. QED
      BY <1>7, <2>1
  <1>9. v[s] \in Int /\ w[s] \in Int
    BY <1>8
  <1>10. CASE wchan[p] = <<s, "n">> /\ o.op < 0 /\ v[s] < -o.op
    <2>1. ~(w[s] > v[s] /\ w[s] > 0)
      BY <1>1, <1>8, <1>10 DEF WakesFor
    <2>2. w[s] < -o.op
      BY <1>6, <1>9, <1>10, <2>1
    <2>3. QED
      BY <1>1, <1>4, <1>5, <1>10, <2>2 DEF BlockedOn
  <1>11. CASE wchan[p] = <<s, "z">> /\ o.op = 0 /\ v[s] # 0
    <2>1. w[s] # 0
      BY <1>1, <1>8, <1>11 DEF WakesFor
    <2>2. QED
      BY <1>1, <1>4, <1>5, <1>11, <2>1 DEF BlockedOn
  <1>12. QED
    BY <1>7, <1>10, <1>11

\* A step between two passes that wakes whom it must.
LEMMA QuietBlock ==
  ASSUME CallInv, BlockInv, Idle, Idle',
         \A q \in Proc : Watched(q)' => Watched(q) /\ uap'[q] = uap[q],
         NEW cs, wake(cs), semval' \in [SemNo -> Int], WakesFor(cs, semval, semval'),
         \A s \in Slot : sema'[s].base = sema[s].base
  PROVE  BlockInv'
  <1>1. semval \in [SemNo -> Int] /\ AllBlocked(semval)
    BY TypeGroups DEF CallInv, BlockInv
  <1>2. PICK w \in [SemNo -> Int] : w = semval'
    OBVIOUS
  <1>3. ASSUME NEW p \in Proc, Watched(p)' PROVE BlockedOn(p, wchan[p], semval)'
    <2>1. Watched(p) /\ uap'[p] = uap[p] /\ wchan'[p] # None
      BY <1>3 DEF Watched
    <2>2. wchan'[p] = wchan[p] /\ BlockedOn(p, wchan[p], w)
      BY <1>1, <1>2, <2>1, WakeKeeps
    <2>3. PICK c : c = wchan[p]
      OBVIOUS
    <2>4. uap[p].id[2] \in Slot
      BY <2>1, SleeperSet
    <2>5. BlockedOn(p, c, w)'
      BY <2>1, <2>2, <2>3, <2>4, BlockedSame
    <2>6. QED
      BY <1>2, <2>2, <2>3, <2>5 DEF BlockedOn
  <1>4. AllBlocked(semval)'
    BY <1>3 DEF AllBlocked
  <1>5. QED
    BY <1>4 DEF BlockInv, Idle

\* A step that wakes some sleepers, and changes nothing they depend on.
LEMMA FewerBlocked ==
  ASSUME CallInv, NEW v, AllBlocked(v), \A q \in Proc : wchan'[q] \in {None, wchan[q]},
         \A q \in Proc : Watched(q)' =>
           /\ q \notin stale /\ uap'[q] = uap[q]
           /\ sema'[uap[q].id[2]].base = sema[uap[q].id[2]].base
  PROVE  AllBlocked(v)'
  <1> SUFFICES ASSUME NEW p \in Proc, Watched(p)' PROVE BlockedOn(p, wchan[p], v)'
    BY DEF AllBlocked
  <1>1. PICK c : c = wchan[p]
    OBVIOUS
  <1>2. wchan'[p] = c /\ Watched(p)
    BY <1>1 DEF Watched
  <1>3. BlockedOn(p, c, v)
    BY <1>1, <1>2 DEF AllBlocked
  <1>4. BlockedOn(p, c, v)'
    BY <1>3, BlockedSame
  <1>5. QED
    BY <1>2, <1>4 DEF BlockedOn

\* A process enters or leaves a call, and nobody is in a pass afterwards.
LEMMA MoveBlock ==
  ASSUME CallInv, NEW p \in Proc, AllBlocked(semval), Idle', semval' = semval,
         \A s \in Slot : sema'[s].base = sema[s].base,
         wchan'[p] = None, \A q \in Proc : wchan'[q] \in {None, wchan[q]},
         \A q \in Proc : q # p => uap'[q] = uap[q], stale \ {p} \subseteq stale'
  PROVE  BlockInv'
  <1>1. PICK v : v = semval
    OBVIOUS
  <1>2. AllBlocked(v)
    BY <1>1
  <1>3. ASSUME NEW q \in Proc, Watched(q)'
        PROVE  /\ q \notin stale /\ uap'[q] = uap[q]
               /\ sema'[uap[q].id[2]].base = sema[uap[q].id[2]].base
    <2>1. q # p /\ q \notin stale'
      BY <1>3 DEF Watched
    <2>2. uap[q].id[2] \in Slot
      BY TypeGroups DEF CallInv, CallType, Id
    <2>3. QED
      BY <2>1, <2>2
  <1>4. AllBlocked(v)'
    BY <1>2, <1>3, FewerBlocked
  <1>5. AllBlocked(semval)'
    BY <1>1, <1>4 DEF AllBlocked, BlockedOn
  <1>6. QED
    BY <1>5 DEF BlockInv, Idle

LEMMA RunnerAwake ==
  ASSUME CallInv, NEW p \in Proc, pc[p] # "sleep"
  PROVE  wchan[p] = None
  BY DEF CallInv, WaitOK, WaitOKOf

\* A pass begins.
LEMMA CheckBlock ==
  ASSUME CallInv, BlockInv, NEW p \in Proc, cpu \in {p, None}, ~Passing(p), Check(p),
         UNCHANGED <<sema, semval, wchan, uap, stale>>
  PROVE  BlockInv'
  <1>1. /\ snap' = <<[val |-> semval, aoe |-> aoe]>> /\ pc'[p] = "op"
        /\ \A q \in Proc : q # p => pc'[q] = pc[q]
    BY TypeGroups DEF Check, CallInv, CallType
  <1>2. Len(snap') = 1 /\ snap'[1].val = semval
    BY <1>1
  <1>3. PICK v : v = semval
    OBVIOUS
  <1>4. AllBlocked(v)
    BY <1>3, IdleNow DEF BlockInv
  <1>5. AllBlocked(v)'
    BY <1>4, FewerBlocked DEF Watched
  <1>6. AllBlocked(snap[1].val)'
    BY <1>2, <1>3, <1>5 DEF AllBlocked, BlockedOn
  <1>7. \A j \in 1 .. Len(snap') : AllBlocked(snap[j].val)'
    BY <1>2, <1>6
  <1>8. Untouched(p)'
    <2>1. \A j \in 1 .. Len(snap') : j = 1
      BY <1>2
    <2>2. QED
      BY <2>1 DEF Untouched
  <1>9. BlockOf(p)'
    BY <1>1, <1>7, <1>8 DEF BlockOf, AboutToWait
  <1>10. \A q \in Proc : Passing(q)' => q = p
    <2>1. Idle
      BY IdleNow
    <2>2. QED
      BY <1>1, <2>1 DEF Idle, Passing
  <1>11. Passing(p)'
    BY <1>1 DEF Passing
  <1>12. QED
    BY <1>9, <1>10, <1>11 DEF BlockInv, Idle

\* A call ends with the values it leaves behind.
LEMMA ReturnBlock ==
  ASSUME CallInv, NEW p \in Proc, cpu \in {p, None}, Return(p), semval' = semval,
         \A s \in Slot : sema'[s].base = sema[s].base,
         AllBlocked(semval), wchan'[p] = None, \A q \in Proc : wchan'[q] \in {None, wchan[q]}
  PROVE  BlockInv'
  <1>1. Idle' /\ stale' = stale \ {p} /\ \A q \in Proc : q # p => uap'[q] = uap[q]
    BY IdleReturn
  <1>2. QED
    BY <1>1, MoveBlock

\* The present values are those of a state of the pass.
LEMMA PassBlocked ==
  ASSUME CallInv, PassInv, BlockInv, NEW p \in Proc, Passing(p)
  PROVE  AllBlocked(semval)
  <1>1. PassOf(p) /\ i[p] \in 1 .. Len(snap)
    BY IndexType, SnapFacts DEF PassInv, PassOf
  <1>2. AllBlocked(snap[i[p]].val)
    BY <1>1 DEF BlockInv, BlockOf
  <1>3. QED
    BY <1>1, <1>2 DEF PassOf

LEMMA EnterBlock ==
  ASSUME CallInv, BlockInv, NEW p \in Proc, NEW at \in {"copyin", "setall", "ipcset"},
         NEW id, NEW ops, Enter(p, at, id, ops)
  PROVE  BlockInv'
  <1>1. /\ cpu = None /\ pc[p] = "user" /\ pc' = [pc EXCEPT ![p] = at]
        /\ uap' = [uap EXCEPT ![p] = [id |-> id, ops |-> ops]]
        /\ UNCHANGED <<sema, semval, wchan, stale>>
    BY DEF Enter, MayCall, kern
  <1>2. /\ ~Passing(p) /\ ~Passing(p)' /\ \A q \in Proc : q # p => pc'[q] = pc[q]
        /\ \A q \in Proc : q # p => uap'[q] = uap[q]
    BY <1>1, TypeGroups DEF CallInv, CallType, Passing
  <1>3. Idle /\ Idle' /\ wchan[p] = None
    BY <1>1, <1>2, IdleNow, IdleNext, RunnerAwake
  <1>4. QED
    BY <1>1, <1>2, <1>3, MoveBlock DEF BlockInv

\* A step from one state without calls in a pass to another.
LEMMA CalmBlock ==
  ASSUME CallInv, cpu = None, UNCHANGED call
  PROVE  Idle /\ Idle'
  <1>1. Idle
    BY NoneLemma DEF CallInv, CpuOK, Idle
  <1>2. QED
    BY <1>1 DEF call, Idle, Passing

LEMMA semctlRmidBlock ==
  ASSUME CallInv, BlockInv, NEW p \in Proc, NEW id \in Id, semctlRmid(p, id)
  PROVE  BlockInv'
  <1>1. PICK slot \in Slot : slot = id[2]
    BY DEF Id
  <1>2. /\ cpu = None /\ UNCHANGED call
        /\ semval' = Cleared(semval, slot)
        /\ stale \subseteq stale'
        /\ wake(SemsOf(slot) \X {"n", "z"})
        /\ sema' = [sema EXCEPT ![slot] = [alloc |-> FALSE, seq |-> NextSeq(id), key |-> @.key,
                                       base |-> @.base, nsems |-> @.nsems]]
    BY <1>1 DEF semctlRmid, RmidWake, MayCall
  <1>3. \A s \in Slot : sema'[s].base = sema[s].base
    BY <1>2, TypeGroups DEF CallInv, SemaType
  <1>4. semval' = [s \in SemNo |-> IF s \in SemsOf(slot) THEN 0 ELSE semval[s]]
    BY <1>2 DEF Cleared
  <1>5. semval \in [SemNo -> Int] /\ semval' \in [SemNo -> Int]
    BY <1>4, TypeGroups DEF CallInv
  <1>6. WakesFor(SemsOf(slot) \X {"n", "z"}, semval, semval')
    BY <1>4, <1>5 DEF WakesFor
  <1>7. \A q \in Proc : Watched(q)' => Watched(q) /\ uap'[q] = uap[q]
    <2>1. \A q \in Proc : wchan'[q] \in {None, wchan[q]}
      BY <1>2, wakeLemma, TypeGroups DEF CallInv
    <2>2. QED
      BY <1>2, <2>1 DEF Watched, call
  <1>8. QED
    BY <1>2, <1>3, <1>5, <1>6, <1>7, CalmBlock, QuietBlock

LEMMA semctlSetvalBlock ==
  ASSUME CallInv, BlockInv, NEW p \in Proc, NEW id \in Id, NEW num \in Num, NEW val \in 0 .. SEMVMX,
         semctlSetval(p, id, num, val)
  PROVE  BlockInv'
  <1>1. PICK s : s = sema[id[2]].base + num
    OBVIOUS
  <1>2. PICK cs : cs = {<<s, IF val # 0 THEN "n" ELSE "z">>}
    OBVIOUS
  <1>3. /\ cpu = None /\ UNCHANGED <<call, sema, stale>>
        /\ semval' = [semval EXCEPT ![s] = val]
        /\ wake(cs)
    BY <1>1, <1>2 DEF semctlSetval, MayCall
  <1>4. val \in Int /\ semval \in [SemNo -> Int] /\ val >= 0
    BY ConstLemma, TypeGroups DEF CallInv
  <1>5. semval' \in [SemNo -> Int] /\ \A x \in SemNo : semval'[x] = IF x = s THEN val ELSE semval[x]
    BY <1>3, <1>4
  <1>6. WakesFor(cs, semval, semval')
    <2> SUFFICES ASSUME NEW x \in SemNo
                 PROVE  /\ semval'[x] > semval[x] /\ semval'[x] > 0 => <<x, "n">> \in cs
                        /\ semval'[x] = 0 /\ semval[x] # 0 => <<x, "z">> \in cs
      BY DEF WakesFor
    <2>1. CASE x # s
      BY <1>4, <1>5, <2>1
    <2>2. CASE x = s /\ val = 0
      BY <1>2, <1>4, <1>5, <2>2
    <2>3. CASE x = s /\ val # 0
      BY <1>2, <1>4, <1>5, <2>3
    <2>4. QED
      BY <2>1, <2>2, <2>3
  <1>7. \A q \in Proc : Watched(q)' => Watched(q) /\ uap'[q] = uap[q]
    <2>1. \A q \in Proc : wchan'[q] \in {None, wchan[q]}
      BY <1>3, wakeLemma, TypeGroups DEF CallInv
    <2>2. QED
      BY <1>3, <2>1 DEF Watched, call
  <1>8. QED
    BY <1>3, <1>5, <1>6, <1>7, CalmBlock, QuietBlock

LEMMA semctlSetallCopiedBlock ==
  ASSUME CallInv, BlockInv, NEW p \in Proc, NEW vals \in [SemNo -> 0 .. SEMVMX],
         semctlSetallCopied(p, vals)
  PROVE  BlockInv'
  <1>1. PICK mine : mine = SemsOf(uap[p].id[2])
    OBVIOUS
  <1>2. PICK cs : cs = {<<s, IF vals[s] # 0 THEN "n" ELSE "z">> : s \in mine}
    OBVIOUS
  <1>3. /\ cpu \in {p, None} /\ pc[p] = "setall" /\ Return(p) /\ UNCHANGED sema
        /\ \/ /\ semval' = [s \in SemNo |-> IF s \in mine THEN vals[s] ELSE semval[s]]
              /\ wake(cs)
           \/ UNCHANGED <<semval, wchan>>
    BY <1>1, <1>2, Zenon DEF semctlSetallCopied, Copied
  <1>4. Idle /\ wchan[p] = None /\ AllBlocked(semval)
    BY <1>3, IdleNow, RunnerAwake DEF Passing, BlockInv
  <1>5. semval \in [SemNo -> Int] /\ \A x \in SemNo : vals[x] \in Int /\ vals[x] >= 0
    BY ConstLemma, TypeGroups DEF CallInv
  <1>6. CASE /\ semval' = [s \in SemNo |-> IF s \in mine THEN vals[s] ELSE semval[s]]
             /\ wake(cs)
    <2>1. semval' \in [SemNo -> Int]
      BY <1>5, <1>6
    <2>2. WakesFor(cs, semval, semval')
      <3> SUFFICES ASSUME NEW x \in SemNo
                   PROVE  /\ semval'[x] > semval[x] /\ semval'[x] > 0 => <<x, "n">> \in cs
                          /\ semval'[x] = 0 /\ semval[x] # 0 => <<x, "z">> \in cs
        BY DEF WakesFor
      <3>1. CASE x \notin mine
        BY <1>5, <1>6, <3>1
      <3>2. CASE x \in mine /\ vals[x] = 0
        <4>1. <<x, "z">> \in cs
          BY <1>2, <3>2
        <4>2. QED
          BY <1>6, <3>2, <4>1
      <3>3. CASE x \in mine /\ vals[x] # 0
        <4>1. <<x, "n">> \in cs
          BY <1>2, <3>3
        <4>2. QED
          BY <1>6, <3>3, <4>1
      <3>4. QED
        BY <3>1, <3>2, <3>3
    <2>3. \A q \in Proc : wchan'[q] \in {None, wchan[q]}
      BY <1>6, wakeLemma, TypeGroups DEF CallInv
    <2>4. Idle' /\ stale' = stale \ {p} /\ \A q \in Proc : q # p => uap'[q] = uap[q]
      BY <1>3, IdleReturn
    <2>5. \A q \in Proc : Watched(q)' => Watched(q) /\ uap'[q] = uap[q]
      BY <1>4, <2>3, <2>4 DEF Watched
    <2>6. QED
      BY <1>3, <1>4, <1>6, <2>1, <2>2, <2>4, <2>5, QuietBlock
  <1>7. CASE UNCHANGED <<semval, wchan>>
    BY <1>3, <1>4, <1>7, ReturnBlock
  <1>8. QED
    BY <1>3, <1>6, <1>7

LEMMA semctlSetCopiedBlock ==
  ASSUME CallInv, BlockInv, NEW p \in Proc, semctlSetCopied(p)
  PROVE  BlockInv'
  <1>1. cpu \in {p, None} /\ pc[p] = "ipcset" /\ Return(p) /\ UNCHANGED <<semval, wchan>>
    BY DEF semctlSetCopied, Copied
  <1>2. Idle /\ wchan[p] = None /\ AllBlocked(semval)
    BY <1>1, IdleNow, RunnerAwake DEF Passing, BlockInv
  <1>3. \A s \in Slot : sema'[s].base = sema[s].base
    BY semctlSetCopiedSema DEF SemaKept
  <1>4. QED
    BY <1>1, <1>2, <1>3, ReturnBlock

LEMMA semexitBlock ==
  ASSUME CallInv, BlockInv, NEW p \in Proc, semexit(p)
  PROVE  BlockInv'
  <1> DEFINE at(k) == sema[k[1][2]].base + k[2]
             live == {k \in Entries(aoe[p]) : semconv(k[1]) /\ at(k) \in SemNo}
             done == {k \in live : Adjustable(semval[at(k)] + aoe[p][k])}
             v(k) == semval[at(k)] + aoe[p][k]
             zs == {<<at(k), "z">> : k \in {k \in done : v(k) = 0}}
             ns == {<<at(k), "n">> : k \in {k \in done : aoe[p][k] > 0}}
  <1>1. /\ cpu = None /\ UNCHANGED <<call, sema, stale>>
        /\ semval' = [s \in SemNo |-> IF \E k \in done : at(k) = s
                        THEN v(CHOOSE k \in done : at(k) = s) ELSE semval[s]]
        /\ wake(zs \cup ns)
    <2>1. cpu = None /\ UNCHANGED <<call, sema, stale>>
      BY ZenonT(40) DEF semexit, MayCall
    <2>2. /\ semval' = [s \in SemNo |-> IF \E k \in done : at(k) = s
                        THEN v(CHOOSE k \in done : at(k) = s) ELSE semval[s]]
          /\ wake(zs \cup ns)
      BY ZenonT(40) DEF semexit
    <2>3. QED
      BY <2>1, <2>2, Zenon
  <1>2. semval \in [SemNo -> Int] /\ \A k \in done : k \in Ent /\ aoe[p][k] \in Int
    BY TypeGroups DEF CallInv, UndoType, Entries
  <1>3. ASSUME NEW x \in SemNo
        PROVE  \/ semval'[x] = semval[x]
               \/ \E k \in done : at(k) = x /\ semval'[x] = v(k)
    BY <1>1, <1>3
  <1>4. semval' \in [SemNo -> Int]
    <2>1. \A x \in SemNo : semval'[x] \in Int
      BY <1>2, <1>3
    <2>2. QED
      BY <1>1, <2>1
  <1>5. WakesFor(zs \cup ns, semval, semval')
    <2> SUFFICES ASSUME NEW x \in SemNo
                 PROVE  /\ semval'[x] > semval[x] /\ semval'[x] > 0 => <<x, "n">> \in zs \cup ns
                        /\ semval'[x] = 0 /\ semval[x] # 0 => <<x, "z">> \in zs \cup ns
      BY DEF WakesFor
    <2>1. CASE semval'[x] = semval[x]
      BY <1>2, <2>1
    <2>2. CASE \E k \in done : at(k) = x /\ semval'[x] = v(k)
      <3>1. PICK k \in done : at(k) = x /\ semval'[x] = v(k)
        BY <2>2
      <3>2. semval[x] \in Int /\ aoe[p][k] \in Int /\ semval'[x] = semval[x] + aoe[p][k]
        BY <1>2, <3>1
      <3>3. semval'[x] > semval[x] => <<x, "n">> \in ns
        BY <3>1, <3>2
      <3>4. semval'[x] = 0 => <<x, "z">> \in zs
        BY <3>1
      <3>5. QED
        BY <3>3, <3>4
    <2>3. QED
      BY <1>3, <2>1, <2>2
  <1> HIDE DEF zs, ns, live, done, at, v
  <1>6. \A q \in Proc : Watched(q)' => Watched(q) /\ uap'[q] = uap[q]
    <2>1. \A q \in Proc : wchan'[q] \in {None, wchan[q]}
      BY <1>1, wakeLemma, TypeGroups DEF CallInv
    <2>2. QED
      BY <1>1, <2>1 DEF Watched, call
  <1>7. QED
    BY <1>1, <1>4, <1>5, <1>6, CalmBlock, QuietBlock

LEMMA semopDoBlock ==
  ASSUME CallInv, PassInv, BlockInv, NEW p \in Proc, semopDo(p), CallInv'
  PROVE  BlockInv'
  <1>1. PICK o : o = Op(p)
    OBVIOUS
  <1>2. PICK s : s = SemAt(p, o.num)
    OBVIOUS
  <1>3. PICK n : n = i[p]
    OBVIOUS
  <1>4. PICK cs : cs = (IF o.op > 0 THEN {<<s, "n">>} ELSE {})
                   \cup (IF o.op # 0 /\ semval[s] + o.op = 0 THEN {<<s, "z">>} ELSE {})
    OBVIOUS
  <1>5. /\ InOp(p) /\ cpu = p /\ pc[p] = "op"
        /\ semval' = [semval EXCEPT ![s] = semval[s] + o.op]
        /\ wake(cs)
        /\ snap' = Append(snap, [val |-> semval', aoe |-> aoe'])
        /\ UNCHANGED <<sema, cpu, pc, uap, stale>>
    BY <1>1, <1>2, <1>4 DEF semopDo, InOp
  <1>6. OpFair(p, o) /\ n \in 1 .. Len(uap[p].ops) /\ o = uap[p].ops[n]
    BY <1>1, <1>3, <1>5, CurrentOp DEF Op
  <1>7. PassOf(p) /\ Len(snap) = n /\ n \in Nat \ {0} /\ snap \in Seq(SnapType)
    BY <1>3, <1>5, IndexType, SnapFacts DEF PassInv, PassOf, Passing
  <1>8. s \in SemNo /\ o.op \in Int /\ semval \in [SemNo -> Int] /\ semval[s] \in Int
    BY <1>2, <1>6, TypeGroups DEF CallInv, OpIn, OpFair
  <1>9. /\ Len(snap') = n + 1 /\ snap'[n + 1].val = semval'
        /\ \A j \in 1 .. n : snap'[j] = snap[j]
    <2>1. PICK e : e = [val |-> semval', aoe |-> aoe']
      OBVIOUS
    <2>2. e.val = semval' /\ snap' = Append(snap, e)
      BY <1>5, <2>1
    <2>3. semval' \in [SemNo -> Int] /\ aoe' \in [Proc -> [Ent -> Int]]
      BY DEF CallInv, TypeOK
    <2>4. e \in SnapType
      BY <2>1, <2>3 DEF SnapType
    <2>5. Len(snap') = n + 1 /\ snap'[n + 1] = e /\ \A j \in 1 .. n : snap'[j] = snap[j]
      BY <1>7, <2>2, <2>4
    <2>6. QED
      BY <2>2, <2>5
  <1>10. semval' \in [SemNo -> Int] /\ semval'[s] = semval[s] + o.op
         /\ \A x \in SemNo : x # s => semval'[x] = semval[x]
    <2>1. semval' = [semval EXCEPT ![s] = semval[s] + o.op]
      BY <1>5
    <2>2. QED
      BY <1>8, <2>1
  <1>11. WakesFor(cs, semval, semval')
    <2> SUFFICES ASSUME NEW x \in SemNo
                 PROVE  /\ semval'[x] > semval[x] /\ semval'[x] > 0 => <<x, "n">> \in cs
                        /\ semval'[x] = 0 /\ semval[x] # 0 => <<x, "z">> \in cs
      BY DEF WakesFor
    <2>1. CASE x # s
      BY <1>8, <1>10, <2>1
    <2>2. CASE x = s
      BY <1>4, <1>8, <1>10, <2>2
    <2>3. QED
      BY <2>1, <2>2
  <1>12. PICK w \in [SemNo -> Int] : w = semval'
    BY <1>10
  <1>13. AllBlocked(semval) /\ WakesFor(cs, semval, w)
    BY <1>5, <1>11, <1>12, PassBlocked DEF Passing
  <1>14. \A q \in Proc : wchan'[q] \in {None, wchan[q]}
    BY <1>5, wakeLemma, TypeGroups DEF CallInv
  <1>15. AllBlocked(w)'
    <2> SUFFICES ASSUME NEW q \in Proc, Watched(q)' PROVE BlockedOn(q, wchan[q], w)'
      BY DEF AllBlocked
    <2>5. Watched(q) /\ wchan'[q] # None
      BY <1>5, <1>14 DEF Watched
    <2>1. wchan'[q] = wchan[q] /\ BlockedOn(q, wchan[q], w)
      BY <1>5, <1>8, <1>13, <2>5, WakeKeeps
    <2>2. PICK c : c = wchan[q]
      OBVIOUS
    <2>3. BlockedOn(q, c, w)'
      BY <1>5, <2>1, <2>2, BlockedSame
    <2>4. QED
      BY <2>1, <2>2, <2>3 DEF BlockedOn
  <1>16. AllBlocked(snap[n + 1].val)'
    BY <1>9, <1>12, <1>15 DEF AllBlocked, BlockedOn
  <1>17. ASSUME NEW j \in 1 .. n PROVE AllBlocked(snap[j].val)'
    <2>1. PICK v : v = snap[j].val
      OBVIOUS
    <2>2. AllBlocked(v)
      BY <1>5, <1>7, <1>17, <2>1 DEF BlockInv, BlockOf, Passing
    <2>3. AllBlocked(v)'
      BY <1>5, <1>14, <2>2, FewerBlocked DEF Watched
    <2>4. QED
      BY <1>9, <2>1, <2>3, SMTT(30) DEF AllBlocked, BlockedOn
  <1>18. \A j \in 1 .. Len(snap') : AllBlocked(snap[j].val)'
    <2>1. \A j \in 1 .. Len(snap') : j = n + 1 \/ j \in 1 .. n
      BY <1>7, <1>9
    <2>2. QED
      BY <1>16, <1>17, <2>1
  <1>19. Untouched(p)'
    <2> SUFFICES ASSUME NEW j \in 1 .. Len(snap'), NEW x \in SemNo,
                        \A l \in 1 .. j - 1 : SemAt(p, uap[p].ops[l].num)' # x
                 PROVE  snap'[j].val[x] = snap'[1].val[x]
      BY DEF Untouched
    <2>1. \A l \in 1 .. j - 1 : SemAt(p, uap[p].ops[l].num) # x
      BY <1>5 DEF SemAt
    <2>2. snap'[1] = snap[1] /\ Untouched(p)
      BY <1>5, <1>7, <1>9 DEF BlockInv, BlockOf, Passing
    <2>3. CASE j \in 1 .. n
      BY <1>7, <1>9, <2>1, <2>2, <2>3 DEF Untouched
    <2>4. CASE j = n + 1
      <3>1. n \in 1 .. j - 1 /\ n \in 1 .. Len(snap) /\ n \in 1 .. n
        BY <1>7, <2>4
      <3>2. x # s
        BY <1>2, <1>6, <2>1, <3>1
      <3>3. \A l \in 1 .. n - 1 : SemAt(p, uap[p].ops[l].num) # x
        BY <1>7, <2>1, <2>4
      <3>4. snap[n].val[x] = snap[1].val[x]
        BY <2>2, <3>1, <3>3 DEF Untouched
      <3>5. snap[n].val = semval
        BY <1>3, <1>7 DEF PassOf
      <3>6. QED
        BY <1>9, <1>10, <2>2, <2>4, <3>2, <3>4, <3>5
    <2>5. QED
      BY <1>7, <1>9, <2>3, <2>4
  <1>20. BlockOf(p)'
    BY <1>5, <1>18, <1>19 DEF BlockOf, AboutToWait
  <1>21. QED
    BY <1>5, <1>20, BlockAlone DEF Passing

LEMMA semopFailBlock ==
  ASSUME CallInv, PassInv, BlockInv, NEW p \in Proc, semopFail(p)
  PROVE  BlockInv'
  <1>1. PICK o : o = Op(p)
    OBVIOUS
  <1>2. PICK s : s = SemAt(p, o.num)
    OBVIOUS
  <1>3. PICK n : n = i[p]
    OBVIOUS
  <1>4. PICK e : e = Obstacle(p)
    OBVIOUS
  <1>5. /\ InOp(p) /\ cpu = p /\ pc[p] = "op"
        /\ err' = [err EXCEPT ![p] = e]
        /\ semp' = [semp EXCEPT ![p] = IF e \in {"n", "z"} THEN <<s, e>> ELSE None]
        /\ pc' = [pc EXCEPT ![p] = "undo"]
        /\ UNCHANGED <<sema, semval, cpu, uap, wchan, snap, stale>>
    BY <1>1, <1>2, <1>4 DEF semopFail, InOp, kern, hist
  <1>6. OpFair(p, o) /\ n \in 1 .. Len(uap[p].ops) /\ o = uap[p].ops[n]
    BY <1>1, <1>3, <1>5, CurrentOp DEF Op
  <1>7. PassOf(p) /\ Len(snap) = n /\ n \in Nat \ {0} /\ Untouched(p)
    BY <1>3, <1>5, IndexType DEF PassInv, PassOf, BlockInv, BlockOf, Passing
  <1>8. s \in SemNo /\ o.op \in Int /\ semval[s] \in Int
    BY <1>2, <1>6, TypeGroups DEF CallInv, OpIn, OpFair
  <1>9. ASSUME NEW j \in 1 .. Len(snap') PROVE AllBlocked(snap[j].val)'
    <2>1. PICK v : v = snap[j].val
      OBVIOUS
    <2>2. AllBlocked(v)
      BY <1>5, <1>9, <2>1 DEF BlockInv, BlockOf, Passing
    <2>3. AllBlocked(v)'
      BY <1>5, <2>2, FewerBlocked DEF Watched
    <2>4. QED
      BY <1>5, <2>1, <2>3 DEF AllBlocked, BlockedOn
  <1>10. Untouched(p)'
    BY <1>5, <1>7 DEF Untouched, SemAt
  <1>11. ASSUME e \in {"n", "z"}, NamesOnce(uap[p].ops)
         PROVE  BlockedOn(p, semp[p], snap[1].val)'
    <2>1. snap[1].val[s] = semval[s]
      <3>1. ASSUME NEW l \in 1 .. n - 1 PROVE SemAt(p, uap[p].ops[l].num) # s
        <4>1. l \in 1 .. Len(uap[p].ops) /\ l # n
          BY <1>6, <1>7, <3>1, IndexType
        <4>2. DOMAIN uap[p].ops = 1 .. Len(uap[p].ops)
          BY ListLength DEF CallInv
        <4>3. uap[p].ops[l].num # o.num
          BY <1>6, <1>11, <4>1, <4>2 DEF NamesOnce
        <4>4. uap[p].ops[l].num \in Nat /\ o.num \in Nat
          BY <1>5, <1>6, <4>1, OpOKLemma DEF OpIn, OpFair, Passing
        <4>5. sema[uap[p].id[2]].base \in Nat
          BY <1>6, TypeGroups DEF OpIn, OpFair, CallInv, SemaType
        <4>6. QED
          BY <1>2, <4>3, <4>4, <4>5 DEF SemAt
      <3>2. n \in 1 .. Len(snap)
        BY <1>7
      <3>3. snap[n].val[s] = snap[1].val[s]
        BY <1>7, <1>8, <3>1, <3>2 DEF Untouched
      <3>4. QED
        BY <1>3, <1>7, <3>3 DEF PassOf
    <2>2. \/ e = "n" /\ o.op < 0 /\ semval[s] < -o.op
          \/ e = "z" /\ o.op = 0 /\ semval[s] # 0
      <3>1. \A x, k : semaoeError(p, x, k) \notin {"n", "z"}
        BY DEF semaoeError
      <3>2. CASE o.op > 0
        BY <1>1, <1>2, <1>4, <1>11, <3>1, <3>2 DEF Obstacle
      <3>3. CASE o.op < 0
        <4>1. ~(o.op > 0)
          BY <1>8, <3>3
        <4>2. ~(semval[s] >= -o.op) /\ e = "n"
          BY <1>1, <1>2, <1>4, <1>11, <3>1, <3>3, <4>1 DEF Obstacle
        <4>3. QED
          BY <1>8, <3>3, <4>2
      <3>4. CASE o.op = 0
        <4>1. ~(o.op > 0) /\ ~(o.op < 0)
          BY <1>8, <3>4
        <4>2. semval[s] # 0 /\ e = "z"
          BY <1>1, <1>2, <1>4, <1>11, <3>4, <4>1 DEF Obstacle
        <4>3. QED
          BY <3>4, <4>2
      <3>5. QED
        BY <1>8, <3>2, <3>3, <3>4
    <2>3. semp'[p] = <<s, e>>
      BY <1>5, <1>11, TypeGroups DEF CallInv, CallType
    <2>4. \/ semp'[p] = <<s, "n">> /\ o.op < 0 /\ snap'[1].val[s] < -o.op
          \/ semp'[p] = <<s, "z">> /\ o.op = 0 /\ snap'[1].val[s] # 0
      BY <1>5, <2>1, <2>2, <2>3
    <2>5. uap'[p].ops[n] = o /\ SemAt(p, o.num)' = s /\ n \in 1 .. Len(uap'[p].ops)
      BY <1>2, <1>5, <1>6 DEF SemAt
    <2>6. QED
      BY <2>4, <2>5 DEF BlockedOn
  <1>12. err'[p] = e
    BY <1>5, TypeGroups DEF CallInv, CallType
  <1>13. pc'[p] = "undo" /\ \A q \in Proc : q # p => pc'[q] = pc[q]
    BY <1>5, TypeGroups DEF CallInv, CallType
  <1>14. BlockOf(p)'
    <2>1. AboutToWait(p)' => e \in {"n", "z"} /\ NamesOnce(uap[p].ops)
      BY <1>5, <1>12 DEF AboutToWait
    <2>2. QED
      BY <1>9, <1>10, <1>11, <2>1 DEF BlockOf
  <1>15. QED
    BY <1>5, <1>13, <1>14, BlockAlone DEF Passing

LEMMA semopSleepBlock ==
  ASSUME CallInv, PassInv, BlockInv, NEW p \in Proc, semopSleep(p)
  PROVE  BlockInv'
  <1>1. /\ cpu = p /\ pc[p] = "undo" /\ i[p] = 1 /\ err[p] \in {"n", "z"}
        /\ UNCHANGED <<sema, semval>>
    BY DEF semopSleep
  <1>2. AllBlocked(semval) /\ wchan[p] = None
    BY <1>1, PassBlocked, RunnerAwake DEF Passing
  <1>3. CASE Return(p)
    <2>1. pc'[p] = "user"
      BY <1>3, TypeGroups DEF Return, CallInv, CallType
    <2>2. pc' # [pc EXCEPT ![p] = "sleep"]
      BY <2>1, TypeGroups DEF CallInv, CallType
    <2>3. Uncount(semp[p], semcnt[semp[p]] + 1)
      BY <2>2 DEF semopSleep
    <2>4. \A q \in Proc : wchan'[q] \in {None, wchan[q]}
      BY <2>3 DEF Uncount
    <2>5. QED
      BY <1>1, <1>2, <1>3, <2>4, ReturnBlock
  <1>4. CASE ~Return(p)
    <2>1. /\ wchan' = [wchan EXCEPT ![p] = semp[p]] /\ pc' = [pc EXCEPT ![p] = "sleep"]
          /\ UNCHANGED <<uap, stale>>
      BY <1>4 DEF semopSleep
    <2>2. /\ wchan'[p] = semp[p] /\ \A q \in Proc : q # p => wchan'[q] = wchan[q]
          /\ pc'[p] = "sleep" /\ \A q \in Proc : q # p => pc'[q] = pc[q]
      BY <2>1, TypeGroups DEF CallInv, ChanType, CallType
    <2>3. ASSUME Watched(p)' PROVE BlockedOn(p, semp[p], semval)
      <3>1. AboutToWait(p)
        BY <1>1, <2>1, <2>3 DEF Watched, AboutToWait
      <3>2. BlockedOn(p, semp[p], snap[1].val)
        BY <1>1, <3>1 DEF BlockInv, BlockOf, Passing
      <3>3. semval = snap[1].val
        BY <1>1 DEF PassInv, PassOf, Passing
      <3>4. QED
        BY <3>2, <3>3
    <2>4. ASSUME NEW q \in Proc, Watched(q)' PROVE BlockedOn(q, wchan'[q], semval)
      <3>1. CASE q = p
        BY <2>2, <2>3, <2>4, <3>1
      <3>2. CASE q # p
        BY <1>2, <2>1, <2>2, <2>4, <3>2 DEF AllBlocked, Watched
      <3>3. QED
        BY <3>1, <3>2
    <2>5. AllBlocked(semval)'
      <3> SUFFICES ASSUME NEW q \in Proc, Watched(q)' PROVE BlockedOn(q, wchan[q], semval)'
        BY DEF AllBlocked
      <3>1. PICK c, v : c = wchan'[q] /\ v = semval
        OBVIOUS
      <3>2. BlockedOn(q, c, v)
        BY <2>4, <3>1
      <3>3. BlockedOn(q, c, v)'
        BY <1>1, <2>1, <3>2, BlockedSame
      <3>4. QED
        BY <1>1, <3>1, <3>3 DEF BlockedOn
    <2>6. Idle'
      BY <1>1, <2>2, IdleNext DEF Passing
    <2>7. QED
      BY <2>5, <2>6 DEF BlockInv, Idle
  <1>5. QED
    BY <1>3, <1>4

LEMMA ResumeBlock ==
  ASSUME CallInv, BlockInv, NEW p \in Proc, Resume(p)
  PROVE  BlockInv'
  <1>1. ASSUME semopAgain(p) PROVE BlockInv'
    <2>1. cpu = None /\ pc[p] = "sleep" /\ wchan[p] = None /\ UNCHANGED <<sema, semval, wchan>>
      BY <1>1 DEF semopAgain, Awake, kern
    <2>2. AllBlocked(semval)
      BY <2>1, IdleNow DEF BlockInv, Passing
    <2>3. CASE Return(p)
      BY <2>1, <2>2, <2>3, ReturnBlock
    <2>4. CASE ~Return(p)
      <3>1. pc' = [pc EXCEPT ![p] = "recopyin"] /\ UNCHANGED <<uap, stale>>
        BY <1>1, <2>4 DEF semopAgain
      <3>2. pc'[p] = "recopyin" /\ \A q \in Proc : q # p => pc'[q] = pc[q]
        BY <3>1, TypeGroups DEF CallInv, CallType
      <3>3. Idle'
        BY <2>1, <3>2, IdleNext DEF Passing
      <3>4. QED
        BY <2>1, <2>2, <3>1, <3>3, MoveBlock
    <2>5. QED
      BY <2>3, <2>4
  <1>2. ASSUME semopIntr(p) PROVE BlockInv'
    <2>1. /\ cpu = None /\ pc[p] = "sleep" /\ wchan[p] = None /\ Return(p)
          /\ Uncount(semp[p], semcnt[semp[p]])
          /\ UNCHANGED <<sema, semval>>
      BY <1>2 DEF semopIntr, Awake
    <2>2. \A q \in Proc : wchan'[q] \in {None, wchan[q]}
      BY <2>1 DEF Uncount
    <2>3. AllBlocked(semval) /\ wchan'[p] = None
      BY <2>1, <2>2, IdleNow DEF BlockInv, Passing
    <2>4. QED
      BY <2>1, <2>2, <2>3, ReturnBlock
  <1>3. ASSUME semopCopied(p) \/ semopRecopied(p) PROVE BlockInv'
    <2>1. /\ cpu \in {p, None} /\ pc[p] \in {"copyin", "recopyin"}
          /\ UNCHANGED <<sema, semval, wchan>>
          /\ Return(p) \/ (Check(p) /\ UNCHANGED <<uap, stale>>)
      BY <1>3 DEF semopCopied, semopRecopied, Copied, kern
    <2>2. ~Passing(p) /\ wchan[p] = None
      BY <2>1, RunnerAwake DEF Passing
    <2>3. AllBlocked(semval)
      BY <2>1, <2>2, IdleNow DEF BlockInv
    <2>4. QED
      BY <2>1, <2>2, <2>3, ReturnBlock, CheckBlock
  <1>4. QED
    BY <1>1, <1>2, <1>3, semctlSetCopiedBlock, semctlSetallCopiedBlock DEF Resume

LEMMA BlockStep ==
  ASSUME CallInv, PassInv, BlockInv, CallInv', [Next]_vars
  PROVE  BlockInv'
  <1>1. ASSUME UNCHANGED <<sema, pc, uap, semp, err, snap, stale>>,
               Idle => semval' = semval,
               \A q \in Proc : wchan'[q] \in {None, wchan[q]}
        PROVE  BlockInv'
    <2>1. ASSUME NEW v, AllBlocked(v) PROVE AllBlocked(v)'
      BY <1>1, <2>1, FewerBlocked DEF Watched
    <2>2. ASSUME Idle' PROVE AllBlocked(semval)'
      <3>1. PICK v : v = semval
        OBVIOUS
      <3>2. Idle
        BY <1>1, <2>2 DEF Idle, Passing
      <3>3. AllBlocked(v)'
        BY <2>1, <3>1, <3>2 DEF BlockInv
      <3>4. semval' = v
        BY <1>1, <3>1, <3>2
      <3>5. QED
        BY <1>1, <3>3, <3>4 DEF AllBlocked, BlockedOn
    <2>3. ASSUME NEW p \in Proc, Passing(p)' PROVE BlockOf(p)'
      <3>1. BlockOf(p)
        BY <1>1, <2>3 DEF Passing, BlockInv
      <3>2. ASSUME NEW j \in 1 .. Len(snap') PROVE AllBlocked(snap[j].val)'
        <4>1. PICK v : v = snap[j].val
          OBVIOUS
        <4>2. AllBlocked(v)'
          BY <1>1, <2>1, <3>1, <3>2, <4>1 DEF BlockOf
        <4>3. QED
          BY <1>1, <4>1, <4>2 DEF AllBlocked, BlockedOn
      <3>3. Untouched(p)'
        BY <1>1, <3>1 DEF BlockOf, Untouched, SemAt
      <3>4. AboutToWait(p)' => BlockedOn(p, semp[p], snap[1].val)'
        BY <1>1, <3>1 DEF BlockOf, AboutToWait, BlockedOn, SemAt
      <3>5. QED
        BY <3>2, <3>3, <3>4 DEF BlockOf
    <2>4. QED
      BY <2>2, <2>3 DEF BlockInv
  <1>2. ASSUME NEW p \in Proc, NEW key, NEW n, semget(p, key, n) PROVE BlockInv'
    <2>1. PICK s \in Slot :
            /\ ~sema[s].alloc
            /\ \E b : sema' = [sema EXCEPT ![s] = b]
      BY <1>2, Zenon DEF semget
    <2>2. cpu = None /\ UNCHANGED <<semval, call, wchan, stale>>
      BY <1>2 DEF semget, MayCall, hist
    <2>3. \A t \in Slot : t # s => sema'[t] = sema[t]
      BY <2>1, TypeGroups DEF CallInv, SemaType
    <2>4. PICK v : v = semval
      OBVIOUS
    <2>5. Idle /\ Idle' /\ AllBlocked(v)
      BY <2>2, <2>4, CalmBlock DEF BlockInv
    <2>6. \A q \in Proc : Watched(q)' =>
            /\ q \notin stale /\ uap'[q] = uap[q]
            /\ sema'[uap[q].id[2]].base = sema[uap[q].id[2]].base
      <3> SUFFICES ASSUME NEW q \in Proc, Watched(q)'
                   PROVE  /\ q \notin stale /\ uap'[q] = uap[q]
                          /\ sema'[uap[q].id[2]].base = sema[uap[q].id[2]].base
        OBVIOUS
      <3>1. Watched(q) /\ uap'[q] = uap[q]
        BY <2>2 DEF Watched, call
      <3>2. uap[q].id[2] \in Slot /\ uap[q].id[2] # s
        BY <2>1, <3>1, SleeperSet
      <3>3. QED
        BY <2>3, <3>1, <3>2 DEF Watched
    <2>7. AllBlocked(v)'
      BY <2>2, <2>5, <2>6, FewerBlocked
    <2>8. AllBlocked(semval)'
      BY <2>2, <2>4, <2>7 DEF AllBlocked, BlockedOn
    <2>9. QED
      BY <2>5, <2>8 DEF BlockInv, Idle
  <1>3. ASSUME NEW p \in Proc, Semctl(p) PROVE BlockInv'
    <2>1. ASSUME NEW id \in Id, semctlSetall(p, id) \/ semctlSet(p, id) PROVE BlockInv'
      BY <2>1, EnterBlock DEF semctlSetall, semctlSet
    <2>2. QED
      BY <1>3, <2>1, semctlRmidBlock, semctlSetvalBlock DEF Semctl
  <1>4. ASSUME NEW p \in Proc, NEW id, NEW ops, semop(p, id, ops) PROVE BlockInv'
    BY <1>4, EnterBlock DEF semop
  <1>7. ASSUME NEW p \in Proc, semopError(p) \/ semopDone(p) PROVE BlockInv'
    <2>1. cpu = p /\ Passing(p) /\ Return(p) /\ UNCHANGED <<sema, semval, wchan>>
      BY <1>7 DEF semopError, semopDone, kern, Passing
    <2>2. AllBlocked(semval) /\ wchan[p] = None
      BY <2>1, PassBlocked, RunnerAwake DEF Passing
    <2>3. QED
      BY <2>1, <2>2, ReturnBlock
  <1>9. ASSUME NEW p \in Proc, semundo(p) PROVE BlockInv'
    <2>1. Passing(p) /\ UNCHANGED <<sema, pc, uap, semp, err, wchan, snap, stale>>
      BY <1>9 DEF semundo, Passing
    <2>2. ~Idle
      BY <2>1 DEF Idle
    <2>3. QED
      BY <1>1, <2>1, <2>2
  <1>10. ASSUME NEW p \in Proc, psignal(p) PROVE BlockInv'
    <2>1. \A q \in Proc : wchan'[q] \in {None, wchan[q]}
      BY <1>10, TypeGroups DEF psignal, CallInv, ChanType
    <2>2. QED
      BY <1>1, <1>10, <2>1 DEF psignal, kern, call, hist
  <1>11. CASE UNCHANGED vars
    BY <1>1, <1>11 DEF vars, kern, call, hist
  <1>12. ASSUME NEW p \in Proc, PassStep(p) PROVE BlockInv'
    BY <1>7, <1>9, <1>12, semopDoBlock, semopFailBlock, semopSleepBlock DEF PassStep
  <1>13. QED
    BY <1>2, <1>3, <1>4, <1>10, <1>11, <1>12, semexitBlock, ResumeBlock DEF Next

\* The parts of UndoInv, LiveInv, PassInv and BlockInv before the first call.
LEMMA InitUndo ==
  ASSUME Init PROVE UndoInv /\ LiveInv /\ PassInv /\ BlockInv
  <1>1. /\ aoe = [p \in Proc |-> [k \in Ent |-> 0]] /\ sem_undo = {} /\ semunp = {}
        /\ semfup = SEMMNU /\ pc = [p \in Proc |-> "user"] /\ wchan = [p \in Proc |-> None]
        /\ semval = [s \in SemNo |-> 0] /\ semcnt = [c \in Chan |-> 0]
    BY Zenon DEF Init
  <1>2. \A p \in Proc : Entries(aoe[p]) = {} /\ \A k \in Ent : aoe[p][k] = 0
    BY <1>1 DEF Entries
  <1>3. Cardinality({}) = 0
    BY FS_EmptySet
  <1>4. UndoInv
    <2>1. semfup + Cardinality(sem_undo) = SEMMNU
      BY <1>1, <1>3, ConstLemma
    <2>2. UndoChainExact
      BY <1>1, <1>2, <2>1 DEF UndoChainExact
    <2>3. EntriesBounded
      BY <1>2, <1>3, ConstLemma DEF EntriesBounded, Abs
    <2>4. QED
      BY <2>2, <2>3 DEF UndoInv
  <1>5. LiveInv
    <2>1. \A s \in Slot : ~sema[s].alloc
      <3>1. sema = [s \in Slot |-> [alloc |-> FALSE, seq |-> 0, key |-> None,
                                    base |-> 1, nsems |-> 0]]
        BY Zenon DEF Init
      <3>2. QED
        BY <3>1
    <2>2. semmap = SemNo
      BY Zenon DEF Init
    <2>3. \A x \in SemNo : semval[x] = 0 /\ semcnt[<<x, "n">>] = 0 /\ semcnt[<<x, "z">>] = 0
      BY <1>1 DEF Chan
    <2>4. PoolDivided
      BY <2>1, <2>2, <2>3 DEF PoolDivided
    <2>5. QED
      BY <1>2, <2>4 DEF LiveInv, UndoEntriesLive
  <1>6. PassInv /\ BlockInv
    BY <1>1 DEF PassInv, BlockInv, AllBlocked, Passing, Watched
  <1>7. QED
    BY <1>4, <1>5, <1>6

\* Undo entries, the pool and the pass in progress: the invariant of the undo
\* bookkeeping of sem.c.  The limits of EntriesBounded are what makes semundo()
\* succeed: it gives back only what a pass took, which never exceeds them.
THEOREM SemUndoInv == Spec => [](UndoInv /\ LiveInv /\ PassInv)
  <1>1. Init => UndoInv /\ LiveInv /\ PassInv
    BY InitUndo
  <1>2. CallInv /\ IndexOK /\ UndoInv /\ LiveInv /\ PassInv /\ [Next]_vars
        => UndoInv' /\ LiveInv' /\ PassInv'
    BY UndoStep, LiveStep, PassInvStep
  <1>3. QED
    BY <1>1, <1>2, SemInv, PTL DEF Spec

\* semunrm() looks at the chain only, and semaoe(), semunrm() and semexit() all
\* move structures: the chain holds exactly those with entries, and every
\* structure is on the free list or owned by a process.
THEOREM UndoChainAlways == Spec => []UndoChainExact
  <1>1. UndoInv => UndoChainExact
    BY DEF UndoInv
  <1>2. QED
    BY <1>1, SemUndoInv, PTL

\* An adjustment does not outlive the set it is for, so semexit() does not
\* adjust the semaphores of a set that took the slot, unless the process has
\* gone on with a removed set.
THEOREM UndoLiveAlways == Spec => []UndoEntriesLive
  <1>1. LiveInv => UndoEntriesLive
    BY DEF LiveInv
  <1>2. QED
    BY <1>1, SemUndoInv, PTL

\* Sets and free map do not overlap, and semget() finds in the free map only
\* semaphores of value and counts 0, until a process goes on with a removed set.
THEOREM PoolDividedAlways == Spec => []PoolDivided
  <1>1. LiveInv => PoolDivided
    BY DEF LiveInv
  <1>2. QED
    BY <1>1, SemUndoInv, PTL

\* semop() is all or nothing: when semundo() is done, values and undo entries
\* are those the pass began with, whatever semaoe() created, changed or
\* dropped on the way.
THEOREM BackedOutAlways == Spec => []BackedOutExactly
  <1>1. CallInv /\ PassInv => BackedOutExactly
    <2> SUFFICES ASSUME CallInv, PassInv, NEW p \in Proc, pc[p] = "undo", i[p] = 1
                 PROVE  semval = snap[1].val /\ aoe = snap[1].aoe
      BY DEF BackedOutExactly
    <2>1. Passing(p)
      BY DEF Passing
    <2>2. QED
      BY <2>1 DEF PassInv, PassOf
  <1>2. QED
    BY <1>1, SemInv, SemUndoInv, PTL

\* With lists that name each semaphore once, the value before an operation is
\* the present one.
LEMMA BlockedStays ==
  ASSUME CallInv, NEW p \in Proc, wchan[p] # None, NamesOnce(uap[p].ops),
         BlockedOn(p, wchan[p], semval)
  PROVE  ~Satisfiable(p)
  <1>1. uap[p].ops \in OpLists \cup {<<>>}
    BY TypeGroups DEF CallInv, CallType
  <1>2. PICK j \in 1 .. Len(uap[p].ops) :
          LET o == uap[p].ops[j]
              s == SemAt(p, o.num)
          IN \/ wchan[p] = <<s, "n">> /\ o.op < 0 /\ semval[s] < -o.op
             \/ wchan[p] = <<s, "z">> /\ o.op = 0 /\ semval[s] # 0
    BY DEF BlockedOn
  <1>3. PICK ops : ops = uap[p].ops
    OBVIOUS
  <1>4. ops \in OpLists /\ ops \in Seq(Sembuf)
    BY <1>1, <1>2, <1>3, SemAssumption, SMTT(30)
  <1>5. j \in DOMAIN ops /\ ops[j] \in Sembuf
    BY <1>2, <1>3, <1>4
  <1>6. PICK S : S = {k \in 1 .. j - 1 : ops[k].num = ops[j].num}
    OBVIOUS
  <1>7. S = {}
    <2> SUFFICES ASSUME NEW k \in 1 .. j - 1, ops[k].num = ops[j].num PROVE FALSE
      BY <1>6
    <2>1. k \in DOMAIN ops /\ k # j
      BY <1>2, <1>3, <1>4
    <2>2. QED
      BY <1>3, <1>5, <2>1 DEF NamesOnce
  <1>8. PICK x : x = SemAt(p, ops[j].num)
    OBVIOUS
  <1>9. x \in SemNo /\ semval[x] \in Int
    <2>1. wchan[p] \in Chan
      BY TypeGroups DEF CallInv, ChanType
    <2>2. x = wchan[p][1]
      BY <1>2, <1>3, <1>8
    <2>3. x \in SemNo
      BY <2>1, <2>2 DEF Chan
    <2>4. QED
      BY <2>3, TypeGroups DEF CallInv, SemaType
  <1>10. PICK v : v = ValueBefore(p, j)
    OBVIOUS
  <1>11. v = semval[x]
    <2>1. MapThenSumSet(LAMBDA k : ops[k].op, S) = 0
      BY <1>7 DEF MapThenSumSet, MapThenFoldSet
    <2>2. v = semval[x] + MapThenSumSet(LAMBDA k : ops[k].op, S)
      BY <1>3, <1>6, <1>8, <1>10 DEF ValueBefore
    <2>3. QED
      BY <1>9, <2>1, <2>2
  <1>12. ops[j].op \in Int
    BY <1>5 DEF Sembuf
  <1>13. \/ ops[j].op < 0 /\ v < -ops[j].op
         \/ ops[j].op = 0 /\ v # 0
    BY <1>2, <1>3, <1>8, <1>11
  <1>14. \/ ops[j].op # 0 /\ v + ops[j].op \notin 0 .. SEMVMX
         \/ ops[j].op = 0 /\ v # 0
    BY <1>9, <1>11, <1>12, <1>13
  <1>15. QED
    BY <1>3, <1>5, <1>10, <1>14 DEF Satisfiable

\* No wakeup is missed: a process stays asleep in semop() only while one of
\* its operations cannot be done, so the wakeups that setting, adding,
\* taking and adjusting a value give are enough for lists that name each
\* semaphore at most once, in sets that still exist.  A list that takes from a
\* semaphore and then waits for it to be zero is not awakened when the value
\* falls to what the list takes.
THEOREM NoWakeupMissed == Spec => []WaitsOnlyWhenBlocked
  <1>1. Init => BlockInv
    BY InitUndo
  <1>2. CallInv /\ PassInv /\ BlockInv /\ CallInv' /\ [Next]_vars => BlockInv'
    BY BlockStep
  <1>3. CallInv /\ BlockInv => WaitsOnlyWhenBlocked
    <2> SUFFICES ASSUME CallInv, BlockInv, cpu = None, NEW p \in Proc, wchan[p] # None,
                        p \notin stale, NamesOnce(uap[p].ops)
                 PROVE  ~Satisfiable(p)
      BY DEF WaitsOnlyWhenBlocked
    <2>1. Idle
      BY NoneLemma DEF CallInv, CpuOK, Idle
    <2>2. BlockedOn(p, wchan[p], semval)
      BY <2>1 DEF BlockInv, AllBlocked, Watched
    <2>3. QED
      BY <2>2, BlockedStays
  <1>4. QED
    BY <1>1, <1>2, <1>3, SemInv, SemUndoInv, PTL DEF Spec

-----------------------------------------------------------------------------
(* Adjustments balance *)

\* The semaphore that entry k is for.
Place(k) == sema[k[1][2]].base + k[2]

\* All the adjustments in a that are pending on entry k.
Column(a, k) == [p \in Proc |-> a[p][k]]
Pending(a, k) == Total(Column(a, k), Proc)

\* UndoBalance by entries, and that free semaphores begin at 0.
BalanceInv ==
  /\ net \in [SemNo -> Int]
  /\ \A x \in semmap : net[x] = 0
  /\ \A k \in Ent : LiveEnt(k) => semval[Place(k)] + Pending(aoe, k) = net[Place(k)]

BalanceOK == strayed = {} => BalanceInv

AoeType(a) == a \in [Proc -> [Ent -> Int]]

LEMMA ColumnInts ==
  ASSUME NEW a, AoeType(a), NEW k \in Ent
  PROVE  IsFiniteSet(Proc) /\ Ints(Column(a, k), Proc) /\ \A p \in Proc : Column(a, k)[p] = a[p][k]
  BY SemAssumption DEF AoeType, Column, Ints

LEMMA PendingInt ==
  ASSUME NEW a, AoeType(a), NEW k \in Ent
  PROVE  Pending(a, k) \in Int
  BY ColumnInts, TotalType DEF Pending

LEMMA PendingSame ==
  ASSUME NEW a, AoeType(a), NEW b, AoeType(b), NEW k \in Ent, \A p \in Proc : a[p][k] = b[p][k]
  PROVE  Pending(b, k) = Pending(a, k)
  <1>1. \A p \in Proc : Column(a, k)[p] = Column(b, k)[p]
    BY ColumnInts
  <1>2. QED
    BY <1>1, ColumnInts, TotalSame DEF Pending

LEMMA PendingZero ==
  ASSUME NEW a, AoeType(a), NEW k \in Ent, \A p \in Proc : a[p][k] = 0
  PROVE  Pending(a, k) = 0
  <1>1. \A p \in Proc : Column(a, k)[p] = 0
    BY ColumnInts
  <1>2. QED
    BY <1>1, ColumnInts, TotalZero DEF Pending

LEMMA PendingChange ==
  ASSUME NEW a, AoeType(a), NEW b, AoeType(b), NEW k \in Ent, NEW p \in Proc,
         \A q \in Proc : q # p => a[q][k] = b[q][k]
  PROVE  Pending(b, k) = Pending(a, k) + b[p][k] - a[p][k]
  <1>1. \A q \in Proc \ {p} : Column(a, k)[q] = Column(b, k)[q]
    BY ColumnInts
  <1>2. Total(Column(b, k), Proc) = Total(Column(a, k), Proc) + Column(b, k)[p] - Column(a, k)[p]
    BY <1>1, ColumnInts, TotalChange
  <1>3. QED
    BY <1>2, ColumnInts DEF Pending

\* Pending is what UndoBalance adds up.
LEMMA PendingIs ==
  ASSUME NEW a, AoeType(a), NEW k \in Ent
  PROVE  MapThenSumSet(LAMBDA p : a[p][k], Proc) = Pending(a, k)
  <1> DEFINE f == Column(a, k)
             G(h) == h = [s \in SUBSET Proc |->
                            IF s = {} THEN 0
                            ELSE a[CHOOSE x \in s : TRUE][k] + h[s \ {CHOOSE x \in s : TRUE}]]
  <1>1. \A h : G(h) <=> SumFcn(f, Proc, h)
    <2>1. \A s \in SUBSET Proc : s # {} => a[First(s)][k] = f[First(s)]
      BY FirstIn, ColumnInts
    <2>2. QED
      BY <2>1 DEF SumFcn, First
  <1>2. \E h : G(h)
    <2>1. PICK h : SumFcn(f, Proc, h)
      BY ColumnInts, SumFcnExists
    <2> HIDE DEF G, f
    <2>2. QED
      BY <1>1, <2>1, Zenon
  <1>3. PICK h : h = CHOOSE g : G(g)
    OBVIOUS
  <1>4. G(h)
    BY <1>2, <1>3
  <1>5. MapThenSumSet(LAMBDA p : a[p][k], Proc) = h[Proc]
    BY <1>3 DEF MapThenSumSet, MapThenFoldSet
  <1>6. Total(f, Proc) = h[Proc]
    BY <1>1, <1>4, ColumnInts, TotalOf
  <1>7. QED
    BY <1>5, <1>6 DEF Pending

\* Semaphores of existing sets are places of their own.
LEMMA PlaceIn ==
  ASSUME CallInv, Divided, NEW k \in Ent, LiveEnt(k)
  PROVE  /\ Place(k) \in SemNo /\ Place(k) \notin semmap
         /\ k[1] \in Id /\ k[1][2] \in Slot /\ Place(k) \in SemsOf(k[1][2]) /\ sema[k[1][2]].alloc
  <1>1. k[1] \in Id /\ k[1][2] \in Slot /\ k[2] \in Nat
    BY ConstLemma DEF Ent, Id, Num
  <1>2. sema[k[1][2]].alloc /\ k[2] < sema[k[1][2]].nsems
    BY DEF LiveEnt, semconv
  <1>3. Place(k) \in SemsOf(k[1][2]) /\ Place(k) \in SemNo
    BY <1>1, <1>2, SetInPool DEF Place
  <1>4. QED
    BY <1>1, <1>2, <1>3 DEF Divided

LEMMA PlaceOnce ==
  ASSUME CallInv, Divided, NEW k \in Ent, NEW l \in Ent, LiveEnt(k), LiveEnt(l),
         Place(k) = Place(l)
  PROVE  k = l
  <1>1. k[1][2] = l[1][2]
    BY PlaceIn DEF Divided
  <1>2. k[1] = l[1]
    <2>1. k[1][1] = l[1][1] /\ k[1] \in Id /\ l[1] \in Id
      BY <1>1, PlaceIn DEF LiveEnt, semconv
    <2>2. QED
      BY <1>1, <2>1 DEF Id
  <1>3. k[2] = l[2]
    <2>1. sema[k[1][2]].base \in Nat /\ k[2] \in Nat /\ l[2] \in Nat
      BY PlaceIn, TypeGroups, ConstLemma DEF CallInv, SemaType, Ent, Num
    <2>2. sema[k[1][2]].base + k[2] = sema[k[1][2]].base + l[2]
      BY <1>1 DEF Place
    <2>3. QED
      BY <2>1, <2>2
  <1>4. QED
    BY <1>2, <1>3 DEF Ent

\* A step that changes no set.
LEMMA SameSets ==
  ASSUME sema' = sema, NEW k
  PROVE  (LiveEnt(k)' <=> LiveEnt(k)) /\ Place(k)' = Place(k)
  BY DEF LiveEnt, Place, semconv

\* The equation of BalanceInv for one entry.
EvenAt(k) == semval[Place(k)] + Pending(aoe, k) = net[Place(k)]

LEMMA BalanceParts ==
  BalanceInv <=> /\ net \in [SemNo -> Int]
                 /\ \A x \in semmap : net[x] = 0
                 /\ \A k \in Ent : LiveEnt(k) => EvenAt(k)
  BY DEF BalanceInv, EvenAt

LEMMA NowTypes ==
  ASSUME CallInv PROVE AoeType(aoe) /\ semval \in [SemNo -> Int]
  BY DEF CallInv, TypeOK, AoeType

LEMMA NextTypes ==
  ASSUME CallInv' PROVE AoeType(aoe') /\ semval' \in [SemNo -> Int]
  BY DEF CallInv, TypeOK, AoeType

\* An entry whose column, value and net value stay.
LEMMA EvenKept ==
  ASSUME CallInv, CallInv', NEW k \in Ent, EvenAt(k), Place(k)' = Place(k),
         \A q \in Proc : aoe'[q][k] = aoe[q][k],
         semval'[Place(k)] = semval[Place(k)], net'[Place(k)] = net[Place(k)]
  PROVE  EvenAt(k)'
  <1>1. AoeType(aoe) /\ AoeType(aoe')
    BY NowTypes, NextTypes
  <1>2. Pending(aoe', k) = Pending(aoe, k)
    BY <1>1, PendingSame
  <1>3. PICK x : x = Place(k)
    OBVIOUS
  <1>4. semval[x] + Pending(aoe, k) = net[x]
    BY <1>3 DEF EvenAt
  <1>5. semval'[x] + Pending(aoe', k) = net'[x]
    BY <1>2, <1>3, <1>4
  <1>6. QED
    BY <1>3, <1>5 DEF EvenAt

\* An entry whose adjustments are all dropped when its value is set.
LEMMA EvenReset ==
  ASSUME CallInv', NEW k \in Ent, NEW x \in SemNo, Place(k)' = x, \A q \in Proc : aoe'[q][k] = 0,
         semval'[x] = net'[x]
  PROVE  EvenAt(k)'
  <1>1. AoeType(aoe') /\ semval' \in [SemNo -> Int]
    BY NextTypes
  <1>2. Pending(aoe', k) = 0
    BY <1>1, PendingZero
  <1>3. semval'[x] + Pending(aoe', k) = net'[x]
    BY <1>1, <1>2
  <1>4. QED
    BY <1>3 DEF EvenAt

LEMMA BalanceSame ==
  ASSUME BalanceInv, UNCHANGED <<sema, semmap, semval, aoe, net>>
  PROVE  BalanceInv'
  BY DEF BalanceInv, LiveEnt, Place, semconv

\* One operation, done or undone: the value changes by d, the adjustment of p
\* by u the other way, the net value by e.
LEMMA OneOperation ==
  ASSUME CallInv, CallInv', Divided, BalanceInv, UNCHANGED <<sema, semmap>>,
         NEW p \in Proc, NEW k \in Ent, LiveEnt(k),
         NEW d \in Int, NEW u \in Int, NEW e \in Int, d = e + u,
         semval'[Place(k)] = semval[Place(k)] + d, net'[Place(k)] = net[Place(k)] + e,
         net' \in [SemNo -> Int],
         \A y \in SemNo : y # Place(k) => semval'[y] = semval[y] /\ net'[y] = net[y],
         \A q \in Proc : q # p => aoe'[q] = aoe[q],
         \A l \in Ent : l # k => aoe'[p][l] = aoe[p][l],
         aoe'[p][k] = aoe[p][k] - u
  PROVE  BalanceInv'
  <1>1. AoeType(aoe) /\ AoeType(aoe') /\ semval \in [SemNo -> Int]
    BY NowTypes, NextTypes
  <1>2. PICK x : x = Place(k)
    OBVIOUS
  <1>3. x \in SemNo /\ x \notin semmap
    BY <1>2, PlaceIn
  <1>4. net \in [SemNo -> Int] /\ \A y \in semmap : net[y] = 0
    BY DEF BalanceInv
  <1>6. \A y \in semmap' : net'[y] = 0
    <2>1. semmap \subseteq SemNo
      BY TypeGroups DEF CallInv, SemaType
    <2>2. QED
      BY <1>2, <1>3, <1>4, <2>1
  <1>7. EvenAt(k)'
    <2>1. semval[x] + Pending(aoe, k) = net[x]
      BY <1>2 DEF BalanceInv
    <2>2. semval'[x] = semval[x] + d /\ net'[x] = net[x] + e
      BY <1>1, <1>2, <1>3, <1>4
    <2>3. Pending(aoe', k) = Pending(aoe, k) + aoe'[p][k] - aoe[p][k]
      BY <1>1, PendingChange
    <2>4. aoe[p][k] \in Int /\ Pending(aoe, k) \in Int /\ semval[x] \in Int /\ net[x] \in Int
      BY <1>1, <1>3, <1>4, PendingInt DEF AoeType
    <2>5. Pending(aoe', k) = Pending(aoe, k) - u
      BY <2>3, <2>4
    <2>6. semval'[x] + Pending(aoe', k) = net'[x]
      BY <2>1, <2>2, <2>4, <2>5
    <2>7. QED
      BY <1>2, <2>6, SameSets DEF EvenAt
  <1>8. ASSUME NEW l \in Ent, l # k, LiveEnt(l) PROVE EvenAt(l)'
    <2>1. Place(l) # x /\ Place(l) \in SemNo
      BY <1>2, <1>8, PlaceIn, PlaceOnce
    <2>2. PICK y : y = Place(l)
      OBVIOUS
    <2>3. semval'[y] = semval[y] /\ net'[y] = net[y]
      BY <1>1, <1>2, <1>4, <2>1, <2>2
    <2>4. \A q \in Proc : aoe'[q][l] = aoe[q][l]
      BY <1>8
    <2>5. EvenAt(l) /\ Place(l)' = Place(l)
      BY <1>8, SameSets, BalanceParts
    <2>6. QED
      BY <2>2, <2>3, <2>4, <2>5, EvenKept
  <1>9. \A l \in Ent : LiveEnt(l)' => EvenAt(l)'
    BY <1>7, <1>8, SameSets
  <1>10. QED
    BY <1>6, <1>9 DEF BalanceInv, EvenAt

\* Operation o of p leads from values v and adjustments a to w and b.
Moves(p, o, v, a, w, b) ==
  LET s == SemAt(p, o.num)
      k == <<uap[p].id, o.num>>
  IN /\ w[s] = v[s] + o.op
     /\ \A x \in SemNo : x # s => w[x] = v[x]
     /\ o.undo /\ o.op # 0 =>
          /\ b[p][k] = a[p][k] - o.op
          /\ \A l \in Ent : l # k => b[p][l] = a[p][l]
          /\ \A q \in Proc : q # p => b[q] = a[q]
     /\ ~(o.undo /\ o.op # 0) => b = a

LEMMA MovesBalance ==
  ASSUME CallInv, CallInv', Divided, BalanceInv, UNCHANGED <<sema, semmap>>,
         NEW p \in Proc, NEW o, OpOK(p, o), NEW d, NEW x, x = SemAt(p, o.num),
         \/ d = o.op /\ Moves(p, o, semval, aoe, semval', aoe')
         \/ d = -o.op /\ Moves(p, o, semval', aoe', semval, aoe),
         net' = IF o.undo THEN net ELSE [net EXCEPT ![x] = @ + d]
  PROVE  BalanceInv'
  <1>1. PICK k : k = <<uap[p].id, o.num>>
    OBVIOUS
  <1>2. o.op \in Int /\ d \in Int /\ k \in Ent /\ LiveEnt(k) /\ Place(k) = x /\ x \in SemNo
    BY <1>1 DEF OpOK, OpIn, LiveEnt, Place, SemAt
  <1>3. net \in [SemNo -> Int]
    BY DEF BalanceInv
  <1>4. net' \in [SemNo -> Int] /\ \A y \in SemNo : y # x => net'[y] = net[y]
    BY <1>2, <1>3
  <1>5. AoeType(aoe) /\ AoeType(aoe') /\ semval \in [SemNo -> Int] /\ semval' \in [SemNo -> Int]
    BY NowTypes, NextTypes
  <1>6. semval'[x] = semval[x] + d /\ \A y \in SemNo : y # x => semval'[y] = semval[y]
    <2>1. CASE d = o.op /\ Moves(p, o, semval, aoe, semval', aoe')
      BY <2>1 DEF Moves
    <2>2. CASE d = -o.op /\ Moves(p, o, semval', aoe', semval, aoe)
      <3>1. semval[x] = semval'[x] + o.op /\ \A y \in SemNo : y # x => semval'[y] = semval[y]
        BY <2>2 DEF Moves
      <3>2. semval[x] \in Int /\ semval'[x] \in Int
        BY <1>2, <1>5
      <3>3. QED
        BY <1>2, <2>2, <3>1, <3>2
    <2>3. QED
      BY <2>1, <2>2
  <1>7. PICK u : u = IF o.undo /\ o.op # 0 THEN d ELSE 0
    OBVIOUS
  <1>8. /\ \A q \in Proc : q # p => aoe'[q] = aoe[q]
        /\ \A l \in Ent : l # k => aoe'[p][l] = aoe[p][l]
        /\ aoe'[p][k] = aoe[p][k] - u
    <2>1. aoe[p][k] \in Int /\ aoe'[p][k] \in Int
      BY <1>2, <1>5 DEF AoeType
    <2>2. CASE o.undo /\ o.op # 0
      <3>1. /\ \A q \in Proc : q # p => aoe'[q] = aoe[q]
            /\ \A l \in Ent : l # k => aoe'[p][l] = aoe[p][l]
        BY <1>1, <2>2 DEF Moves
      <3>2. \/ d = o.op /\ aoe'[p][k] = aoe[p][k] - o.op
            \/ d = -o.op /\ aoe[p][k] = aoe'[p][k] - o.op
        BY <1>1, <2>2 DEF Moves
      <3>3. u = d
        BY <1>7, <2>2
      <3>4. aoe'[p][k] = aoe[p][k] - u
        BY <1>2, <2>1, <3>2, <3>3
      <3>5. QED
        BY <3>1, <3>4
    <2>3. CASE ~(o.undo /\ o.op # 0)
      <3>1. aoe' = aoe
        BY <2>3 DEF Moves
      <3>2. u = 0
        BY <1>7, <2>3
      <3>3. QED
        BY <2>1, <3>1, <3>2
    <2>4. QED
      BY <2>2, <2>3
  <1>9. PICK e : e = IF o.undo THEN 0 ELSE d
    OBVIOUS
  <1>10. e \in Int /\ u \in Int /\ d = e + u
    <2>1. o.op = 0 => d = 0
      <3>1. d = o.op \/ d = -o.op
        OBVIOUS
      <3>2. QED
        BY <1>2, <3>1
    <2>2. CASE o.undo
      <3>1. e = 0
        BY <1>9, <2>2
      <3>2. u = d
        BY <1>2, <1>7, <2>1, <2>2
      <3>3. QED
        BY <1>2, <3>1, <3>2
    <2>3. CASE ~o.undo
      <3>1. e = d /\ u = 0
        BY <1>7, <1>9, <2>3
      <3>2. QED
        BY <1>2, <3>1
    <2>4. QED
      BY <2>2, <2>3
  <1>11. net'[x] = net[x] + e
    <2>1. net[x] \in Int
      BY <1>2, <1>3
    <2>2. CASE o.undo
      BY <1>9, <2>1, <2>2
    <2>3. CASE ~o.undo
      BY <1>2, <1>3, <1>9, <2>3
    <2>4. QED
      BY <2>2, <2>3
  <1>12. QED
    BY <1>2, <1>4, <1>6, <1>8, <1>10, <1>11, OneOperation

\* Whoever is in a pass has its set, as long as nobody has strayed.
LEMMA FairOK ==
  ASSUME NEW p \in Proc, NEW o, OpFair(p, o), strayed = {}
  PROVE  OpOK(p, o)
  BY DEF OpFair

LEMMA semopDoBalance ==
  ASSUME strayed = {}, CallInv, CallInv', Divided, PassInv, PassInv', BalanceInv, NEW p \in Proc, semopDo(p)
  PROVE  BalanceInv'
  <1>1. PICK o : o = Op(p)
    OBVIOUS
  <1>2. PICK x : x = SemAt(p, o.num)
    OBVIOUS
  <1>3. PICK n : n = i[p]
    OBVIOUS
  <1>4. /\ InOp(p) /\ cpu' = cpu /\ i' = [i EXCEPT ![p] = @ + 1]
        /\ snap' = Append(snap, [val |-> semval', aoe |-> aoe'])
        /\ net' = IF o.undo THEN net ELSE [net EXCEPT ![x] = @ + o.op]
        /\ UNCHANGED <<sema, semmap, uap>> /\ pc' = pc
    BY <1>1, <1>2 DEF semopDo
  <1>5. n \in 1 .. Len(uap[p].ops) /\ OpOK(p, o) /\ cpu = p /\ pc[p] = "op" /\ o = uap[p].ops[n]
    BY <1>1, <1>3, <1>4, CurrentOp, FairOK DEF InOp, Op
  <1>6. i'[p] = n + 1
    BY <1>3, <1>4, TypeGroups DEF CallInv, CallType
  <1>7. PassOf(p) /\ PassOf(p)'
    BY <1>4, <1>5 DEF PassInv, Passing
  <1>8. /\ Len(snap) = n /\ snap[n].val = semval /\ snap[n].aoe = aoe
    BY <1>3, <1>5, <1>7 DEF PassOf
  <1>9. Len(snap') = n + 1 /\ snap'[n] = snap[n] /\ snap'[n + 1].val = semval' /\ snap'[n + 1].aoe = aoe'
    <2>1. snap \in Seq(SnapType)
      BY SnapFacts
    <2>2. Len(snap') = n + 1 /\ snap'[n] = snap[n] /\ snap'[n + 1] = [val |-> semval', aoe |-> aoe']
      BY <1>4, <1>5, <1>8, <2>1
    <2>3. QED
      BY <2>2
  <1>10. Did(p, n)'
    <2>1. n \in 1 .. Len(snap') - 1
      BY <1>5, <1>9
    <2>2. QED
      BY <1>7, <2>1 DEF PassOf
  <1>11. Moves(p, o, semval, aoe, semval', aoe')
    <2>1. PICK v, a, w, b : v = semval /\ a = aoe /\ w = semval' /\ b = aoe'
      OBVIOUS
    <2>2. snap'[n].val = v /\ snap'[n].aoe = a /\ snap'[n + 1].val = w /\ snap'[n + 1].aoe = b
      BY <1>8, <1>9, <2>1
    <2>3. Moves(p, uap[p].ops[n], snap[n].val, snap[n].aoe, snap[n + 1].val, snap[n + 1].aoe)'
      BY <1>10 DEF Did, Moves
    <2>4. Moves(p, o, v, a, w, b)'
      BY <1>4, <1>5, <2>2, <2>3
    <2>5. Moves(p, o, v, a, w, b)
      BY <1>4, <2>4 DEF Moves, SemAt
    <2>6. QED
      BY <2>1, <2>5
  <1>12. QED
    BY <1>2, <1>4, <1>5, <1>11, MovesBalance

LEMMA semundoBalance ==
  ASSUME strayed = {}, CallInv, CallInv', IndexOK, Divided, PassInv, PassInv', BalanceInv,
         NEW p \in Proc, semundo(p)
  PROVE  BalanceInv'
  <1>1. PICK n : n = i[p] - 1
    OBVIOUS
  <1>2. PICK o : o = uap[p].ops[n]
    OBVIOUS
  <1>3. PICK x : x = SemAt(p, o.num)
    OBVIOUS
  <1>4. /\ cpu = p /\ pc[p] = "undo" /\ i[p] > 1 /\ cpu' = cpu /\ i' = [i EXCEPT ![p] = @ - 1]
        /\ net' = IF o.undo THEN net ELSE [net EXCEPT ![x] = @ - o.op]
        /\ UNCHANGED <<sema, semmap, uap, snap, pc>>
    BY <1>1, <1>2, <1>3 DEF semundo
  <1>5. n \in 1 .. Len(uap[p].ops) /\ OpOK(p, o)
    BY <1>1, <1>2, <1>4, LastOp, FairOK DEF Passing
  <1>6. i'[p] = n /\ i[p] = n + 1 /\ n \in Nat
    BY <1>1, <1>4, <1>5, TypeGroups DEF CallInv, CallType
  <1>7. PassOf(p) /\ PassOf(p)'
    BY <1>4 DEF PassInv, Passing
  <1>8. /\ n + 1 <= Len(snap) /\ snap[n + 1].val = semval /\ snap[n + 1].aoe = aoe
        /\ snap[n].val = semval' /\ snap[n].aoe = aoe'
    BY <1>4, <1>6, <1>7 DEF PassOf
  <1>9. Did(p, n)
    <2>1. n \in 1 .. Len(snap) - 1
      BY <1>5, <1>6, <1>8, SnapFacts
    <2>2. QED
      BY <1>7, <2>1 DEF PassOf
  <1>10. Moves(p, o, semval', aoe', semval, aoe)
    BY <1>2, <1>8, <1>9 DEF Did, Moves
  <1>11. net' = IF o.undo THEN net ELSE [net EXCEPT ![x] = @ + (-o.op)]
    <2>1. o.op \in Int /\ net \in [SemNo -> Int] /\ x \in SemNo
      BY <1>3, <1>5 DEF OpOK, OpIn, BalanceInv
    <2>2. net[x] - o.op = net[x] + (-o.op)
      BY <2>1
    <2>3. [net EXCEPT ![x] = @ - o.op] = [net EXCEPT ![x] = @ + (-o.op)]
      BY <2>2
    <2>4. QED
      BY <1>4, <2>3
  <1>12. PICK d : d = -o.op
    OBVIOUS
  <1>13. QED
    BY <1>3, <1>4, <1>5, <1>10, <1>11, <1>12, MovesBalance

\* semunrm() drops the entries it is asked to drop in every process, because
\* the chain holds whoever has any.
LEMMA semunrmDrops ==
  ASSUME CallInv, UndoInv, NEW id, NEW nums, semunrm(id, nums), NEW k \in Ent
  PROVE  /\ k[1] = id /\ k[2] \in nums => \A q \in Proc : aoe'[q][k] = 0
         /\ ~(k[1] = id /\ k[2] \in nums) => \A q \in Proc : aoe'[q][k] = aoe[q][k]
  <1>1. \A q \in Proc : aoe'[q][k] = IF q \in semunp /\ k[1] = id /\ k[2] \in nums
                                     THEN 0 ELSE aoe[q][k]
    BY DEF semunrm
  <1>2. \A q \in Proc : q \notin semunp => aoe[q][k] = 0
    BY DEF UndoInv, UndoChainExact, Entries
  <1>3. QED
    BY <1>1, <1>2

LEMMA SetvalBalance ==
  ASSUME CallInv, CallInv', UndoInv, Divided, BalanceInv, NEW p \in Proc, NEW id \in Id,
         NEW num \in Num, NEW val \in 0 .. SEMVMX, semctlSetval(p, id, num, val)
  PROVE  BalanceInv'
  <1>1. PICK x : x = sema[id[2]].base + num
    OBVIOUS
  <1>2. PICK k : k = <<id, num>>
    OBVIOUS
  <1>3. /\ semconv(id) /\ num < sema[id[2]].nsems
        /\ semval' = [semval EXCEPT ![x] = val] /\ net' = [net EXCEPT ![x] = val]
        /\ semunrm(id, {num})
        /\ UNCHANGED <<sema, semmap>>
    BY <1>1 DEF semctlSetval
  <1>4. k \in Ent /\ k[1] = id /\ k[2] = num /\ LiveEnt(k) /\ Place(k) = x
    BY <1>1, <1>2, <1>3 DEF Ent, LiveEnt, Place
  <1>5. x \in SemNo /\ x \notin semmap
    BY <1>4, PlaceIn
  <1>6. net \in [SemNo -> Int] /\ (\A y \in semmap : net[y] = 0) /\ val \in Int
    BY DEF BalanceInv
  <1>7. semval \in [SemNo -> Int]
    BY NowTypes
  <1>8. net' \in [SemNo -> Int] /\ \A y \in semmap' : net'[y] = 0
    <2>1. semmap \subseteq SemNo
      BY TypeGroups DEF CallInv, SemaType
    <2>2. QED
      BY <1>3, <1>5, <1>6, <2>1
  <1>9. ASSUME NEW l \in Ent, LiveEnt(l)' PROVE EvenAt(l)'
    <2>1. LiveEnt(l) /\ Place(l)' = Place(l)
      BY <1>3, <1>9, SameSets
    <2>2. CASE l = k
      <3>1. \A q \in Proc : aoe'[q][k] = 0
        BY <1>3, <1>4, semunrmDrops
      <3>2. semval'[x] = net'[x]
        BY <1>3, <1>5, <1>6, <1>7
      <3>3. QED
        BY <1>4, <1>5, <2>1, <2>2, <3>1, <3>2, EvenReset
    <2>3. CASE l # k
      <3>1. ~(l[1] = id /\ l[2] \in {num})
        BY <1>2, <2>3 DEF Ent
      <3>2. \A q \in Proc : aoe'[q][l] = aoe[q][l]
        BY <1>3, <3>1, semunrmDrops
      <3>3. Place(l) # x /\ Place(l) \in SemNo
        BY <1>4, <2>1, <2>3, PlaceOnce, PlaceIn
      <3>4. PICK y : y = Place(l)
        OBVIOUS
      <3>5. semval'[y] = semval[y] /\ net'[y] = net[y]
        BY <1>3, <1>6, <1>7, <3>3, <3>4
      <3>6. EvenAt(l)
        BY <2>1, BalanceParts
      <3>7. QED
        BY <2>1, <3>2, <3>4, <3>5, <3>6, EvenKept
    <2>4. QED
      BY <2>2, <2>3
  <1>10. QED
    BY <1>8, <1>9 DEF BalanceInv, EvenAt

\* The entries of a set.
LEMMA EntryOfSet ==
  ASSUME CallInv, Divided, NEW id \in Id, semconv(id), NEW k \in Ent, LiveEnt(k)
  PROVE  /\ k[1] = id => k[2] \in 0 .. sema[id[2]].nsems /\ Place(k) \in SemsOf(id[2])
         /\ k[1] # id => k[1][2] # id[2] /\ Place(k) \notin SemsOf(id[2])
  <1>1. id[2] \in Slot /\ sema[id[2]].alloc /\ sema[id[2]].seq = id[1]
    BY DEF Id, semconv
  <1>2. k[1] \in Id /\ sema[k[1][2]].alloc /\ sema[k[1][2]].seq = k[1][1] /\ k[1][2] \in Slot
    BY PlaceIn DEF LiveEnt, semconv
  <1>3. Place(k) \in SemsOf(k[1][2])
    BY PlaceIn
  <1>4. ASSUME k[1] # id PROVE k[1][2] # id[2] /\ Place(k) \notin SemsOf(id[2])
    <2>1. k[1][2] # id[2]
      BY <1>1, <1>2, <1>4 DEF Id
    <2>2. QED
      BY <1>1, <1>2, <1>3, <2>1 DEF Divided
  <1>5. ASSUME k[1] = id PROVE k[2] \in 0 .. sema[id[2]].nsems
    <2>1. k[2] \in Nat /\ k[2] < sema[id[2]].nsems /\ sema[id[2]].nsems \in Nat
      BY <1>1, <1>5, TypeGroups, ConstLemma DEF LiveEnt, Ent, Num, CallInv, SemaType
    <2>2. QED
      BY <2>1
  <1>6. QED
    BY <1>3, <1>4, <1>5

LEMMA SetallBalance ==
  ASSUME strayed' = {}, CallInv, CallInv', UndoInv, Divided, BalanceInv, NEW p \in Proc,
         NEW vals \in [SemNo -> 0 .. SEMVMX], semctlSetallCopied(p, vals),
         ~UNCHANGED <<semval, undo, net>>
  PROVE  BalanceInv'
  <1>0. PICK id : id = uap[p].id
    OBVIOUS
  <1>1. PICK mine : mine = SemsOf(id[2])
    OBVIOUS
  <1>2. /\ id \in Id /\ semconv(id)
        /\ semval' = [s \in SemNo |-> IF s \in mine THEN vals[s] ELSE semval[s]]
        /\ net' = [s \in SemNo |-> IF s \in mine THEN vals[s] ELSE net[s]]
        /\ semunrm(id, 0 .. sema[id[2]].nsems)
        /\ UNCHANGED <<sema, semmap>>
    <2>1. /\ semval' = [s \in SemNo |-> IF s \in mine THEN vals[s] ELSE semval[s]]
          /\ net' = [s \in SemNo |-> IF s \in mine THEN vals[s] ELSE net[s]]
          /\ semunrm(id, 0 .. sema[id[2]].nsems)
          /\ GoesOn(p) /\ pc[p] = "setall"
          /\ UNCHANGED <<sema, semmap>>
      BY <1>0, <1>1, ZenonT(40) DEF semctlSetallCopied, Copied
    <2>2. p \notin stale
      BY <2>1 DEF GoesOn
    <2>3. id \in Id /\ semconv(id)
      BY <1>0, <2>1, <2>2, OwnSet, TypeGroups DEF CallInv, CallType
    <2>4. QED
      BY <2>1, <2>3
  <1>3. net \in [SemNo -> Int] /\ (\A y \in semmap : net[y] = 0) /\ semmap \subseteq SemNo
    BY TypeGroups DEF BalanceInv, CallInv, SemaType
  <1>4. net' \in [SemNo -> Int]
    BY <1>2, <1>3
  <1>5. \A y \in semmap' : net'[y] = 0
    <2>1. mine \cap semmap = {}
      BY <1>1, <1>2 DEF Divided, semconv, Id
    <2>2. QED
      BY <1>2, <1>3, <2>1
  <1>6. ASSUME NEW l \in Ent, LiveEnt(l)' PROVE EvenAt(l)'
    <2>1. LiveEnt(l) /\ Place(l)' = Place(l)
      BY <1>2, <1>6, SameSets
    <2>2. PICK y : y = Place(l)
      OBVIOUS
    <2>3. y \in SemNo
      BY <2>1, <2>2, PlaceIn
    <2>4. CASE l[1] = id
      <3>1. l[2] \in 0 .. sema[id[2]].nsems /\ y \in mine
        BY <1>1, <1>2, <2>1, <2>2, <2>4, EntryOfSet
      <3>2. \A q \in Proc : aoe'[q][l] = 0
        BY <1>2, <2>4, <3>1, semunrmDrops, ZenonT(60)
      <3>3. semval'[y] = net'[y]
        BY <1>2, <2>3, <3>1
      <3>4. QED
        BY <2>1, <2>2, <2>3, <3>2, <3>3, EvenReset
    <2>5. CASE l[1] # id
      <3>1. y \notin mine
        BY <1>1, <1>2, <2>1, <2>2, <2>5, EntryOfSet
      <3>2. \A q \in Proc : aoe'[q][l] = aoe[q][l]
        BY <1>2, <2>5, semunrmDrops
      <3>3. semval'[y] = semval[y] /\ net'[y] = net[y]
        BY <1>2, <2>3, <3>1
      <3>4. EvenAt(l)
        BY <2>1, BalanceParts
      <3>5. QED
        BY <2>1, <2>2, <3>2, <3>3, <3>4, EvenKept
    <2>6. QED
      BY <2>4, <2>5
  <1>7. QED
    BY <1>4, <1>5, <1>6 DEF BalanceInv, EvenAt

LEMMA RmidBalance ==
  ASSUME CallInv, CallInv', UndoInv, Divided, BalanceInv, NEW p \in Proc, NEW id \in Id,
         semctlRmid(p, id)
  PROVE  BalanceInv'
  <1>1. PICK mine : mine = SemsOf(id[2])
    OBVIOUS
  <1>2. PICK slot \in Slot : slot = id[2]
    BY DEF Id
  <1>3. /\ semconv(id)
        /\ semval' = [s \in SemNo |-> IF s \in mine THEN 0 ELSE semval[s]]
        /\ net' = [s \in SemNo |-> IF s \in mine THEN 0 ELSE net[s]]
        /\ semunrm(id, 0 .. sema[slot].nsems)
        /\ semmap' = semmap \cup mine
        /\ sema' = [sema EXCEPT ![slot] = [alloc |-> FALSE, seq |-> NextSeq(id), key |-> @.key,
                                       base |-> @.base, nsems |-> @.nsems]]
    BY <1>1, <1>2 DEF semctlRmid, Cleared
  <1>4. ~sema'[slot].alloc /\ \A t \in Slot : t # slot => sema'[t] = sema[t]
    BY <1>3, TypeGroups DEF CallInv, SemaType
  <1>5. net \in [SemNo -> Int] /\ (\A y \in semmap : net[y] = 0) /\ semmap \subseteq SemNo
    BY TypeGroups DEF BalanceInv, CallInv, SemaType
  <1>6. semmap' \subseteq SemNo
    BY DEF CallInv, TypeOK
  <1>7. net' \in [SemNo -> Int] /\ \A y \in semmap' : net'[y] = 0
    BY <1>3, <1>5, <1>6
  <1>8. ASSUME NEW l \in Ent, LiveEnt(l)' PROVE EvenAt(l)'
    <2>1. l[1][2] \in Slot
      BY DEF Ent, Id
    <2>2. l[1][2] # slot
      BY <1>4, <1>8 DEF LiveEnt, semconv
    <2>3. sema'[l[1][2]] = sema[l[1][2]]
      BY <1>4, <2>1, <2>2
    <2>4. LiveEnt(l) /\ Place(l)' = Place(l)
      BY <1>8, <2>3 DEF LiveEnt, Place, semconv
    <2>5. PICK y : y = Place(l)
      OBVIOUS
    <2>6. y \in SemNo /\ l[1] # id
      BY <1>2, <2>2, <2>4, <2>5, PlaceIn
    <2>7. y \notin mine
      BY <1>1, <1>3, <2>4, <2>5, <2>6, EntryOfSet
    <2>8. \A q \in Proc : aoe'[q][l] = aoe[q][l]
      BY <1>3, <2>6, semunrmDrops
    <2>9. semval'[y] = semval[y] /\ net'[y] = net[y]
      BY <1>3, <2>6, <2>7
    <2>10. EvenAt(l)
      BY <2>4, BalanceParts
    <2>11. QED
      BY <2>4, <2>5, <2>8, <2>9, <2>10, EvenKept
  <1>9. QED
    BY <1>7, <1>8 DEF BalanceInv, EvenAt

LEMMA semgetBalance ==
  ASSUME CallInv, CallInv', StrictLive, BalanceInv, NEW p \in Proc, NEW key, NEW n \in SetSizes,
         semget(p, key, n)
  PROVE  BalanceInv'
  <1>1. PICK s \in Slot, a \in SemNo :
          /\ ~sema[s].alloc
          /\ rmalloc(a, n)
          /\ sema' = [sema EXCEPT ![s] =
                [alloc |-> TRUE, seq |-> @.seq, key |-> key, base |-> a, nsems |-> n]]
          /\ semmap' = semmap \ (a .. a + n - 1)
    BY DEF semget
  <1>2. UNCHANGED <<semval, aoe, net>>
    BY DEF semget, undo, hist
  <1>3. /\ \A t \in Slot : t # s => sema'[t] = sema[t]
        /\ sema'[s].base = a /\ sema'[s].nsems = n
    BY <1>1, TypeGroups DEF CallInv, SemaType
  <1>4. a .. a + n - 1 \subseteq semmap
    BY <1>1 DEF rmalloc, Fits
  <1>5. (net \in [SemNo -> Int])' /\ \A y \in semmap' : net'[y] = 0
    BY <1>1, <1>2 DEF BalanceInv
  <1>6. ASSUME NEW l \in Ent, LiveEnt(l)' PROVE EvenAt(l)'
    <2>1. l[1][2] \in Slot /\ l[2] \in Nat
      BY ConstLemma DEF Ent, Id, Num
    <2>2. CASE l[1][2] # s
      <3>1. sema'[l[1][2]] = sema[l[1][2]]
        BY <1>3, <2>1, <2>2
      <3>2. LiveEnt(l) /\ Place(l)' = Place(l)
        BY <1>6, <3>1 DEF LiveEnt, Place, semconv
      <3>3. EvenAt(l)
        BY <3>2, BalanceParts
      <3>4. QED
        BY <1>2, <3>2, <3>3, EvenKept
    <2>3. CASE l[1][2] = s
      <3>1. PICK y : y = a + l[2]
        OBVIOUS
      <3>2. Place(l)' = y /\ l[2] < n
        BY <1>3, <1>6, <2>3, <3>1 DEF Place, LiveEnt
      <3>3. y \in a .. a + n - 1
        BY <2>1, <3>1, <3>2, ConstLemma DEF SemNo
      <3>4. y \in semmap /\ y \in SemNo
        BY <1>4, <3>3, TypeGroups DEF CallInv, SemaType
      <3>5. semval'[y] = 0 /\ net'[y] = 0
        BY <1>2, <3>4 DEF StrictLive, Divided, BalanceInv
      <3>6. \A q \in Proc : aoe'[q][l] = 0
        BY <1>1, <1>2, <2>3 DEF StrictLive, AllLive, LiveEnt, Entries, semconv
      <3>7. QED
        BY <3>2, <3>4, <3>5, <3>6, EvenReset
    <2>4. QED
      BY <2>2, <2>3
  <1>7. QED
    BY <1>5, <1>6 DEF BalanceInv, EvenAt

LEMMA semexitBalance ==
  ASSUME CallInv, CallInv', StrictLive, BalanceInv, NEW p \in Proc, semexit(p)
  PROVE  BalanceInv'
  <1>1. PICK live : live = {k \in Entries(aoe[p]) : semconv(k[1]) /\ Place(k) \in SemNo}
    OBVIOUS
  <1>2. PICK done : done = {k \in live : Adjustable(semval[Place(k)] + aoe[p][k])}
    OBVIOUS
  <1>3. /\ semval' = [s \in SemNo |-> IF \E k \in done : Place(k) = s
             THEN semval[Place(CHOOSE k \in done : Place(k) = s)]
                    + aoe[p][CHOOSE k \in done : Place(k) = s] ELSE semval[s]]
        /\ net' = [s \in SemNo |-> IF \E k \in live \ done : Place(k) = s
             THEN net[s] - aoe[p][CHOOSE k \in live \ done : Place(k) = s] ELSE net[s]]
        /\ aoe' = [aoe EXCEPT ![p] = [k \in Ent |-> 0]]
        /\ UNCHANGED <<sema, semmap>>
    BY <1>1, <1>2 DEF semexit, Place
  <1>4. AoeType(aoe) /\ AoeType(aoe') /\ semval \in [SemNo -> Int]
    BY NowTypes, NextTypes
  <1>5. net \in [SemNo -> Int] /\ (\A y \in semmap : net[y] = 0) /\ semmap \subseteq SemNo
    BY TypeGroups DEF BalanceInv, CallInv, SemaType
  <1>6. \A k \in live : k \in Ent /\ LiveEnt(k) /\ aoe[p][k] # 0
    BY <1>1 DEF StrictLive, AllLive, Entries
  <1>7. \A k \in Ent : LiveEnt(k) /\ aoe[p][k] # 0 => k \in live
    BY <1>1, PlaceIn DEF StrictLive, LiveEnt, Entries
  <1>8. Divided
    BY DEF StrictLive
  <1>9. \A s \in SemNo : net'[s] \in Int
    <2> SUFFICES ASSUME NEW s \in SemNo PROVE net'[s] \in Int
      OBVIOUS
    <2>1. CASE \E k \in live \ done : Place(k) = s
      <3>1. PICK c : c = CHOOSE k \in live \ done : Place(k) = s
        OBVIOUS
      <3>2. c \in live
        BY <2>1, <3>1
      <3>3. aoe[p][c] \in Int /\ net[s] \in Int
        BY <1>4, <1>5, <1>6, <3>2 DEF AoeType
      <3>4. net'[s] = net[s] - aoe[p][c]
        BY <1>3, <2>1, <3>1
      <3>5. QED
        BY <3>3, <3>4
    <2>2. CASE ~ \E k \in live \ done : Place(k) = s
      BY <1>3, <1>5, <2>2
    <2>3. QED
      BY <2>1, <2>2
  <1>10. net' \in [SemNo -> Int]
    BY <1>3, <1>9
  <1>11. \A y \in semmap' : net'[y] = 0
    <2>1. \A k \in live : Place(k) \notin semmap
      BY <1>6, <1>8, PlaceIn
    <2>2. QED
      BY <1>3, <1>5, <2>1
  <1>12. ASSUME NEW l \in Ent, LiveEnt(l)' PROVE EvenAt(l)'
    <2>1. LiveEnt(l) /\ Place(l)' = Place(l)
      BY <1>3, <1>12, SameSets
    <2>2. PICK y : y = Place(l)
      OBVIOUS
    <2>3. y \in SemNo
      BY <1>8, <2>1, <2>2, PlaceIn
    <2>4. \A k \in live : Place(k) = y => k = l
      BY <1>6, <1>8, <2>1, <2>2, PlaceOnce
    <2>5. semval[y] + Pending(aoe, l) = net[y]
      BY <2>1, <2>2 DEF BalanceInv
    <2>6. aoe[p][l] \in Int /\ Pending(aoe, l) \in Int /\ semval[y] \in Int /\ net[y] \in Int
      BY <1>4, <1>5, <2>3, PendingInt DEF AoeType
    <2>7. aoe'[p][l] = 0 /\ \A q \in Proc : q # p => aoe[q][l] = aoe'[q][l]
      BY <1>3, <1>4 DEF AoeType
    <2>8. Pending(aoe', l) = Pending(aoe, l) - aoe[p][l]
      <3>1. Pending(aoe', l) = Pending(aoe, l) + aoe'[p][l] - aoe[p][l]
        BY <1>4, <2>7, PendingChange
      <3>2. QED
        BY <2>6, <2>7, <3>1
    <2>9. \/ semval'[y] = semval[y] + aoe[p][l] /\ net'[y] = net[y]
          \/ semval'[y] = semval[y] /\ net'[y] = net[y] - aoe[p][l]
      <3>1. CASE l \in done
        <4>1. l \in live
          BY <1>2, <3>1
        <4>2. done \subseteq live
          BY <1>2
        <4>3. (CHOOSE k \in done : Place(k) = y) = l
          BY <2>2, <2>4, <3>1, <4>2
        <4>4. semval'[y] = semval[y] + aoe[p][l]
          BY <1>3, <2>2, <2>3, <3>1, <4>3
        <4>5. ~ \E k \in live \ done : Place(k) = y
          BY <2>4, <3>1
        <4>6. net'[y] = net[y]
          BY <1>3, <2>3, <4>5
        <4>7. QED
          BY <4>4, <4>6
      <3>2. CASE l \notin done
        <4>1. ~ \E k \in done : Place(k) = y
          BY <1>2, <2>4, <3>2
        <4>2. semval'[y] = semval[y]
          BY <1>3, <2>3, <4>1
        <4>3. CASE l \in live
          <5>1. (CHOOSE k \in live \ done : Place(k) = y) = l
            BY <2>2, <2>4, <3>2, <4>3
          <5>2. net'[y] = net[y] - aoe[p][l]
            BY <1>3, <2>2, <2>3, <3>2, <4>3, <5>1
          <5>3. QED
            BY <4>2, <5>2
        <4>4. CASE l \notin live
          <5>1. ~ \E k \in live \ done : Place(k) = y
            BY <2>4, <4>4
          <5>2. net'[y] = net[y]
            BY <1>3, <2>3, <5>1
          <5>3. aoe[p][l] = 0
            BY <1>7, <2>1, <4>4
          <5>4. net'[y] = net[y] - aoe[p][l]
            BY <2>6, <5>2, <5>3
          <5>5. QED
            BY <4>2, <5>4
        <4>5. QED
          BY <4>3, <4>4
      <3>3. QED
        BY <3>1, <3>2
    <2>10. semval'[y] + Pending(aoe', l) = net'[y]
      BY <2>5, <2>6, <2>8, <2>9
    <2>11. QED
      BY <2>1, <2>2, <2>10 DEF EvenAt
  <1>13. QED
    BY <1>10, <1>11, <1>12 DEF BalanceInv, EvenAt

LEMMA semopFailBalance ==
  ASSUME CallInv, BalanceInv, PassInv, PassInv', NEW p \in Proc, semopFail(p)
  PROVE  BalanceInv'
  <1>1. pc[p] = "op" /\ pc' = [pc EXCEPT ![p] = "undo"]
        /\ UNCHANGED <<sema, semmap, semval, i, snap, net>>
    BY DEF semopFail, InOp, kern, hist
  <1>2. PassOf(p) /\ PassOf(p)'
    BY <1>1, TypeGroups DEF PassInv, Passing, CallInv, CallType
  <1>3. aoe' = aoe
    BY <1>1, <1>2 DEF PassOf
  <1>4. QED
    BY <1>1, <1>3, BalanceSame

LEMMA BalanceStep ==
  ASSUME CallInv, CallInv', IndexOK, UndoInv, LiveInv, PassInv, PassInv', strayed = {} => BalanceInv,
         [Next]_vars, strayed' = {}
  PROVE  BalanceInv'
  <1>1. strayed = {} /\ BalanceInv /\ StrictLive /\ Divided
    BY StrayedGrows, NobodyStrayed DEF StrictLive
  <1>2. ASSUME UNCHANGED <<sema, semval, semmap, aoe, net>> PROVE BalanceInv'
    BY <1>1, <1>2, BalanceSame
  <1>3. ASSUME NEW p \in Proc, NEW at, NEW id, NEW ops, Enter(p, at, id, ops) PROVE BalanceInv'
    BY <1>2, <1>3 DEF Enter, kern, undo
  <1>4. ASSUME NEW p \in Proc, Semctl(p) PROVE BalanceInv'
    <2>1. ASSUME NEW id \in Id, semctlSetall(p, id) \/ semctlSet(p, id) PROVE BalanceInv'
      BY <1>3, <2>1 DEF semctlSetall, semctlSet
    <2>2. ASSUME NEW id \in Id, semctlRmid(p, id) PROVE BalanceInv'
      BY <1>1, <2>2, RmidBalance
    <2>3. ASSUME NEW id \in Id, NEW num \in Num, NEW val \in 0 .. SEMVMX,
                 semctlSetval(p, id, num, val)
          PROVE  BalanceInv'
      BY <1>1, <2>3, SetvalBalance
    <2>4. QED
      BY <1>4, <2>1, <2>2, <2>3 DEF Semctl
  <1>5. ASSUME NEW p \in Proc, PassStep(p) PROVE BalanceInv'
    <2>1. CASE semopError(p) \/ semopDone(p) \/ semopSleep(p)
      BY <1>2, <2>1 DEF semopError, semopDone, semopSleep, kern, undo
    <2>2. QED
      BY <1>1, <1>5, <2>1, semopDoBalance, semundoBalance, semopFailBalance DEF PassStep
  <1>6. ASSUME NEW p \in Proc, semctlSetCopied(p) PROVE sema' = sema
    <2>1. CASE sema[uap[p].id[2]].alloc
      BY <1>6, <2>1 DEF semctlSetCopied
    <2>2. CASE ~sema[uap[p].id[2]].alloc /\ GoesOn(p)
      <3>1. p \notin stale /\ pc[p] = "ipcset"
        BY <1>6, <2>2 DEF GoesOn, semctlSetCopied, Copied
      <3>2. QED
        BY <2>2, <3>1, OwnSet
    <2>3. QED
      BY <1>6, <2>1, <2>2 DEF semctlSetCopied
  <1>7. ASSUME NEW p \in Proc, Resume(p) PROVE BalanceInv'
    <2>1. CASE semopAgain(p) \/ semopIntr(p) \/ semopCopied(p) \/ semopRecopied(p)
      BY <1>2, <2>1 DEF semopAgain, semopIntr, semopCopied, semopRecopied, kern, undo
    <2>2. CASE semctlSetCopied(p)
      <3>1. UNCHANGED <<semval, semmap, undo, net>>
        BY <2>2 DEF semctlSetCopied
      <3>2. QED
        BY <1>2, <1>6, <2>2, <3>1 DEF undo
    <2>3. ASSUME NEW vals \in [SemNo -> 0 .. SEMVMX], semctlSetallCopied(p, vals) PROVE BalanceInv'
      <3>1. UNCHANGED <<sema, semmap>>
        BY <2>3 DEF semctlSetallCopied
      <3>2. CASE UNCHANGED <<semval, undo, net>>
        BY <1>2, <3>1, <3>2 DEF undo
      <3>3. CASE ~UNCHANGED <<semval, undo, net>>
        BY <1>1, <2>3, <3>3, SetallBalance
      <3>4. QED
        BY <3>2, <3>3
    <2>4. QED
      BY <1>7, <2>1, <2>2, <2>3 DEF Resume
  <1>8. ASSUME NEW p \in Proc, psignal(p) PROVE BalanceInv'
    BY <1>2, <1>8 DEF psignal, kern, undo, hist
  <1>9. ASSUME NEW p \in Proc, NEW id, NEW ops, semop(p, id, ops) PROVE BalanceInv'
    BY <1>3, <1>9 DEF semop
  <1>10. CASE UNCHANGED vars
    BY <1>2, <1>10 DEF vars, kern, undo, hist
  <1>11. QED
    BY <1>1, <1>4, <1>5, <1>7, <1>8, <1>9, <1>10, semgetBalance, semexitBalance DEF Next

LEMMA InitBalance ==
  ASSUME Init PROVE BalanceInv
  <1>1. /\ semmap = SemNo /\ net = [s \in SemNo |-> 0]
        /\ sema = [s \in Slot |-> [alloc |-> FALSE, seq |-> 0, key |-> None,
                                   base |-> 1, nsems |-> 0]]
    BY Zenon DEF Init
  <1>2. \A k \in Ent : ~LiveEnt(k)
    <2>1. \A s \in Slot : ~sema[s].alloc
      BY <1>1
    <2>2. QED
      BY <2>1 DEF Ent, Id, LiveEnt, semconv
  <1>3. QED
    BY <1>1, <1>2 DEF BalanceInv

\* Undo bookkeeping balances for any number of processes: what semaoe()
\* records, semundo() takes back, semunrm() drops and semexit() applies or
\* skips is what the values are off from those last set, until a process goes
\* on with a removed set.
THEOREM UndoBalances == Spec => []UndoBalance
  <1>1. Init => BalanceOK
    BY InitBalance DEF BalanceOK
  <1>2. CallInv /\ IndexOK /\ UndoInv /\ LiveInv /\ PassInv /\ BalanceOK
        /\ CallInv' /\ PassInv' /\ [Next]_vars => BalanceOK'
    BY BalanceStep DEF BalanceOK
  <1>3. CallInv /\ BalanceOK => UndoBalance
    <2> SUFFICES ASSUME CallInv, BalanceInv, NEW s \in Slot, sema[s].alloc,
                        NEW n \in 0 .. sema[s].nsems - 1
                 PROVE  LET x == sema[s].base + n
                            k == <<<<sema[s].seq, s>>, n>>
                        IN semval[x] + MapThenSumSet(LAMBDA p : aoe[p][k], Proc) = net[x]
      BY DEF UndoBalance, BalanceOK
    <2>1. PICK k : k = <<<<sema[s].seq, s>>, n>>
      OBVIOUS
    <2>2. /\ sema[s].seq \in 0 .. SEQ_MAX /\ sema[s].nsems \in Nat /\ sema[s].nsems <= SEMMSL
      BY TypeGroups DEF CallInv, SemaType, SetsInPool
    <2>3. n \in Num /\ n < sema[s].nsems
      BY <2>2, ConstLemma DEF Num
    <2>4. k \in Ent
      BY <2>1, <2>2, <2>3 DEF Ent, Id
    <2>5. LiveEnt(k) /\ Place(k) = sema[s].base + n
      BY <2>1, <2>3 DEF LiveEnt, Place, semconv
    <2>6. semval[Place(k)] + Pending(aoe, k) = net[Place(k)]
      BY <2>4, <2>5 DEF BalanceInv
    <2>7. MapThenSumSet(LAMBDA p : aoe[p][k], Proc) = Pending(aoe, k)
      <3>1. PICK a : a = aoe
        OBVIOUS
      <3>2. AoeType(a)
        BY <3>1, NowTypes
      <3>3. MapThenSumSet(LAMBDA p : a[p][k], Proc) = Pending(a, k)
        BY <2>4, <3>2, PendingIs
      <3>4. QED
        BY <3>1, <3>3
    <2>8. QED
      BY <2>1, <2>5, <2>6, <2>7
  <1>4. QED
    BY <1>1, <1>2, <1>3, SemInv, SemUndoInv, PTL DEF Spec
=============================================================================
