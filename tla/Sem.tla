-------------------------------- MODULE Sem --------------------------------
(***************************************************************************)
(* System V semaphores: uts/i386/os/sem.c, with ipcget() of os/ipc.c and   *)
(* the allocator interface of os/malloc.c.                                 *)
(*                                                                         *)
(* The kernel is not preempted between two sleeps, so a system call is     *)
(* atomic up to a sleep.  copyin() may sleep in a page fault, and may fail *)
(* with EFAULT: semop(), SETALL and IPC_SET are split there, and what they *)
(* found out before it is not looked at again.  semop() is also modelled   *)
(* one operation of its list at a time, because it applies the operations  *)
(* one by one and undoes them when a later one cannot be done.  cpu names  *)
(* the process that is in such a call, and no other process enters the     *)
(* kernel until it returns or sleeps.  Signals arrive at any time, from    *)
(* interrupts.                                                             *)
(*                                                                         *)
(* A semid is seq * semmni + slot in the code.  The pair <<seq, slot>> is  *)
(* the same number (slot < semmni), and IdValue gives it back where the    *)
(* code compares its magnitude.                                            *)
(*                                                                         *)
(* Access checks (ipcaccess, suser) only decide whether a call is refused, *)
(* and a refused call changes nothing: every call is allowed to every      *)
(* process.  A process does not rewrite its operation list while it sleeps *)
(* in semop(), so copying the list in again reads the same list.  A list   *)
(* and the values of SETALL lie within a page, so that they are in semtmp, *)
(* the one buffer of all calls, from the end of the fault until they are   *)
(* used.                                                                   *)
(*                                                                         *)
(* A call that goes on with a set that was removed while it slept can do   *)
(* more damage than the variables hold.  Left out of it: semaphores beyond *)
(* the end of the pool (InPool), freeing a semaphore that is free          *)
(* (semctlRmid), and an exit that adjusts one semaphore twice (semexit).   *)
(***************************************************************************)
EXTENDS Integers, FiniteSets, Sequences, FiniteSetsExt

CONSTANTS
  Proc,        \* process table slots
  SEMMNI,      \* semaphore sets (seminfo.semmni)
  SEMMNS,      \* semaphores in the pool (seminfo.semmns)
  SEMVMX,      \* largest value of a semaphore (seminfo.semvmx)
  SEMAEM,      \* largest adjust-on-exit value (seminfo.semaem)
  SEMUME,      \* undo entries of a process (seminfo.semume)
  SEMMNU,      \* undo structures (seminfo.semmnu)
  SEMMSL,      \* semaphores of a set (seminfo.semmsl)
  SEMOPM,      \* operations of one call (seminfo.semopm)
  ID_MAX,      \* INT16_MAX: the largest semid
  SEQ_MAX,     \* bound: no sequence number is larger (follows from ID_MAX)
  MaxRmid,     \* bound: IPC_RMID calls of a behaviour
  MaxFault,    \* bound: page faults in which a copyin() of a behaviour sleeps
  Keys,        \* keys other than IPC_PRIVATE
  SetSizes,    \* values of nsems passed to semget()
  OpLists,     \* operation lists passed to semop()
  None         \* no process, no channel, no key

Slot  == 0 .. SEMMNI - 1
SemNo == 1 .. SEMMNS
Num   == 0 .. SEMMSL - 1
Id    == (0 .. SEQ_MAX) \X Slot
Ent   == Id \X Num
\* the sleep channels &semp->semncnt and &semp->semzcnt of each semaphore
Chan  == SemNo \X {"n", "z"}

Sembuf == [num : Nat, op : Int, undo : BOOLEAN, nowait : BOOLEAN]

IdValue(id) == id[1] * SEMMNI + id[2]

ASSUME SemAssumption ==
  /\ IsFiniteSet(Proc)
  /\ SEMMNI \in Nat \ {0}
  /\ {SEMMNS, SEMVMX, SEMAEM, SEMUME, SEMMNU} \subseteq Nat
  /\ {SEMMSL, SEMOPM, ID_MAX, SEQ_MAX, MaxRmid, MaxFault} \subseteq Nat
  /\ SetSizes \subseteq Int
  /\ OpLists \subseteq Seq(Sembuf)
  /\ None \notin Proc \cup Chan \cup Keys
  /\ \A s \in Slot : IdValue(<<SEQ_MAX + 1, s>>) > ID_MAX

VARIABLES
  sema,      \* semid_ds of each slot: IPC_ALLOC bit, seq, key, base, nsems
  semval,    \* value of each semaphore of the pool
  semcnt,    \* semncnt and semzcnt of each semaphore
  semmap,    \* free semaphores of the pool
  sem_undo,  \* processes that own an undo structure
  aoe,       \* un_aoe of each entry of each process, 0 where there is none
  semunp,    \* processes whose undo structure is on the undo chain
  semfup,    \* number of free undo structures
  cpu,       \* the process inside semop(), SETALL or IPC_SET, or None
  pc,        \* where each process is
  uap,       \* the semid and operation list of its call
  i,         \* loop index of its semop()
  semp,      \* the channel it sleeps on, or slept on last
  err,       \* why its semop() is undoing the operations done so far
  wchan,     \* p_wchan: the channel while asleep, None once awakened
  sig,       \* processes with a signal pending
  nrm,       \* IPC_RMID calls so far
  nflt,      \* page faults of copyin() so far
  \* history variables
  net,       \* value set last, changed by operations without SEM_UNDO and
             \* by the adjustments that semexit() skipped
  snap,      \* semval and aoe before each operation of the current pass
  stale,     \* processes whose set was removed since their call began
  strayed    \* processes that have used a set all the same

kern == <<sema, semval, semcnt, semmap>>
undo == <<sem_undo, aoe, semunp, semfup>>
call == <<cpu, pc, uap, i, semp, err>>
hist == <<nrm, nflt, net, snap, stale, strayed>>
vars == <<kern, undo, call, wchan, sig, hist>>

-----------------------------------------------------------------------------
(* Helpers *)

NoCall == [id |-> <<0, 0>>, ops |-> <<>>]

\* semconv(): the semid names an allocated slot of the same sequence number.
semconv(id) ==
  /\ sema[id[2]].alloc
  /\ sema[id[2]].seq = id[1]

SemsOf(slot) == sema[slot].base .. sema[slot].base + sema[slot].nsems - 1

\* Index in the pool of the semaphore the current operation is on.
Op(p) == uap[p].ops[i[p]]
SemAt(p, num) == sema[uap[p].id[2]].base + num

\* Restriction: the operations of p are on semaphores of the pool.
InPool(p) == \A j \in DOMAIN uap[p].ops : SemAt(p, uap[p].ops[j].num) \in SemNo

\* rmalloc() of size semaphores returns a: the first place that fits.
Fits(a, size) == a + size - 1 <= SEMMNS /\ a .. a + size - 1 \subseteq semmap
rmalloc(a, size) == Fits(a, size) /\ \A b \in SemNo : b < a => ~Fits(b, size)

\* Mutant: only the waiters for a larger value are awakened.
wakeN(cs) ==
  /\ semcnt' = [c \in Chan |-> IF c \in cs /\ c[2] = "n" THEN 0 ELSE semcnt[c]]
  /\ wchan' = [p \in Proc |-> IF wchan[p] \in cs /\ wchan[p][2] = "n" /\ semcnt[wchan[p]] # 0
                              THEN None ELSE wchan[p]]

\* if (cnt) { cnt = 0; wakeprocs(&cnt) } for every channel of cs
wake(cs) ==
  /\ semcnt' = [c \in Chan |-> IF c \in cs THEN 0 ELSE semcnt[c]]
  /\ wchan' = [p \in Proc |-> IF wchan[p] \in cs /\ semcnt[wchan[p]] # 0
                              THEN None ELSE wchan[p]]

Entries(f) == {k \in Ent : f[k] # 0}
Abs(n) == IF n < 0 THEN -n ELSE n

\* Mutant: the entry limit is checked before an existing entry is looked for.
semaoeErrorFull(p, val, k) ==
  IF val = 0 THEN ""
  ELSE IF Abs(val) > SEMAEM THEN "ERANGE"
  ELSE IF p \notin sem_undo /\ semfup = 0 THEN "ENOSPC"
  ELSE IF Cardinality(Entries(aoe[p])) >= SEMUME THEN "EINVAL"
  ELSE IF Abs(aoe[p][k] - val) > SEMAEM THEN "ERANGE"
  ELSE ""

\* The error semaoe() returns for process p, "" for none.
semaoeError(p, val, k) ==
  IF val = 0 THEN ""
  ELSE IF Abs(val) > SEMAEM THEN "ERANGE"
  ELSE IF p \notin sem_undo /\ semfup = 0 THEN "ENOSPC"
  ELSE IF aoe[p][k] = 0 /\ Cardinality(Entries(aoe[p])) >= SEMUME THEN "EINVAL"
  ELSE IF Abs(aoe[p][k] - val) > SEMAEM THEN "ERANGE"
  ELSE ""

\* Mutant: the free list is not looked at.
TakesUndoBlind(p, val) == val # 0 /\ Abs(val) <= SEMAEM /\ p \notin sem_undo

\* semaoe() takes a free undo structure for process p.
TakesUndo(p, val) ==
  val # 0 /\ Abs(val) <= SEMAEM /\ p \notin sem_undo /\ semfup > 0

\* semaoe(): create, update or drop the adjust-on-exit entry k of process p.
\* The structure is allocated on first use, and is on the chain while it
\* has entries.
semaoe(p, val, k) ==
  LET new == [aoe[p] EXCEPT ![k] = @ - val]
      ok  == semaoeError(p, val, k) = ""
  IN /\ sem_undo' = IF TakesUndo(p, val) THEN sem_undo \cup {p} ELSE sem_undo
     /\ semfup' = IF TakesUndo(p, val) THEN semfup - 1 ELSE semfup
     /\ aoe' = IF ok /\ val # 0 THEN [aoe EXCEPT ![p] = new] ELSE aoe
     /\ semunp' = IF ~ok \/ val = 0 THEN semunp
                  ELSE IF Entries(new) = {} THEN semunp \ {p}
                  ELSE semunp \cup {p}

\* Mutants: nothing is dropped; the highest one is kept; an emptied structure stays on the chain.
semunrmNone(id, nums) == UNCHANGED undo
semunrmBelow(id, nums) ==
  /\ aoe' = [p \in Proc |->
               [k \in Ent |-> IF p \in semunp /\ k[1] = id /\ \E n \in nums : k[2] < n
                              THEN 0 ELSE aoe[p][k]]]
  /\ semunp' = {p \in semunp : Entries(aoe'[p]) # {}}
  /\ UNCHANGED <<sem_undo, semfup>>
semunrmChained(id, nums) ==
  /\ aoe' = [p \in Proc |->
               [k \in Ent |-> IF p \in semunp /\ k[1] = id /\ k[2] \in nums
                              THEN 0 ELSE aoe[p][k]]]
  /\ UNCHANGED <<sem_undo, semunp, semfup>>

\* semunrm(): drop the entries for some semaphores of a set, in every
\* structure of the chain.
semunrm(id, nums) ==
  /\ aoe' = [p \in Proc |->
               [k \in Ent |-> IF p \in semunp /\ k[1] = id /\ k[2] \in nums
                              THEN 0 ELSE aoe[p][k]]]
  /\ semunp' = {p \in semunp : Entries(aoe'[p]) # {}}
  /\ UNCHANGED <<sem_undo, semfup>>

-----------------------------------------------------------------------------
(* seminit(): one free run of semmns semaphores, semmnu free structures    *)

Init ==
  /\ sema = [s \in Slot |-> [alloc |-> FALSE, seq |-> 0, key |-> None,
                             base |-> 1, nsems |-> 0]]
  /\ semval = [s \in SemNo |-> 0]
  /\ semcnt = [c \in Chan |-> 0]
  /\ semmap = SemNo
  /\ sem_undo = {}
  /\ aoe = [p \in Proc |-> [k \in Ent |-> 0]]
  /\ semunp = {}
  /\ semfup = SEMMNU
  /\ cpu = None
  /\ pc = [p \in Proc |-> "user"]
  /\ uap = [p \in Proc |-> NoCall]
  /\ i = [p \in Proc |-> 1]
  /\ semp = [p \in Proc |-> None]
  /\ err = [p \in Proc |-> ""]
  /\ wchan = [p \in Proc |-> None]
  /\ sig = {}
  /\ nrm = 0
  /\ nflt = 0
  /\ net = [s \in SemNo |-> 0]
  /\ snap = <<>>
  /\ stale = {}
  /\ strayed = {}

\* A process that is in user mode may enter the kernel.
MayCall(p) == cpu = None /\ pc[p] = "user"

\* copyin() for process p: the page is in memory, or p sleeps until it is.
copyin(p) ==
  \/ cpu' = p /\ UNCHANGED nflt
  \/ cpu' = None /\ nflt < MaxFault /\ nflt' = nflt + 1

\* A call finds its set and calls copyin().
Enter(p, at, id, ops) ==
  /\ MayCall(p)
  /\ semconv(id)
  /\ copyin(p)
  /\ pc' = [pc EXCEPT ![p] = at]
  /\ uap' = [uap EXCEPT ![p] = [id |-> id, ops |-> ops]]
  /\ UNCHANGED <<kern, undo, i, semp, err, wchan, sig, nrm, net, snap, stale, strayed>>

\* copyin() returns to the call that it was called from at this place.
Copied(p, at) == cpu \in {p, None} /\ pc[p] = at

\* Return to user mode, where a pending signal is taken.
Return(p) ==
  /\ sig' = sig \ {p}
  /\ cpu' = None
  /\ pc' = [pc EXCEPT ![p] = "user"]
  /\ uap' = [uap EXCEPT ![p] = NoCall]
  /\ i' = [i EXCEPT ![p] = 1]
  /\ semp' = [semp EXCEPT ![p] = None]
  /\ err' = [err EXCEPT ![p] = ""]
  /\ snap' = <<>>
  /\ stale' = stale \ {p}

\* A call goes on with the sp it has, whether or not the set is still there.
GoesOn(p) == strayed' = strayed \cup ({p} \cap stale)

-----------------------------------------------------------------------------
(* semget(), semctl(), semexit()                                           *)

\* semget() that creates a set: ipcget() takes the first free slot, unless
\* the key exists already.
semget(p, key, n) ==
  /\ MayCall(p)
  /\ \A s \in Slot : ~(sema[s].alloc /\ key # None /\ sema[s].key = key)
  /\ n > 0 /\ n <= SEMMSL
  /\ \E s \in Slot, a \in SemNo :
       /\ ~sema[s].alloc
       /\ \A t \in Slot : t < s => sema[t].alloc
       /\ rmalloc(a, n)
       /\ sema' = [sema EXCEPT ![s] =
                      [alloc |-> TRUE, seq |-> @.seq, key |-> key, base |-> a, nsems |-> n]]
       /\ semmap' = semmap \ (a .. a + n - 1)
  /\ UNCHANGED <<semval, semcnt, undo, call, wchan, sig, hist>>

\* Mutant: the sequence number stays.
NextSeqSame(id) == id[1]

\* The sequence number IPC_RMID leaves in the slot.
NextSeq(id) ==
  IF IdValue(id) + SEMMNI > ID_MAX THEN 0 ELSE id[1] + 1

\* Mutant: one of the two channels is forgotten.
RmidWakeZ(slot) == wake(SemsOf(slot) \X {"z"})

RmidWake(slot) == wake(SemsOf(slot) \X {"n", "z"})

\* Mutant: values are left behind.
ClearedNot(f, slot) == f

Cleared(f, slot) == [s \in SemNo |-> IF s \in SemsOf(slot) THEN 0 ELSE f[s]]

\* semctl(IPC_RMID).  Restriction: the semaphores are not free already.
semctlRmid(p, id) ==
  /\ MayCall(p)
  /\ nrm < MaxRmid
  /\ semconv(id)
  /\ SemsOf(id[2]) \cap semmap = {}
  /\ semunrm(id, 0 .. sema[id[2]].nsems)
  /\ semval' = Cleared(semval, id[2])
  /\ RmidWake(id[2])
  /\ semmap' = semmap \cup SemsOf(id[2])
  /\ sema' = [sema EXCEPT ![id[2]] = [alloc |-> FALSE, seq |-> NextSeq(id), key |-> @.key,
                                       base |-> @.base, nsems |-> @.nsems]]
  /\ nrm' = nrm + 1
  /\ net' = [s \in SemNo |-> IF s \in SemsOf(id[2]) THEN 0 ELSE net[s]]
  /\ stale' = stale \cup {q \in Proc : pc[q] # "user" /\ uap[q].id = id}
  /\ UNCHANGED <<call, sig, nflt, snap, strayed>>

\* semctl(SETVAL)
semctlSetval(p, id, num, val) ==
  LET s == sema[id[2]].base + num
  IN /\ MayCall(p)
     /\ semconv(id)
     /\ num < sema[id[2]].nsems
     /\ val <= SEMVMX
     /\ semval' = [semval EXCEPT ![s] = val]
     /\ wake({<<s, IF val # 0 THEN "n" ELSE "z">>})
     /\ semunrm(id, {num})
     /\ net' = [net EXCEPT ![s] = val]
     /\ UNCHANGED <<sema, semmap, call, sig, nrm, nflt, snap, stale, strayed>>

\* semctl(SETALL), up to copyin() of the values.
semctlSetall(p, id) == Enter(p, "setall", id, <<>>)

\* The values are there, unless copyin() failed (EFAULT) or one of them is
\* too large (ERANGE).  vals gives a value to every semaphore of the pool, of
\* which the set that the slot has now takes its own.
semctlSetallCopied(p, vals) ==
  LET id == uap[p].id
      mine == SemsOf(id[2])
  IN /\ Copied(p, "setall")
     /\ Return(p)
     /\ \/ /\ semunrm(id, 0 .. sema[id[2]].nsems)
           /\ semval' = [s \in SemNo |-> IF s \in mine THEN vals[s] ELSE semval[s]]
           /\ wake({<<s, IF vals[s] # 0 THEN "n" ELSE "z">> : s \in mine})
           /\ net' = [s \in SemNo |-> IF s \in mine THEN vals[s] ELSE net[s]]
           /\ GoesOn(p)
        \/ UNCHANGED <<semval, semcnt, undo, wchan, net, strayed>>
     /\ UNCHANGED <<sema, semmap, nrm, nflt>>

\* semctl(IPC_SET), up to copyin() of owner and mode.
semctlSet(p, id) == Enter(p, "ipcset", id, <<>>)

\* The mode is set together with IPC_ALLOC, which brings a removed set back,
\* with the key that a failing semget() may have left in the slot.
semctlSetCopied(p) ==
  LET slot == uap[p].id[2]
  IN /\ Copied(p, "ipcset")
     /\ Return(p)
     /\ \/ /\ IF sema[slot].alloc THEN sema' = sema
              ELSE \E key \in Keys \cup {None} :
                     sema' = [sema EXCEPT ![slot].alloc = TRUE, ![slot].key = key]
           /\ GoesOn(p)
        \/ UNCHANGED <<sema, strayed>>
     /\ UNCHANGED <<semval, semcnt, semmap, undo, wchan, nrm, nflt, net>>

Adjustable(v) == v \in 0 .. SEMVMX

\* semexit(): apply the adjustments of the exiting process, skipping those
\* for removed sets and those that leave 0 .. semvmx.  Restriction: no two of
\* them are on one semaphore, and those beyond the pool are left out.
semexit(p) ==
  LET at(k) == sema[k[1][2]].base + k[2]
      live == {k \in Entries(aoe[p]) : semconv(k[1]) /\ at(k) \in SemNo}
      done == {k \in live : Adjustable(semval[at(k)] + aoe[p][k])}
      v(k) == semval[at(k)] + aoe[p][k]
  IN /\ MayCall(p)
     /\ p \in sem_undo
     /\ \A k, l \in live : at(k) = at(l) => k = l
     /\ semval' = [s \in SemNo |-> IF \E k \in done : at(k) = s
                     THEN v(CHOOSE k \in done : at(k) = s) ELSE semval[s]]
     /\ wake({<<at(k), "z">> : k \in {k \in done : v(k) = 0}}
             \cup {<<at(k), "n">> : k \in {k \in done : aoe[p][k] > 0}})
     /\ aoe' = [aoe EXCEPT ![p] = [k \in Ent |-> 0]]
     /\ semunp' = semunp \ {p}
     /\ semfup' = semfup + 1
     /\ sem_undo' = sem_undo \ {p}
     /\ net' = [s \in SemNo |-> IF \E k \in live \ done : at(k) = s
                  THEN net[s] - aoe[p][CHOOSE k \in live \ done : at(k) = s]
                  ELSE net[s]]
     /\ UNCHANGED <<sema, semmap, call, sig, nrm, nflt, snap, stale, strayed>>

-----------------------------------------------------------------------------
(* semop() *)

\* Start a pass over the list.
Check(p) ==
  /\ cpu' = p
  /\ pc' = [pc EXCEPT ![p] = "op"]
  /\ i' = [i EXCEPT ![p] = 1]
  /\ snap' = <<[val |-> semval, aoe |-> aoe]>>
  /\ GoesOn(p)

\* Entry, up to copyin() of the list.
semop(p, id, ops) ==
  /\ Len(ops) <= SEMOPM
  /\ Enter(p, "copyin", id, ops)

\* The list is there, unless copyin() failed (EFAULT).  The numbers are
\* checked against the set that the slot has now (EFBIG), or had last, and the
\* semid is not looked at again before the first pass.
semopCopied(p) ==
  /\ Copied(p, "copyin")
  /\ \/ /\ \A j \in DOMAIN uap[p].ops : uap[p].ops[j].num < sema[uap[p].id[2]].nsems
        /\ Check(p)
        /\ UNCHANGED <<uap, semp, err, sig, stale>>
     \/ /\ Return(p)
        /\ UNCHANGED strayed
  /\ UNCHANGED <<kern, undo, wchan, nrm, nflt, net>>

InOp(p) == cpu = p /\ pc[p] = "op" /\ i[p] <= Len(uap[p].ops)

\* Why the current operation cannot be done, "" if it can: an error, or the
\* wait for a larger value ("n") or for zero ("z").
Obstacle(p) ==
  LET o == Op(p)
      v == semval[SemAt(p, o.num)]
      e == IF o.undo THEN semaoeError(p, o.op, <<uap[p].id, o.num>>) ELSE ""
      wait(c) == IF o.nowait THEN "EAGAIN" ELSE c
  IN IF o.op > 0 THEN (IF o.op + v > SEMVMX THEN "ERANGE" ELSE e)
     ELSE IF o.op < 0 THEN (IF v >= -o.op THEN e ELSE wait("n"))
     ELSE (IF v = 0 THEN "" ELSE wait("z"))

\* The operation is done: change the value, record the undo entry and wake
\* the processes that wait for it.
semopDo(p) ==
  LET o == Op(p)
      s == SemAt(p, o.num)
      v == semval[s] + o.op
  IN /\ InOp(p)
     /\ Obstacle(p) = ""
     /\ semval' = [semval EXCEPT ![s] = v]
     /\ IF o.undo THEN semaoe(p, o.op, <<uap[p].id, o.num>>) ELSE UNCHANGED undo
     /\ wake((IF o.op > 0 THEN {<<s, "n">>} ELSE {})
             \cup (IF o.op # 0 /\ v = 0 THEN {<<s, "z">>} ELSE {}))
     /\ i' = [i EXCEPT ![p] = @ + 1]
     /\ net' = IF o.undo THEN net ELSE [net EXCEPT ![s] = @ + o.op]
     /\ snap' = Append(snap, [val |-> semval', aoe |-> aoe'])
     /\ UNCHANGED <<sema, semmap, cpu, pc, uap, semp, err, sig, nrm, nflt, stale, strayed>>

\* The operation cannot be done: undo those before it.  A failing semaoe()
\* may have allocated the undo structure.
semopFail(p) ==
  LET o == Op(p)
      s == SemAt(p, o.num)
      e == Obstacle(p)
  IN /\ InOp(p)
     /\ e # ""
     /\ pc' = [pc EXCEPT ![p] = "undo"]
     /\ err' = [err EXCEPT ![p] = e]
     /\ semp' = [semp EXCEPT ![p] = IF e \in {"n", "z"} THEN <<s, e>> ELSE None]
     /\ IF /\ o.undo
           /\ \/ o.op > 0 /\ o.op + semval[s] <= SEMVMX
              \/ o.op < 0 /\ semval[s] >= -o.op
        THEN semaoe(p, o.op, <<uap[p].id, o.num>>) ELSE UNCHANGED undo
     /\ UNCHANGED <<kern, cpu, uap, i, wchan, sig, hist>>

\* One iteration of semundo().
semundo(p) ==
  LET o == uap[p].ops[i[p] - 1]
      s == SemAt(p, o.num)
  IN /\ cpu = p /\ pc[p] = "undo" /\ i[p] > 1
     /\ semval' = [semval EXCEPT ![s] = @ - o.op]
     /\ IF o.undo THEN semaoe(p, -o.op, <<uap[p].id, o.num>>) ELSE UNCHANGED undo
     /\ i' = [i EXCEPT ![p] = @ - 1]
     /\ net' = IF o.undo THEN net ELSE [net EXCEPT ![s] = @ - o.op]
     /\ UNCHANGED <<sema, semcnt, semmap, cpu, pc, uap, semp, err, wchan, sig,
                    nrm, nflt, snap, stale, strayed>>

\* Everything is undone: return the error.
semopError(p) ==
  /\ cpu = p /\ pc[p] = "undo" /\ i[p] = 1
  /\ err[p] \notin {"n", "z"}
  /\ Return(p)
  /\ UNCHANGED <<kern, undo, wchan, nrm, nflt, net, strayed>>

\* Mutant: the last one out does not wake the others.
UncountQuiet(c, base) ==
  /\ semcnt' = [semcnt EXCEPT ![c] = IF base <= 1 THEN 0 ELSE base - 1]
  /\ UNCHANGED wchan

\* if (cnt-- <= 1) { cnt = 0; wakeprocs(&cnt) }, with cnt counting base
Uncount(c, base) ==
  IF base <= 1
  THEN /\ semcnt' = [semcnt EXCEPT ![c] = 0]
       /\ wchan' = [q \in Proc |-> IF wchan[q] = c THEN None ELSE wchan[q]]
  ELSE /\ semcnt' = [semcnt EXCEPT ![c] = base - 1]
       /\ UNCHANGED wchan

\* Everything is undone: count the process and sleep; with a signal pending
\* sleep() returns 1 at once, and semop() EINTR.
semopSleep(p) ==
  /\ cpu = p /\ pc[p] = "undo" /\ i[p] = 1
  /\ err[p] \in {"n", "z"}
  /\ \/ /\ p \notin sig
        /\ semcnt' = [semcnt EXCEPT ![semp[p]] = @ + 1]
        /\ wchan' = [wchan EXCEPT ![p] = semp[p]]
        /\ pc' = [pc EXCEPT ![p] = "sleep"]
        /\ cpu' = None
        /\ snap' = <<>>
        /\ UNCHANGED <<uap, i, semp, err, sig, stale>>
     \/ /\ p \in sig
        /\ Uncount(semp[p], semcnt[semp[p]] + 1)
        /\ Return(p)
  /\ UNCHANGED <<sema, semval, semmap, undo, nrm, nflt, net, strayed>>

\* A process that was awakened gets the processor, and sleep() returns.
Awake(p) == cpu = None /\ pc[p] = "sleep" /\ wchan[p] = None

\* sleep() returns 0: copy the list in again, unless the set was removed (EIDRM).
semopAgain(p) ==
  /\ Awake(p)
  /\ p \notin sig
  /\ \/ /\ semconv(uap[p].id)
        /\ copyin(p)
        /\ pc' = [pc EXCEPT ![p] = "recopyin"]
        /\ semp' = [semp EXCEPT ![p] = None]
        /\ err' = [err EXCEPT ![p] = ""]
        /\ UNCHANGED <<uap, i, sig, snap, stale>>
     \/ /\ ~semconv(uap[p].id)
        /\ Return(p)
        /\ UNCHANGED nflt
  /\ UNCHANGED <<kern, undo, wchan, nrm, net, strayed>>

\* The list is there again, unless copyin() failed (EFAULT).  Neither the
\* semid nor the numbers are looked at again.
semopRecopied(p) ==
  /\ Copied(p, "recopyin")
  /\ \/ /\ InPool(p)
        /\ Check(p)
        /\ UNCHANGED <<uap, semp, err, sig, stale>>
     \/ /\ Return(p)
        /\ UNCHANGED strayed
  /\ UNCHANGED <<kern, undo, wchan, nrm, nflt, net>>

\* sleep() returns 1 because of a signal: EINTR.  semp still points at the
\* semaphore, whose set may be gone.
semopIntr(p) ==
  /\ Awake(p)
  /\ p \in sig
  /\ Uncount(semp[p], semcnt[semp[p]])
  /\ Return(p)
  /\ UNCHANGED <<sema, semval, semmap, undo, nrm, nflt, net, strayed>>

\* Every operation was done.
semopDone(p) ==
  /\ cpu = p /\ pc[p] = "op" /\ i[p] > Len(uap[p].ops)
  /\ Return(p)
  /\ UNCHANGED <<kern, undo, wchan, nrm, nflt, net, strayed>>

\* psignal(): a process in a call gets a signal; a sleeping one is set
\* running by setrun().
psignal(p) ==
  /\ pc[p] # "user"
  /\ p \notin sig
  /\ sig' = sig \cup {p}
  /\ wchan' = [wchan EXCEPT ![p] = None]
  /\ UNCHANGED <<kern, undo, call, hist>>

-----------------------------------------------------------------------------

\* A pass, and what follows it.
PassStep(p) ==
  \/ semopDo(p) \/ semopFail(p) \/ semundo(p) \/ semopError(p)
  \/ semopSleep(p) \/ semopDone(p)

\* A sleep ends: in semop() itself, or in a page fault of copyin().
Resume(p) ==
  \/ semopAgain(p) \/ semopIntr(p) \/ semopCopied(p) \/ semopRecopied(p)
  \/ semctlSetCopied(p)
  \/ \E vals \in [SemNo -> 0 .. SEMVMX] : semctlSetallCopied(p, vals)

Semctl(p) ==
  \E id \in Id :
    \/ semctlRmid(p, id)
    \/ \E num \in Num, val \in 0 .. SEMVMX : semctlSetval(p, id, num, val)
    \/ semctlSetall(p, id)
    \/ semctlSet(p, id)

Next ==
  \E p \in Proc :
    \/ \E key \in Keys \cup {None}, n \in SetSizes : semget(p, key, n)
    \/ Semctl(p)
    \/ semexit(p)
    \/ \E id \in Id, ops \in OpLists : semop(p, id, ops)
    \/ PassStep(p)
    \/ Resume(p)
    \/ psignal(p)

Spec == Init /\ [][Next]_vars

\* The processor goes on with the process in a pass, and the dispatcher runs
\* every process that was awakened, or whose page came in, sooner or later.
Fairness ==
  \A p \in Proc :
    /\ WF_vars(PassStep(p))
    /\ SF_vars(Resume(p))

FairSpec == Spec /\ Fairness

-----------------------------------------------------------------------------
(* Properties *)

\* The types of the variables; semfup is never negative, so a structure is
\* taken from the free list only when there is one (os/sem.c 111-118).
TypeOK ==
  /\ sema \in [Slot -> [alloc : BOOLEAN, seq : 0 .. SEQ_MAX, key : Keys \cup {None},
                        base : Nat, nsems : Nat]]
  /\ semval \in [SemNo -> Int]
  /\ semcnt \in [Chan -> Nat]
  /\ semmap \subseteq SemNo
  /\ sem_undo \subseteq Proc
  /\ aoe \in [Proc -> [Ent -> Int]]
  /\ semunp \subseteq Proc
  /\ semfup \in Nat
  /\ cpu \in Proc \cup {None}
  /\ pc \in [Proc -> {"user", "copyin", "recopyin", "setall", "ipcset", "op", "undo", "sleep"}]
  /\ uap \in [Proc -> [id : Id, ops : OpLists \cup {<<>>}]]
  /\ i \in [Proc -> Nat \ {0}]
  /\ semp \in [Proc -> Chan \cup {None}]
  /\ err \in [Proc -> {"", "n", "z", "EAGAIN", "ERANGE", "ENOSPC", "EINVAL"}]
  /\ wchan \in [Proc -> Chan \cup {None}]
  /\ sig \subseteq Proc
  /\ nrm \in 0 .. MaxRmid
  /\ nflt \in 0 .. MaxFault
  /\ snap \in Seq([val : [SemNo -> Int], aoe : [Proc -> [Ent -> Int]]])
  /\ stale \subseteq Proc
  /\ strayed \subseteq Proc

\* semncnt and semzcnt are what the kernel looks at before it calls
\* wakeprocs(): whatever signals, removals and reuse of semaphores did to the
\* count, it is not 0 while a process sleeps on it (os/sem.c 678, 712, 728).
SleeperCounted ==
  \A p \in Proc : wchan[p] # None => semcnt[wchan[p]] > 0

\* A process that sleeps does so in a set that exists, on a semaphore of that
\* set: IPC_RMID wakes everyone (os/sem.c 299-309).  Only a process that has
\* gone on with a removed set may sleep where no removal will wake it.
SleeperHasSet ==
  \A p \in Proc : wchan[p] # None /\ p \notin strayed =>
    /\ semconv(uap[p].id)
    /\ wchan[p][1] \in SemsOf(uap[p].id[2])

\* Value the semaphore of operation j has once the operations before it are done.
ValueBefore(p, j) ==
  LET ops == uap[p].ops
  IN semval[SemAt(p, ops[j].num)]
     + MapThenSumSet(LAMBDA k : ops[k].op, {k \in 1 .. j - 1 : ops[k].num = ops[j].num})

\* All the operations of a process can be done now, one after the other.
Satisfiable(p) ==
  \A j \in DOMAIN uap[p].ops :
    LET o == uap[p].ops[j]
        v == ValueBefore(p, j)
    IN /\ o.op = 0 => v = 0
       /\ o.op # 0 => v + o.op \in 0 .. SEMVMX

\* No operation list names a semaphore twice.
NamesOnce(ops) == \A j, k \in DOMAIN ops : ops[j].num = ops[k].num => j = k

\* No lost wakeup: a process does not stay asleep in semop() when its
\* operations could be satisfied atomically (os/sem.c 647-651), if its set is
\* still there and its list names each semaphore at most once.  (With s = 2, a
\* process that does s - 1 and then waits for s = 0 sleeps until s is 0; when
\* another one takes s to 1, it could go on, and nobody tells it.)
WaitsOnlyWhenBlocked ==
  cpu = None =>
    \A p \in Proc : wchan[p] # None /\ p \notin stale /\ NamesOnce(uap[p].ops) =>
      ~Satisfiable(p)

\* semop() is all or nothing: when it has backed out, before it sleeps or
\* returns an error, values and undo entries are those it started from, even
\* where semaoe() dropped or created entries on the way (os/sem.c 229-249).
BackedOutExactly ==
  \A p \in Proc : pc[p] = "undo" /\ i[p] = 1 =>
    semval = snap[1].val /\ aoe = snap[1].aoe

\* Undo bookkeeping balances: a semaphore's value plus all the adjustments
\* pending on it is the value last set, as changed by operations without
\* SEM_UNDO and by adjustments that semexit() had to skip (os/sem.c 94-149,
\* 229-249, 298, 462, 475, 513-529).  It holds until a process goes on with a
\* removed set, whose semaphores may be those of another set by then.
UndoBalance ==
  strayed = {} => \A s \in Slot : sema[s].alloc =>
    \A n \in 0 .. sema[s].nsems - 1 :
      LET x == sema[s].base + n
          k == <<<<sema[s].seq, s>>, n>>
      IN semval[x] + MapThenSumSet(LAMBDA p : aoe[p][k], Proc) = net[x]

\* The undo chain, which is all that semunrm() looks at, holds exactly the
\* structures with entries, and no structure is lost (os/sem.c 132-135, 153-165,
\* 210-221, 531-542).
UndoChainExact ==
  /\ semunp = {p \in Proc : Entries(aoe[p]) # {}}
  /\ semunp \subseteq sem_undo
  /\ semfup + Cardinality(sem_undo) = SEMMNU

\* No undo entry outlives its set: an exit never adjusts a semaphore that a
\* later set reuses, not even when the semid wraps (os/sem.c 298, 311-314).
\* Only a process that has gone on with a removed set has such entries.
UndoEntriesLive ==
  \A p \in Proc \ strayed : \A k \in Entries(aoe[p]) :
    semconv(k[1]) /\ k[2] < sema[k[1][2]].nsems

\* The pool is divided between the sets and the free map, and a free
\* semaphore is clean: semget() does not clear what it allocates (os/sem.c
\* 299-310, 567-572).  It holds until a process goes on with a removed set.
PoolDivided ==
  strayed = {} =>
    /\ \A s \in Slot : sema[s].alloc => SemsOf(s) \cap semmap = {}
    /\ \A s, t \in Slot : s # t /\ sema[s].alloc /\ sema[t].alloc =>
         SemsOf(s) \cap SemsOf(t) = {}
    /\ \A x \in semmap : semval[x] = 0 /\ semcnt[<<x, "n">>] = 0 /\ semcnt[<<x, "z">>] = 0

\* A semid that IPC_RMID made invalid while a call was using it stays invalid
\* until as many sets were removed as it takes a sequence number to wrap, so
\* that the call can find out (os/sem.c 311-314, 656).
RemovedIdInvalid ==
  \A p \in stale : semconv(uap[p].id) => IdValue(<<nrm, uap[p].id[2]>>) > ID_MAX

\* A process whose set was removed while it was in semop() does not operate
\* on it: "Verify that the semaphores haven't been removed" (os/sem.c 655).
StaleIdDetected ==
  \A p \in stale : pc[p] \notin {"op", "undo"}

\* A process whose set was removed gets out of its call, or has gone on all
\* the same: IPC_RMID leaves nobody asleep, whatever else happens to the
\* semaphores (os/sem.c 299-309, 655-657).
RemovalReleases ==
  \A p \in Proc : p \in stale ~> pc[p] = "user" \/ p \in strayed
=============================================================================
