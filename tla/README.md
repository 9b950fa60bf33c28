# A TLA+ verification project for the SVR4 kernel

This project models parts of the UNIX System V Release 4 kernel for the i386
(`src/uts/i386`) in TLA+, checks the models with TLC on small instances and
proves their most important properties with TLAPS for every value of the
constants. It covers the parts of the kernel in which several processes and
interrupts share state and sleep in the middle of an operation: System V
semaphores, System V messages and the resource maps that allocate space for
them, the buffer cache, record locks, and processes with the signals and sleep
queues they rest on.

All paths below are relative to `src/uts/i386`, unless they begin with `src/`.

## 1. The system

### 1.1 How the kernel runs

A process in a system call is not preempted by another process: it runs until
it calls `sleep()` or returns. `sleep(chan, disp)` puts it on a queue for the
channel `chan`; `wakeprocs(chan)` makes *everyone* who sleeps on the channel
runnable, and each of them has to look again whether what it waited for is
there. At an interruptible priority a signal ends the sleep: with `PCATCH`,
`sleep()` returns 1, without it the system call is left by `longjmp()`.
`copyin()` and `copyout()` may sleep too, in a page fault, or fail with
`EFAULT`. Interrupts come between any two instructions unless masked by `spl`.

All the modules use this model of execution. In `Sem`, `Msg` and `BufferCache`,
which cut a call into several steps between two sleeps, a variable `cpu` names
the process that is between two sleeps; nobody else but interrupts and signals
takes a step until it sleeps or returns. In `RecordLock` and `Process` what a
call does between two sleeps is a single step. `wchan` says on which channel a
process sleeps. A wakeup sets it to `None`, and the process goes on in a later
step, after any number of steps of others.

### 1.2 Inventory

| Component | State | Operations | What is hard | What makes it correct |
|---|---|---|---|---|
| Semaphores, `os/sem.c` | sets (`sema`), the pool of semaphores, counts of sleepers, undo structures and their chain | `semget`, `semctl`, `semop`, `semexit` | a list of operations is done one by one and backed out; sets are removed under sleepers and under page faults; sequence numbers wrap | all or nothing; no lost wakeup; undo entries balance and die with their set; removed sets are noticed |
| Messages, `os/msg.c` | queues, the lock of each queue, message headers, segments for text | `msgget`, `msgctl`, `msgrcv`, `msgsnd` | every copy may sleep; three resources to wait for; removal under sleepers | the lock excludes; each message is received once and in order; nothing leaks; nobody sleeps for what is there |
| Resource maps, `os/malloc.c`, `sys/map.h` | array of free runs, `mapsize`, `mapwant` | `rmalloc`, `rmfree` | splitting and joining in place, a full array | no unit is given out twice; the array stays sorted and terminated; waiters are awakened |
| IPC identifiers, `os/ipc.c` | `ipc_perm` of a slot | `ipcget`, `ipcaccess` | reuse of slots | an old identifier is refused |
| Buffer cache, `os/bio.c`, `sys/buf.h` | buffers, hash queues, free list, `basyncnt` | `getblk`, `bread`, `breada`, `bwrite`, `bdwrite`, `bawrite`, `brelse`, `ngeteblk`, `bflush`, `blkflush`, `bdwait`, `binval`, `biowait`, `biodone` | completion at interrupt level; sleeping between search and use; flags shared by two kinds of waiters | one buffer per block, one owner per buffer; data is coherent and reaches the disk; no lost wakeup |
| Sleep and wakeup, `os/slp.c`; signals, `os/sig.c` | sleep queues, pending signals, dispositions | `sleep`, `wakeprocs`, `unsleep`, `setrun`, `sigtoproc`, `sigcld`, `issig`, `psig`, `stop` | signal against wakeup, stops on a sleep queue | no wakeup lost; SIGKILL always works |
| Record locks, `os/flock.c`; lock daemon, `src/cmd/fs.d/nfs/lockd` | locks of a vnode, requests that wait (`sleeplcks`), the limit on records | `reclock`, `cleanlocks`, `chklock` | splitting and joining in place, running out half way, waiting in circles, remote requests that ask again | byte-by-byte locking; no conflicting locks; sleepers awakened; no undetected circle |
| Shared memory, `os/shm.c` | segments, attach counts | `shmget`, `shmat`, `shmdt`, `shmctl` | removal while attached | freed when the last one detaches |
| Processes, `os/fork.c`, `os/exit.c`, `os/pid.c`, `os/pgrp.c`, `os/session.c` | process table, families, groups | `newproc`, `exit`, `waitid`, `freeproc` | exit against wait, orphans, stops | exact families; no lost wakeup of a waiting parent |
| init, `src/cmd/init/init.c` | disposition of SIGCLD, its tables | `childeath`, `efork`, `cleanaux` | one SIGCLD for many children, SIGCLD off at times | every zombie it has or inherits is reaped |
| Dispatcher, `disp/` | dispatch queues, classes | `setrun`, `swtch`, class functions | priorities | the highest runs; nobody starves in the time-sharing class |
| STREAMS, `os/streamio.c`, `os/strsubr.c` | queues of messages, flow control, service procedures | put, service, push and pop | back-enabling, closing under load | order within a band, no stuck queue |
| Kernel memory, `os/kma.c` | buddy pools | `kmem_alloc`, `kmem_free` | address arithmetic | no overlap |
| File systems, VM, drivers | inodes, pages, devices | | hardware and size | users of the parts above |

The parts interact as follows. `semget()` and `msgget()` use `ipcget()`;
semaphores and message text are allocated from resource maps; all of them use
`sleep()` and `wakeprocs()`; exit calls `semexit()` and, closing files,
`cleanlocks()`, and tells the parent with `sigcld()`; `fcntl()` and, for
mandatory locks, read and write call `reclock()`; the lock daemon does so for
processes of other machines; file systems and the raw devices call the cache, the cache calls the
`d_strategy` entry of a driver, and the driver's interrupt handler calls
`biodone()`, and from there `brelse()`.

`PROJECT.json` lists every component with its status, and the hazards: the
places in this code where an order of steps that no test produces could break
something, with the properties that would show it.

### 1.3 Modules

| Module | Role |
|---|---|
| `Sem` | semaphores; `MCSem` gives TLC its instances, `SemProofs` holds the proofs |
| `Msg` | messages; `MCMsg`, `MsgProofs` |
| `ResourcePool` | abstract specification of a resource map: a set of free units; `ResourcePoolProofs` |
| `Rmap` | the map as the array of `os/malloc.c`, which implements `ResourcePool`; `RmapProofs` |
| `BufferCache` | the buffer cache with the device; `MCBufferCache`, `BufferCacheProofs` |
| `FileLocks` | abstract specification of record locking: who holds which byte |
| `RecordLock` | the lock list, the sleepers and the deadlock detection of `os/flock.c`, which implements `FileLocks`; `MCRecordLock`, `RecordLockProofs` |
| `Process` | processes, signals and sleep queues composed, with init; `MCProcess`, `ProcessProofs` |
| `SumTheorems` | sums over finite sets, and smallest counterexamples, for the other proofs |

Definitions keep the names of the functions and variables of the source. A
definition whose comment begins "Mutant" is a plausible bug in the
definition after it; `PROJECT.json` says which property notices it.

## 2. Semaphores: `Sem`

*State.* `sema` is the array of `semid_ds` (the `IPC_ALLOC` bit, `seq`, key,
base in the pool and number of semaphores), `semval` and `semcnt` the
semaphores of the pool, `semmap` the free ones. An undo structure is modelled
by the process that owns it (`sem_undo`), its entries (`aoe`, 0 where there is
no entry), whether it is on the chain (`semunp`), and the number of structures
on the free list (`semfup`). A semid is the pair `<<seq, slot>>`, the same
number as `seq * semmni + slot`.

*Actions.* `semget`, `semctlRmid`, `semctlSetval` and `semexit` are one step
each: their arguments come with the call, or the call does nothing after it has
copied out a result. `semop()`, SETALL and IPC_SET call `copyin()` after they
have found their set and go on with the pointer to it. They begin with `Enter`
(`semctlSetall`, `semctlSet`, `semop`), in which `copyin` finds the page in
memory or puts the process to sleep, and go on in `semctlSetallCopied`,
`semctlSetCopied` and `semopCopied`, with the values in hand or with `EFAULT`.
In between, others may remove the set and give the slot and the semaphores to
new ones. The code does not look again, nor does the model: `semopCopied` checks
the numbers of the list against the set that the slot has by then and starts the
pass; SETALL writes the values, and drops the undo entries under the *old* semid;
IPC_SET, which sets `mode` and `IPC_ALLOC` together, brings a removed set back.
After a sleep `semop()` does test the semid, and then copies its list in again:
`semopAgain`, `semopRecopied`.

The pass is a loop over the operations of the list, modelled one operation at a
time: `semopDo` (an operation succeeds), `semopFail` (it has to wait, or an
error), `semundo` (one operation is backed out), then `semopError` or
`semopSleep`; after the sleep `semopAgain` or `semopIntr`; `semopDone` at the
end. `semaoe()` and `semunrm()` are operators that these actions use. `psignal`
posts a signal.

Two history variables say who is where it should not be: a process is `stale`
when its set was removed since its call began, and `strayed` once it has gone on
with the set all the same.

*Left out.* Access checks: a refused call changes nothing. The list is not
rewritten by the process during its sleep. The buffer `semtmp` that the calls
share is not modelled: a list, and the values of SETALL, are taken to lie within
a page, so that a copy sleeps before it begins and then runs to its end. What a
call can do that goes on with a removed set is followed as far as the state
reaches: not to semaphores beyond the end of the pool (`InPool`), not to a
removal that frees a semaphore a second time (`semctlRmid`), and not to an exit
with two adjustments on one semaphore (`semexit`).

*Runs.*

| Run | Instance | Shows |
|---|---|---|
| `sem_safety` | 2 processes, a slot with a set of 2 semaphores, 4 lists of 1 or 2 operations with P, V, wait for zero, `SEM_UNDO` and `IPC_NOWAIT`; 2 removals, so that the semid wraps; a page fault; undo structures with room for a single entry | nobody stays asleep whose list can be done (`WaitsOnlyWhenBlocked`), back-out is exact (`BackedOutExactly`), values and adjustments balance (`UndoBalance`), the chain is exact (`UndoChainExact`), entries die with their set (`UndoEntriesLive`), a removed semid stays invalid until it wraps (`RemovedIdInvalid`) |
| `sem_reuse` | 2 processes, 2 slots, 2 semaphores, 1 undo structure, a removal, a page fault | types, `SleeperCounted`, `PoolDivided` while semaphores and slots are reused; whoever is in a call on a removed set gets out of it or goes on all the same (`RemovalReleases`) |
| `sem_stale` | as `sem_safety` | a violation of `StaleIdDetected`, see section 8 |

Both runs take `copyin()` with and without a fault, and reach the states in which
a process goes on with a removed set. What the code guarantees then is less, and
the properties say so: `UndoBalance` and `PoolDivided` hold until somebody
strays, `UndoEntriesLive` and `SleeperHasSet` speak of those who have not. The
back-out, the chain, the counts of sleepers, the types and `RemovedIdInvalid` hold
regardless. `WaitsOnlyWhenBlocked` is about sleepers whose set is there and whose
lists name each semaphore once (`NamesOnce`). For others it is false of the
code: with a value of 2, a process that takes 1 and then waits for zero sleeps on
`semzcnt`; when another one takes 1, its list can be done, and nobody wakes it,
since the value is not 0.

One slot or two suffice because sets only share the pool and the undo
structures; two processes are a sleeper and one that removes its set and reuses
the slot and the semaphores. The safety properties are proved for any number.

*Fairness* (`FairSpec`): weak fairness of the steps of a pass, which nothing else
can interrupt, and strong fairness for a process that was awakened or whose page
came in, which the dispatcher runs at some time although others use the
processor in between.

*Proofs* (`SemProofs`). All nine safety properties of `sem_safety` and `sem_reuse`
are proved for every value of the constants that satisfies `SemAssumption`, and
under no other hypothesis; sequence numbers wrap in the theorems as they do in
the code.

The inductive invariant has these parts, each proved from the ones before it:

- `CallInv`: types, sets lie inside the pool (`SetsInPool`), the process with the
  processor is the only one in the middle of a pass (`CpuOK`), the set of a call
  exists unless the call is stale, and its numbers are those of the set
  (`CallOK`), whoever sleeps or is about to sleep has a channel of its own set
  unless it is stale, and a stale one that sleeps has strayed (`WaitOK`). The
  counts themselves are *not* the numbers of sleepers, which is why
  `SleeperCounted` only says "not 0" and why the proof has to follow each
  decrement: a process that is awakened (which clears the count) and then
  signalled decrements the count of someone else. This gives `TypeCorrect`,
  `SleepersCounted` and `SleepersHaveSets`. `RemovedIdsInvalid`
  (`RemovedIdInvalid`) adds how many removals a sequence number has behind it.
- `UndoInv`: the undo chain is exact, and entries are within `SEMUME` and
  `SEMAEM`, which the back-out needs (`UndoChainAlways`).
- `LiveInv`: entries and free semaphores against the sets, of whoever has not
  strayed (`UndoLiveAlways`, `PoolDividedAlways`).
- `PassInv`: the process with the processor came to the present values through
  the states of `snap`, one operation each and each within the limits. So each
  call of `semaoe()` in the back-out finds room and succeeds, although
  `semundo()` ignores its errors (`BackedOutAlways`).
- `BlockInv`: every sleeper has an operation that cannot be done with the present
  values, nor with those of any state that the present pass went through; that is
  why a pass that is backed out need not wake anybody (`NoWakeupMissed`).
- `BalanceInv`: `UndoBalance` for each entry, with the pending adjustments as a
  sum over the processes (`UndoBalances`).

## 3. Messages: `Msg`

*State.* `msgque` holds for each slot the `IPC_ALLOC`, `MSG_RWAIT` and
`MSG_WWAIT` bits, `seq`, `msg_cbytes`, `msg_qnum`, `msg_qbytes` and the list of
messages. A message has a type, a size, the place of its text, and a number
that only the properties use. `msglock` is the lock of each queue, `msgfp` the
number of free headers, `msgmap` the free segments, taken first fit as
`ResourcePool` specifies; the map is assumed to have entries enough not to lose
any (the lost ones are modelled in `Rmap`). `uap` is the call a process is in
and its arguments, `smp` the message it copies.

*Actions.* Every call begins with `msgctl`, `msgrcv` or `msgsnd` and goes
through `msgconv()`: `LockSleep` when the lock is taken, `LockAbort` when a
signal ends that sleep by `longjmp()`, `ConvFail` when the queue is gone. A copy
ends in a step of its own, and others run meanwhile: `CtlCopy`/`CtlDone`,
`FindCopy`/`RcvDone`/`RcvFault`, `SndBegin`/`SndType`,
`GetresCopy`/`SndDone`/`SndFault`. The two copies of a receive are one, since
nothing the model keeps changes between them. `FindSleep` and `GetresFull`,
`GetresNoHeader`, `GetresNoText` are the four sleeps, `RcvAgain`, `SndAgain`,
`RcvIntr` and `SndIntr` what happens after them. `msgget` makes private queues;
named keys are covered by `Sem`, which uses the same `ipcget()`. Calls that are
refused for permissions or bad arguments are left out.

*Runs.*

| Run | Instance | Shows |
|---|---|---|
| `msg` | 2 processes, 1 slot that is removed and made again, 3 messages of 2 types, an empty one and one that needs both segments, the three kinds of `msgtyp`, one `EFAULT`, signals, an `IPC_SET` that lowers the limit | types, `LockProtects`, `PoolExact`, `CountsExact`, `WriterBlocked`, `ExactlyOnce`, `InOrder`, `ReaderBlocked` |

With 2 headers, 2 segments and a queue whose limit of 6 bytes is lowered to 2,
each of the three resources runs out separately. One slot is enough for the lock
and the queue; the theorems are for any number, of processes too. Everyone may
end up waiting for a message that nobody sends, so deadlock is not checked.
`LockProtects` says that a lock is held by exactly the process whose copy is under
way: no return leaves it behind. That it is given back in the end then only
needs the copy to end.

*Proofs* (`MsgProofs`). All the safety properties are proved for any number of
processes, queues, headers, segments and messages, `WriterBlocked` under a
hypothesis.

- `LockTheorem` (`LockProtects`): with the types, the property is inductive.
  Every step does one of three things to the locks, each with a lemma of its
  own: it takes a free lock of a queue that exists (`Acquire`), it leaves the
  lock of its queue free (`Release`), or it touches neither locks nor queues
  that exist (`Aside`).
- `ReaderTheorem` (`ReaderBlocked`): the invariant `SleepInv` says that each
  process sleeps on a channel of its own queue or of the pool; then, while a
  reader sleeps, its queue can only change in the ways `ReaderKept` allows, and
  all other changes wake it.
- `WriterTheorem` (`WriterBlocked`): the same for room, headers and segments
  (`WriterKept`, `PoolKept`), under the hypothesis `OneLimit` that `IPC_SET`
  does not raise `msg_qbytes`. The code wakes no writer when it does; nothing
  in the code or its comments promises that, so it is noted as a hazard and not
  as a finding.
- The others follow from `MsgInv`, for which `StepKinds` reduces the actions
  to six that move messages (`Moves`) and the rest, which do not (`Quiet`).
  `NumInv`: the messages that were ever sent are divided among the queues, those
  received and those that went with their queue, and the lists are in the order
  of sending; this gives `DeliveredOnce` (`ExactlyOnce`). `OrderInv` adds that what was
  received is older than what is queued of the same type, and that a message
  being copied is the first of its type, which the lock keeps true while the copy
  sleeps (`ReceivedInOrder`, `InOrder`). `CountInv` is `CountsExact` with the bytes as
  a sum over positions (`CountsAlways`). `PoolInv`: headers are free, on
  a queue or with a process that copies text in (`HeadInv`), and segments
  likewise (`TextInv`), stated by process, since two messages that are being sent
  have no number yet and may look alike (`NoLeak`, `PoolExact`).
- `TypeCorrect` (`TypeOK`) comes last, because the ranges depend on the rest: that
  `msg_qnum`, `msg_cbytes` and `msgfp` are not negative follows from what they count.
  `ArgInv` and `BoundInv` add the ranges of arguments and of the counters.

## 4. Resource maps: `ResourcePool` and `Rmap`

`ResourcePool` is the promise: a set of free units; `Alloc(n)` takes the first
run of `n` units, `Free(b)` gives a run back, or loses it if it touches no free
unit and the map has no entry left. `ResourcePoolProofs` proves
`PoolDisjoint`: no unit is given out twice or is free and given out.

`Rmap` is the array with its shifting loops, as `rmalloc()` and `rmfree()`
leave it at `splx()`, with the callers that sleep when they get nothing. The run
`rmap` (8 units, an array with room for two runs, requests of 1 to 3 units)
shows that it implements `ResourcePool` (`PoolSpec`, with the units of the
entries as the free set), that the array stays sorted, joined and followed by
zeroes (`MapCanonical`, which includes the assertions of the code), and that
nobody sleeps for units that are there (`WaitersBlocked`). Eight units
allow three free runs with allocated ones between them, one more than fits.

*Proofs* (`RmapProofs`). All three are theorems for every number of units and
entries: `CanonicalAlways`, `WaitersAlways` and `PoolImplemented`, the refinement
itself; `NoUnitTwice` then holds of the array as it does of the pool.
`MapCanonical` compares neighbours only and is not inductive: that the run
`rmfree()` inserts does not overlap the entries around it follows from the
caller's having it. `MapInv` orders all pairs of entries and keeps what is held
apart from what is free. The shifts of the array are described by `Without` and
`With`. That first fit over the array is first fit over the set of units rests on
one fact, proved from the gaps between entries: a run of free units lies in one
entry.

## 5. Buffer cache: `BufferCache`

*State.* Each buffer has its flags, its block and its data, which is the number
of the write it comes from; the free list is a sequence (`avail`); `queue` holds
the requests at the device. A process has the operation it performs, the buffer
it holds (`bp`), and the one `getblk()` works on (`nbp`).

*Actions.* The functions of `os/bio.c` are cut where they sleep and where
interrupts can come in between: `getblk()` into `GetblkFind`, `BusySleep`,
`GetblkHit`, `GetblkMiss`/`GetblkNew`; `getfreeblk()` into `GetfreeWrite`, `GetfreeReuse`,
`GetfreeSleep`, `GetfreeAlloc`; `bwrite()` into `StartWrite` and what it does
after the driver has returned (`BwriteAsync`, `BwriteSync`), since the interrupt
may come first; `breada()` into `GotAhead`, `AheadRead` and others. `biodone`
with the release it does is a step of the device. `close` is what the last close
of a block device does to the cache: `bflush()` and then `binval()`, with no wait
for the writes in between, since there is none in `device_close()` either
(`fs/specfs/specsubr.c`); the requests are still at the device when their buffers go
stale.

`getblk()` searches the hash queue at spl0 and tests `B_STALE` there (line 412); it
raises the priority at 414 and then tests `B_BUSY` only. `GetblkFind` is the
search, `hit` the buffer found, and interrupts come between it and `BusySleep` or
`GetblkHit`. If the buffer was at the device for an asynchronous request, and the
request fails just then, `brelse()` marks it stale and gives it back, and
`getblk()` hands it out all the same. No later search finds a stale buffer.
Data that the caller leaves in it with `bdwrite()` is in a delayed write that nobody
sees: the next `bread()` of the block gets another buffer and old data from the
disk, and what is written to that one may be overwritten when the stale buffer is
flushed at last. `astray` holds the blocks to which this has happened; what
`Coherent`, `NothingLost` and `DiskMonotonic` say, they say of the other blocks. Both
runs go through the window; `buf_live`, which has the I/O error, through the
failure in it. `blkflush()` searches at spl0 too, but a buffer that goes stale
under it has no write left to wait for.

The device is external: it completes requests in any order, those for one block
in the order in which they were made, with or without an error. All buffers have
the same size, and there is one device. Lines 778 on of `os/bio.c` (page I/O
headers, `buf_breakup()`, `dksize()`) are not modelled.

*Runs.*

| Run | Instance | Shows |
|---|---|---|
| `buf_safety` | 2 processes, 3 buffers, 2 blocks, a write of each | `OneBuffer`, `OwnedOnce`, `NoLostWakeup`, `AsyncCount` |
| `buf_live` | 2 processes, 2 buffers, two writes of 1 block, an I/O error, no read-ahead | `Coherent`, `NothingLost`, `DiskMonotonic`, and `SleepEnds` under `FairSpec` |

With two or three buffers for two processes they run out (a process that reads
ahead uses two), and each can be wanted by the other process, be at the device
or be delayed. The third buffer is needed for `breada()` to find, after a sleep,
that another process has read the block ahead of it; two writes of a block for
an old one to overtake a new one. `AsyncFree` stands for the 4 of `bawrite()`.

*Fairness*: strong fairness of the steps of each process, those that release a
buffer included (the users of the cache do), and of the completion of each
request: a masked interrupt stays pending.

`bdwait()` ("Wait for asynchronous writes to finish") waits once for 200 ticks
and returns, whether the writes have ended or not, because the loop that waited
for `basyncnt` is commented out; and `bflush()` skips delayed writes in buffers
that are busy. The model does the same, and `buf_live` shows that nothing is
lost by it and that the last close is sound nevertheless. `SleepEnds` is checked
with one block, hence without `breada()`; that a process may hold one buffer and wait
for another is part of `buf_safety`, where `NoLostWakeup` covers its sleep.

*Proofs* (`BufferCacheProofs`). All the safety properties of both runs are proved
for any number of processes, buffers, blocks and writes.

- `PlaceInv`: where each buffer is (`BufOK`: on the free list, on `bhdrlist`, at the
  device or with a process, and which flags it has there), where each process is
  and what it holds (`ProcOK`), that the last close has the cache to itself
  (`CloseOK`), and one buffer in use per block (`HashOK`). This is
  `OneBufferAlways` and `OwnedOnceAlways`.
- `WakeInv`: whoever sleeps is on a buffer that is busy and marked wanted, or on the
  empty free list, marked wanted (`NoWakeupLost`).
- `DataInv` says of each block that is not in `astray` (`BlockInv`): what its valid,
  delayed and travelling buffers hold (`ContentOK`), how the requests for it are
  ordered (`OrderOK`: an earlier request is of a stale buffer and has older data,
  which is what makes the close sound although `bdwait()` does not wait) and where
  its newest data is (`DiskOK`). A buffer that somebody holds is not stale, nor is a
  delayed write: only the window of `getblk()` makes them so, and puts the block
  into `astray`. A step concerns one block, and the rest of the proof is that
  others keep theirs. It gives `CoherentAlways`, `NothingLostAlways` and the action
  property `DiskMonotonicAlways`.
- `AsyncCountAlways` counts: each step adds to or takes from the writes at the
  device, `basyncnt` and the processes that have yet to count, and keeps the
  balance, also when the interrupt comes before the count.

## 6. Record locks: `FileLocks` and `RecordLock`

`FileLocks` is the promise: a set of triples (owner, byte, type). `Set` gives an
owner one type of lock on a set of bytes if no lock of another owner excludes
it; `Release` takes locks of one owner away. No two owners hold locks that
exclude each other: the theorem `LocksExclude`, in `RecordLockProofs`.

*State of `RecordLock`.* `v_filocks` is the ordered list of locks of one file
(owner, type, start, end, `wakeflg`), `reccnt` the number of records in use, for
locks and for sleepers, `sleeplcks` the requests listed as blocked, by owner and
newest first (the one that `deadflck()` finds), `lckdat` and `wchan` the request
a process sleeps with and the lock it sleeps on. A lock is addressed by its
owner and its start, which never change while it is on the list.

*Actions.* `reclock` is the call of a local process up to its first sleep or its
return, `reclockAgain` the loop once awakened, `reclockIntr` the end by a
signal, `unlock` and `cleanlocks` give locks back, `rreclock` and `runlock` are
the requests the lock daemon makes for a process of another machine, which is
never put to sleep but asks again; a request that is given up
(`local_cancel()` of `src/cmd/fs.d/nfs/lockd/prot_proc.c`) is simply not asked
again. `flckadj()` is a scan of the list, turn by turn (`AdjustOne`, `Scan`), with the cases of
`regflck()`, the growing request, the insertion point, the record that may not
be there (`ENOLCK` half way) and the wakeups on every path. Requests of
`chklock()` wait but set nothing (`SetFlck`). Left out: access checks, the
XENIX variants of conflict, F_GETLK, which only reads, and RFS.

*Runs.*

| Run | Instance | Shows |
|---|---|---|
| `reclock` | a local and a remote owner, a file of 3 bytes and all its regions, 3 records | the list implements `FileLocks` (`LocksSpec`), is sorted, disjoint and joined, and no record leaks (`ListCanonical`); in every state, every request that could be made does to the bytes exactly what it should, whenever the records run out (`AdjustExact`) |
| `reclock_wait` | 3 local processes, 2 bytes, all regions, 5 records | whoever sleeps does so on a lock that excludes its request and will wake it (`SleeperBlocked`); no circles (`NoWaitCycle`) |
| `reclock_stale` | 2 local processes and a remote one, 3 bytes | a violation, see section 8 |

Three bytes allow a request before, at the start, within, at the end of and after
another lock, and a split that leaves a piece at both ends; three processes a
circle that none of them closes with a direct neighbour. Deadlock is checked.

*Proofs* (`RecordLockProofs`), for any owners, file, requests and number of
records. They assume that there are finitely many owners (`FiniteAssumption`,
for the count of the entries) and that `None` is no request (`NotARequest`).

`DeadlockAvoided`: `NoWaitCycle`, with only the domain of `sleeplcks` (`Shape`) added.
Only going to sleep adds an edge to "waits for". If that edge closed a circle S,
let R be the owners that `deadflck()` met: it did not meet the requester, so R
without the requester is a circle within S that was there before, a
contradiction. The proof needs nothing about remote owners, because the circles
it speaks of consist of local processes.

The four other theorems rest on what one call of `flckadj()` does. Its loop has an
invariant (`Loop`), proved for every case of the switch and carried through the
scan by smallest counterexample on the number of turns: the list is canonical
after every turn, and `reccnt` follows its length (`Canonical`, `r`); the locks before
`flp` are clear of the request (`Behind`), and no place after `insrtp` that has been
passed is the place for it (`Point`); the request has grown only over bytes that
its owner had already with that type, and outside it the owner's bytes are as
before (`Rest`); what is missing belongs to the requester (`Owned`); and a lock that
somebody sleeps on is either there unchanged or its address is among those
awakened (`Kept`). Each turn comes nearer to the end of the list (`Nearer`), so that
the scan is over within as many turns as there are locks. From this follows
`Adjusts`, the whole effect of a call:

- `AdjustsExactly` (`AdjustExact`): a call that succeeds changes exactly the bytes
  asked for, one that fails takes bytes of the requester only, on every list that may
  come about and not only on those of the run's file of 3 bytes.
- `ListStaysCanonical` (`ListCanonical`) and `SleepersAreBlocked` (`SleeperBlocked`) are
  parts of the invariant `LInv`. The record count needs that a process in its call
  has one entry on `sleeplcks` and others none (`Called`), the sleepers that an
  awakened or interrupted process has no channel. TLC checked `LInv` on the two
  instances before it was proved.
- `ImplementsFileLocks` (`LocksSpec`): a granted request is a `Set`, because `blocked()`
  found no lock in its way; F_UNLCK and `close()` are a `Release`, and so is a request
  that fails half way, of the bytes it has lost. Being put to sleep only marks a lock.

## 7. Processes: `Process`

*State.* `p_stat`, `p_wchan`, `p_wcode`, `p_sig`, the two family relations with
their chains (`p_parent`/`p_child` and `p_nextofkin`/`p_orphan`; a chain is the
set of processes on it), `u_sigcld`, what a process does with SIGCLD, `call`,
the call it is in the middle of, and `instop`, whether it is inside
`isjobstop()`. `SRUN` stands for `SONPROC` too.

*Actions.* `wakeprocs`, `unsleep`, `setrun`, `sigtoproc` and `sigcld` are
operators on the process table, which the actions compose as the code does.
`fork` ends with the sleep in `procdup()`; `forkDone` and `forkFail` follow.
`waitid` looks at the children, reaps one, returns, or sleeps; `waitAgain` is
what it does after the sleep. `exit` is the beginning of `exit()`, from which
on signals are ignored; `release` hands orphans and children over, `zombie`
tells the parent and leaves a zombie, or nothing if the parent ignores SIGCLD.
`kill` may sleep for memory before `killPost` posts the signal; `signal` sets
the disposition of SIGCLD with its effects on zombies; `psig` and `resume` are
the ways out of the kernel and out of a stop. A process that is stopped in
`sleep()` stays on its queue.

init runs `src/cmd/init/init.c`: it has `childeath` called for SIGCLD, which
waits for one child and then catches SIGCLD again; it turns SIGCLD off while it
works on its tables (`cleanaux()`) and while it forks (`efork()`). The other
processes call whatever they like.

Left out: process groups and sessions, `vfork`, `exec`, ptrace and `/proc`,
held signals and other signals than SIGKILL, SIGSTOP, SIGCONT and SIGCLD.
`sigcld()` is assumed to find memory for its `siginfo` without sleeping; what
the code exposes itself to otherwise is listed as a hazard
(`os/sig.c:1010`).

*Runs.*

| Run | Instance | Shows |
|---|---|---|
| `proc_safety` | init and 3 slots, 3 forks, 2 signals, waits for any child or for one, SIGCLD ignored | `FamilyOK`, `WaiterBlocked`, `ReportTrue` |
| `proc_live` | init and 2 slots, 2 forks, 3 signals, SIGCLD caught | `KillWorks` and `InitReaps` under `FairSpec` |

With init and three more a grandchild survives its parent, has a next of kin
that is not its parent, and is handed over while somebody waits; two signals are
a stop and what comes after it (`SIGCONT` or `SIGKILL`), three a stop, a
continuation and a SIGKILL. Processes may all be stopped for ever, so deadlock
is not checked.

*Fairness.* Weak fairness of what a process has under way in the kernel (the
dispatcher runs each runnable process in the end; memory and page faults end).
Programs owe nothing, except init, which always turns SIGCLD on again: strong
fairness of that call, since steps in between may disable it for a time.

*Proofs* (`ProcessProofs`). `FamilyKept`: `FamilyOK` for every process table,
and `HeirsEnd`: the next of kin of a process, its next of kin and so on end with
init. The inductive invariant `IInv` consists of types (`Typed`), the chains as
inverse of the pointers (`Chains`), that everyone but init has a parent and a
next of kin who have not handed their families over (`Kin`), that free slots are
nobody's relatives and have none (`FreeAlone`), that no set of processes has all
its next of kin within itself (`NoCycle`, without which a process that exits
could hand its orphans to itself), that a process in fork has a child in `SIDL`
of its own and a kill has a target (`InCall`), and that init lives
(`InitLives`). What signals and wakeups may do to the table is stated once
(`Calm`) and proved of each operator, so that the actions need only what
`Calm` says.

`ReportsTrue` (`ReportTrue`) and `NoWakeupLost` (`WaiterBlocked`) rest on `TInv`: the
table tells the truth (`Report`), and each process on a sleep queue is there for
its call of `waitid()`, on its own address or on the child it waits for, with
nothing to be reported (`WaitInv`). `Rouses` says of the operators on the
table that they put nobody to sleep and add nothing to report; only the steps
that change what a parent would find need to be looked at, and each of those
empties the queues of that parent.

## 8. What the checks found

Two runs are there for TLC to find a violation; `PROJECT.json` quotes the comments
that the code disagrees with.

`sem_stale`: a process calls `semop()`, which finds the set and sleeps in the page
fault of `copyin()` at `os/sem.c:633`. Another one removes the set. The first pass of
`semop()` does not test the semid ("Verify that the semaphores haven't been
removed" is done in later passes only, and there in front of the next `copyin()`,
at 659), so the process goes on: it changes semaphores that are free, or those of
another set, and it may sleep on one of them, where no removal of a set of its own
will wake it. With `SEM_UNDO` it leaves an entry under the semid that is gone.
SETALL and IPC_SET have the same window.

`reclock_stale`: a blocked request of a remote process is
listed on `sleeplcks`, and removed when a request that covers it is granted or
its region unlocked. A request that is cancelled, or answered `EDEADLK` when
asked again, leaves its entry. Say the remote process r gives up a request that
a lock of p blocks, and asks for another byte, which a lock of q blocks. p may now
wait for a lock of r, since `deadflck()` sees the newest entry of r only. Once r
gets its byte (or unlocks it) that entry goes, and the old one stays: on `sleeplcks`, p waits for
r and r for p. When q asks for something that either of them has locked, it
follows this circle in `deadflck()` for ever, in the kernel.
The theorem `DeadlockAvoided` is not touched by this: it is about circles of
processes that really wait.

## 9. Checked and not proved

Liveness (`RemovalReleases`, `SleepEnds`, `KillWorks`, `InitReaps`) is out of the
prover's reach and checked by TLC only. `StaleIdDetected` and `DeadflckEnds` are
violated (section 8). Every other property of the runs is a safety property,
and all of them are proved.

The provers cannot instantiate the induction theorems of the library, which take
an operator as parameter. Where a proof needs induction over data, it takes a
smallest counterexample from a set of counterexamples instead: a set is a value,
and that a set of naturals has a least member, and a family of finite sets
a minimal one, is proved in `SumTheorems` from the library's theorem that `<` is
well founded. `SumTheorems` so shows that a sum over a finite set
does not depend on the order, and what changing, adding or removing a term does.

## 10. Plan

Done: `Sem`, `BufferCache`, `Msg`, `ResourcePool`, `Rmap`, `FileLocks`,
`RecordLock`, `Process`, and the proofs above. What would be worth having next:

1. The effect of IPC_SET on writers asleep in `msgsnd()`, and copies that sleep half
   way into the buffer that calls of `semop()` share, which no property covers.
   What happens beyond the restrictions of `Sem` once a call has gone on with a
   removed set.
2. The attach counts of shared memory, with as much of the address space as they
   need.
3. F_GETLK and the conflicts of the XENIX variants in `RecordLock`.

## 11. Not modelled

- Shared memory (`os/shm.c`): its attach counts are kept by the address space
  code, and there is nothing to interleave without that.
- The dispatcher and the scheduling classes: the liveness runs assume that a
  runnable process runs in the end; priorities are not modelled.
- STREAMS: queues, flow control and service procedures are larger than all of
  the above together and would be a project of their own.
- Virtual memory and drivers are tied to the hardware; the modules know them as
  page faults, points where others run, and as the device of `BufferCache`.
- `os/kma.c`, whose difficulty is address arithmetic.
- File systems: callers of the buffer cache and of record locking.
- Commands, libraries and compilers, most of the lines of the repository, share
  no kernel state; of them only what init does about its children and the
  requests of the lock daemon are modelled.
