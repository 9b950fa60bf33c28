-------------------------------- MODULE Msg --------------------------------
(***************************************************************************)
(* System V messages: uts/i386/os/msg.c, with ipcget() of os/ipc.c and the *)
(* allocator interface of os/malloc.c.                                     *)
(*                                                                         *)
(* The kernel is not preempted between two sleeps; cpu names the process   *)
(* that is between two sleeps of a call.  copyin() and copyout() may sleep *)
(* in a page fault, which is why a queue has a lock (sys/msg.h): each copy *)
(* ends in a step of its own, and others run before it.  A wait for the    *)
(* lock is interruptible without PCATCH: a signal ends the system call     *)
(* with a longjmp().                                                       *)
(*                                                                         *)
(* A msqid is the pair <<seq, slot>>, as in Sem.  Calls that are refused   *)
(* for their arguments or permissions change nothing and are left out, and *)
(* so are named keys: msgget() creates private queues.                     *)
(***************************************************************************)
EXTENDS Integers, Sequences, FiniteSets, SequencesExt

CONSTANTS
  Proc,      \* processes
  MSGMNI,    \* message queues (msginfo.msgmni)
  MSGTQL,    \* message headers (msginfo.msgtql)
  MSGSEG,    \* segments for message text (msginfo.msgseg)
  MSGSSZ,    \* bytes of a segment (msginfo.msgssz)
  MSGMNB,    \* bytes on a new queue (msginfo.msgmnb)
  MSGMAX,    \* bytes of a message (msginfo.msgmax)
  ID_MAX,    \* INT16_MAX: the largest msqid
  MaxRmid,   \* bound: IPC_RMID calls of a behaviour
  MaxSend,   \* bound: messages of a behaviour
  MaxFault,  \* bound: calls that fail with EFAULT
  SndArgs,   \* arguments of msgsnd(): msgsz, the type and IPC_NOWAIT
  RcvArgs,   \* arguments of msgrcv(): msgsz, msgtyp, IPC_NOWAIT and MSG_NOERROR
  QBytes,    \* values of msg_qbytes passed to IPC_SET
  SigProc,   \* processes that signals are sent to
  None

Slot == 0 .. MSGMNI - 1
Seg  == 1 .. MSGSEG
Id   == (0 .. ID_MAX) \X Slot

\* The sleep channels: &msglock[s], &qp->msg_qnum, qp, &msgfp and msgmap.
Chan == ({"lock", "qnum", "qp"} \X Slot) \cup {<<"msgfp", 0>>, <<"msgmap", 0>>}

ASSUME MsgAssumption ==
  /\ IsFiniteSet(Proc)
  /\ {MSGMNI, MSGSSZ} \subseteq Nat \ {0}
  /\ {MSGTQL, MSGSEG, MSGMNB, MSGMAX, ID_MAX} \subseteq Nat
  /\ {MaxRmid, MaxSend, MaxFault} \subseteq Nat
  /\ SndArgs \subseteq [size : 0 .. MSGMAX, typ : Nat \ {0}, nowait : BOOLEAN]
  /\ RcvArgs \subseteq [size : Nat, typ : Int, nowait : BOOLEAN, noerror : BOOLEAN]
  /\ QBytes \subseteq Nat /\ SigProc \subseteq Proc
  /\ None \notin Proc \cup Chan

VARIABLES
  msgque,    \* msqid_ds of each slot: IPC_ALLOC, MSG_RWAIT and MSG_WWAIT of
             \* the mode, seq, msg_cbytes, msg_qnum, msg_qbytes, the messages
  msglock,   \* the lock of each slot
  msgfp,     \* number of free headers
  msgmap,    \* free segments
  mapwant,   \* mapwant(msgmap) # 0
  cpu,       \* the process that is between two sleeps of a call, or None
  pc,        \* where each process is
  uap,       \* its system call and arguments
  smp,       \* the message it copies
  wchan,     \* the channel it sleeps on, None once awakened
  sig,       \* processes with a signal pending
  \* history variables
  nrm,       \* IPC_RMID calls so far
  nfault,    \* calls that failed with EFAULT so far
  nsent,     \* messages sent so far
  rcvd,      \* messages received, in order, with their queue
  gone       \* numbers of the messages destroyed by IPC_RMID

pool == <<msgfp, msgmap, mapwant>>
proc == <<cpu, pc, uap, smp>>
hist == <<nrm, nfault, nsent, rcvd, gone>>
vars == <<msgque, msglock, pool, proc, wchan, sig, hist>>

NoCall == [op |-> "none", id |-> <<0, 0>>, size |-> 0, typ |-> 0,
           nowait |-> FALSE, noerror |-> FALSE]

Init ==
  /\ msgque = [s \in Slot |-> [alloc |-> FALSE, rwait |-> FALSE, wwait |-> FALSE, seq |-> 0,
                               cbytes |-> 0, qnum |-> 0, qbytes |-> 0, msgs |-> <<>>]]
  /\ msglock = [s \in Slot |-> FALSE]
  /\ msgfp = MSGTQL /\ msgmap = Seg /\ mapwant = FALSE
  /\ cpu = None
  /\ pc = [p \in Proc |-> "user"]
  /\ uap = [p \in Proc |-> NoCall]
  /\ smp = [p \in Proc |-> None]
  /\ wchan = [p \in Proc |-> None]
  /\ sig = {}
  /\ nrm = 0 /\ nfault = 0 /\ nsent = 0 /\ rcvd = <<>> /\ gone = {}

-----------------------------------------------------------------------------
(* Helpers *)

SlotOf(p) == uap[p].id[2]
Queue(p) == msgque[SlotOf(p)]

\* The test of msgconv().
Valid(id) == msgque[id[2]].alloc /\ msgque[id[2]].seq = id[1]

btoq(n) == (n + MSGSSZ - 1) \div MSGSSZ

\* Segments of the text of a message.
Text(m) == IF m.size = 0 THEN {} ELSE m.spot .. m.spot + btoq(m.size) - 1

\* rmalloc() of n segments returns a: the first place that fits.
Fits(a, n) == a + n - 1 <= MSGSEG /\ a .. a + n - 1 \subseteq msgmap
rmalloc(a, n) == Fits(a, n) /\ \A b \in Seg : b < a => ~Fits(b, n)

\* p can take its next step at location l.
At(p, l) == pc[p] = l /\ cpu \in {None, p} /\ wchan[p] = None

Goto(p, l) == pc' = [pc EXCEPT ![p] = l] /\ cpu' = p

\* p may sleep in a page fault, and goes on at l.
Leave(p, l) == pc' = [pc EXCEPT ![p] = l] /\ cpu' = None

\* The end of a system call, where a pending signal is taken.
Return(p) ==
  /\ Leave(p, "user")
  /\ uap' = [uap EXCEPT ![p] = NoCall]
  /\ smp' = [smp EXCEPT ![p] = None]
  /\ sig' = sig \ {p}

Awake(chans) == [p \in Proc |-> IF wchan[p] \in chans THEN None ELSE wchan[p]]

Lockp(p) == <<"lock", SlotOf(p)>>
If(test, chan) == IF test THEN {chan} ELSE {}

\* *lockp = 0, and the wakeups that go with it
Unlock(p, chans) ==
  /\ msglock' = [msglock EXCEPT ![SlotOf(p)] = FALSE]
  /\ wchan' = Awake(chans \cup {Lockp(p)})

-----------------------------------------------------------------------------
(* The system calls begin.                                                 *)

Call(p, c) ==
  /\ cpu = None /\ pc[p] = "user"
  /\ uap' = [uap EXCEPT ![p] = c]
  /\ Goto(p, "conv")
  /\ UNCHANGED <<msgque, msglock, pool, smp, wchan, sig, hist>>

msgctl(p, op, id) ==
  Call(p, [op |-> op, id |-> id, size |-> 0, typ |-> 0, nowait |-> FALSE, noerror |-> FALSE])

msgrcv(p, id, a) ==
  Call(p, [op |-> "msgrcv", id |-> id, size |-> a.size, typ |-> a.typ,
           nowait |-> a.nowait, noerror |-> a.noerror])

msgsnd(p, id, a) ==
  Call(p, [op |-> "msgsnd", id |-> id, size |-> a.size, typ |-> a.typ,
           nowait |-> a.nowait, noerror |-> FALSE])

\* msgget() takes the first free slot.  It leaves msg_cbytes alone.
msgget(p) ==
  /\ cpu = None /\ pc[p] = "user"
  /\ \E s \in Slot :
       /\ ~msgque[s].alloc
       /\ \A t \in Slot : t < s => msgque[t].alloc
       /\ msgque' = [msgque EXCEPT ![s] =
            [alloc |-> TRUE, rwait |-> FALSE, wwait |-> FALSE, seq |-> @.seq,
             cbytes |-> @.cbytes, qnum |-> 0, qbytes |-> MSGMNB, msgs |-> <<>>]]
  /\ UNCHANGED <<msglock, pool, proc, wchan, sig, hist>>

-----------------------------------------------------------------------------
(* msgconv(): wait for the lock, then look whether the queue exists.       *)

LockLoc == {"conv", "find", "getres", "intr", "wintr"}

\* A process that comes from a sleep (cpu is None) looks for signals first.
Interrupted(p) == p \in sig /\ (cpu = None \/ msglock[SlotOf(p)])

LockSleep(p) ==
  /\ \E l \in LockLoc : At(p, l)
  /\ msglock[SlotOf(p)] /\ p \notin sig
  /\ wchan' = [wchan EXCEPT ![p] = Lockp(p)]
  /\ cpu' = None
  /\ UNCHANGED <<msgque, msglock, pool, pc, uap, smp, sig, hist>>

LockAbort(p) ==
  /\ \E l \in LockLoc : At(p, l)
  /\ Interrupted(p)
  /\ Return(p)
  /\ UNCHANGED <<msgque, msglock, pool, wchan, hist>>

\* p gets the lock.
Locks(p, l) == At(p, l) /\ ~msglock[SlotOf(p)] /\ ~Interrupted(p)

\* msgconv() succeeds at l.
msgconv(p, l) == Locks(p, l) /\ Valid(uap[p].id)

\* It does not: the calls return EINVAL or EIDRM.
ConvFail(p) ==
  /\ \E l \in LockLoc : Locks(p, l)
  /\ ~Valid(uap[p].id)
  /\ Unlock(p, {})
  /\ Return(p)
  /\ UNCHANGED <<msgque, pool, hist>>

-----------------------------------------------------------------------------
(* msgctl() *)

NextSeq(id) ==
  IF id[1] * MSGMNI + id[2] + MSGMNI > ID_MAX THEN 0 ELSE id[1] + 1

\* Channels that freeing n headers and the segments segs awakens.
FreeWakes(n, segs) ==
  If(n > 0 /\ msgfp = 0, <<"msgfp", 0>>) \cup If(mapwant /\ segs # {}, <<"msgmap", 0>>)

\* The pool once n headers and the segments segs are freed.
Free(n, segs) ==
  /\ msgfp' = msgfp + n
  /\ msgmap' = msgmap \cup segs
  /\ mapwant' = (mapwant /\ segs = {})

\* Mutant of Removed: msg_cbytes is left alone.
RemovedBytes(q, id) ==
  [alloc |-> FALSE, rwait |-> FALSE, wwait |-> FALSE, seq |-> NextSeq(id),
   cbytes |-> q.cbytes, qnum |-> 0, qbytes |-> q.qbytes, msgs |-> <<>>]

\* The slot that IPC_RMID leaves.
Removed(q, id) ==
  [alloc |-> FALSE, rwait |-> FALSE, wwait |-> FALSE, seq |-> NextSeq(id),
   cbytes |-> 0, qnum |-> 0, qbytes |-> q.qbytes, msgs |-> <<>>]

\* IPC_RMID: free the messages, wake the readers and the writers.
msgctlRmid(p) ==
  LET q == Queue(p) s == SlotOf(p)
      segs == UNION {Text(q.msgs[j]) : j \in DOMAIN q.msgs} IN
  /\ msgconv(p, "conv") /\ uap[p].op = "rmid"
  /\ Free(Len(q.msgs), segs)
  /\ msgque' = [msgque EXCEPT ![s] = Removed(q, uap[p].id)]
  /\ Unlock(p, FreeWakes(Len(q.msgs), segs)
               \cup If(q.rwait, <<"qnum", s>>) \cup If(q.wwait, <<"qp", s>>))
  /\ Return(p)
  /\ nrm' = nrm + 1
  /\ gone' = gone \cup {q.msgs[j].num : j \in DOMAIN q.msgs}
  /\ UNCHANGED <<nfault, nsent, rcvd>>

\* IPC_SET and IPC_STAT copy with the lock held.
CtlCopy(p) ==
  /\ msgconv(p, "conv") /\ uap[p].op \in {"set", "stat"}
  /\ msglock' = [msglock EXCEPT ![SlotOf(p)] = TRUE]
  /\ Leave(p, "ctlcopy")
  /\ UNCHANGED <<msgque, pool, uap, smp, wchan, sig, hist>>

\* IPC_SET sets msg_qbytes, unless it fails; it wakes nobody but the waiters
\* for the lock.
CtlDone(p) ==
  /\ At(p, "ctlcopy")
  /\ \/ UNCHANGED msgque
     \/ /\ uap[p].op = "set"
        /\ \E n \in QBytes : msgque' = [msgque EXCEPT ![SlotOf(p)].qbytes = n]
  /\ Unlock(p, {})
  /\ Return(p)
  /\ UNCHANGED <<pool, hist>>

-----------------------------------------------------------------------------
(* msgrcv() *)

\* The first msgconv() releases the lock at once.
RcvBegin(p) ==
  /\ msgconv(p, "conv") /\ uap[p].op = "msgrcv"
  /\ Unlock(p, {})
  /\ Goto(p, "find")
  /\ UNCHANGED <<msgque, pool, uap, smp, sig, hist>>

Match(m, typ) ==
  \/ typ = 0
  \/ typ > 0 /\ m.type = typ
  \/ typ < 0 /\ m.type <= -typ

\* Mutant of Prefers: "<" for "<=", so that the last one of a type is taken.
PrefersLast(ms, typ, j, k) ==
  IF typ < 0 /\ ms[j].type # ms[k].type THEN ms[j].type < ms[k].type
  ELSE IF typ < 0 THEN j > k ELSE j < k

\* The search takes message j rather than k, both of which match.
Prefers(ms, typ, j, k) ==
  IF typ < 0 /\ ms[j].type # ms[k].type THEN ms[j].type < ms[k].type ELSE j < k

\* The messages msgrcv() may take: at most one.
Best(ms, typ) ==
  {ms[j] : j \in {j \in DOMAIN ms :
     /\ Match(ms[j], typ)
     /\ \A k \in DOMAIN ms : k # j /\ Match(ms[k], typ) => Prefers(ms, typ, j, k)}}

\* No message on the queue is for p.
NoMatch(p) == \A j \in DOMAIN Queue(p).msgs : ~Match(Queue(p).msgs[j], uap[p].typ)

TooBig(p, m) == uap[p].size < m.size /\ ~uap[p].noerror

\* Mutant of FindCopy: the lock is released before the copy.
FindCopyUnlocked(p) ==
  /\ msgconv(p, "find")
  /\ \E m \in Best(Queue(p).msgs, uap[p].typ) :
       ~TooBig(p, m) /\ smp' = [smp EXCEPT ![p] = m]
  /\ Leave(p, "rcvcopy")
  /\ UNCHANGED <<msgque, msglock, pool, uap, wchan, sig, hist>>

\* A message is found: copy it out.
FindCopy(p) ==
  /\ msgconv(p, "find")
  /\ \E m \in Best(Queue(p).msgs, uap[p].typ) :
       ~TooBig(p, m) /\ smp' = [smp EXCEPT ![p] = m]
  /\ msglock' = [msglock EXCEPT ![SlotOf(p)] = TRUE]
  /\ Leave(p, "rcvcopy")
  /\ UNCHANGED <<msgque, pool, uap, wchan, sig, hist>>

\* Mutant of FindFail: the lock is kept.
FindFailLocked(p) ==
  /\ msgconv(p, "find")
  /\ \/ NoMatch(p) /\ uap[p].nowait
     \/ \E m \in Best(Queue(p).msgs, uap[p].typ) : TooBig(p, m)
  /\ msglock' = [msglock EXCEPT ![SlotOf(p)] = TRUE]
  /\ Return(p)
  /\ UNCHANGED <<msgque, pool, wchan, hist>>

\* E2BIG or ENOMSG.
FindFail(p) ==
  /\ msgconv(p, "find")
  /\ \/ NoMatch(p) /\ uap[p].nowait
     \/ \E m \in Best(Queue(p).msgs, uap[p].typ) : TooBig(p, m)
  /\ Unlock(p, {})
  /\ Return(p)
  /\ UNCHANGED <<msgque, pool, hist>>

\* Release the lock and sleep on chan, to go on at slept; with a signal
\* pending sleep() returns 1 at once, and the process goes on at intr.
UnlockSleep(p, chan, wakes, slept, intr) ==
  /\ msglock' = [msglock EXCEPT ![SlotOf(p)] = FALSE]
  /\ \/ /\ p \notin sig
        /\ Leave(p, slept)
        /\ wchan' = [Awake(wakes \cup {Lockp(p)}) EXCEPT ![p] = chan]
     \/ /\ p \in sig
        /\ Goto(p, intr)
        /\ wchan' = Awake(wakes \cup {Lockp(p)})

FindSleep(p) ==
  /\ msgconv(p, "find")
  /\ NoMatch(p) /\ ~uap[p].nowait
  /\ msgque' = [msgque EXCEPT ![SlotOf(p)].rwait = TRUE]
  /\ UnlockSleep(p, <<"qnum", SlotOf(p)>>, {}, "rsleep", "rintr")
  /\ UNCHANGED <<pool, uap, smp, sig, hist>>

\* sleep() returns: look again, or EINTR.
RcvAgain(p) ==
  /\ At(p, "rsleep")
  /\ Goto(p, IF p \in sig THEN "rintr" ELSE "find")
  /\ UNCHANGED <<msgque, msglock, pool, uap, smp, wchan, sig, hist>>

RcvIntr(p) ==
  /\ At(p, "rintr")
  /\ Return(p)
  /\ UNCHANGED <<msgque, msglock, pool, wchan, hist>>

\* Mutant of FreeQueueWakes: MSG_WWAIT is cleared and nobody awakened.
FreeQueueWakesNone(q, s) == {}

\* The writers that msgfree() awakens.
FreeQueueWakes(q, s) == If(q.wwait, <<"qp", s>>)

\* A queue without message m.
Unlinked(ms, m) ==
  IF \E j \in DOMAIN ms : ms[j] = m THEN RemoveAt(ms, CHOOSE j \in DOMAIN ms : ms[j] = m) ELSE ms

\* The copy succeeds: msgfree() the message.
RcvDone(p) ==
  LET m == smp[p] q == Queue(p) s == SlotOf(p) IN
  /\ At(p, "rcvcopy")
  /\ msgque' = [msgque EXCEPT ![s] =
       [alloc |-> q.alloc, rwait |-> q.rwait, wwait |-> FALSE, seq |-> q.seq,
        cbytes |-> q.cbytes - m.size, qnum |-> q.qnum - 1, qbytes |-> q.qbytes,
        msgs |-> Unlinked(q.msgs, m)]]
  /\ Free(1, Text(m))
  /\ Unlock(p, FreeWakes(1, Text(m)) \cup FreeQueueWakes(q, s))
  /\ Return(p)
  /\ rcvd' = Append(rcvd, [id |-> uap[p].id, type |-> m.type, num |-> m.num])
  /\ UNCHANGED <<nrm, nfault, nsent, gone>>

\* EFAULT: the message stays.
RcvFault(p) ==
  /\ At(p, "rcvcopy") /\ nfault < MaxFault
  /\ nfault' = nfault + 1
  /\ Unlock(p, {})
  /\ Return(p)
  /\ UNCHANGED <<msgque, pool, nrm, nsent, rcvd, gone>>

-----------------------------------------------------------------------------
(* msgsnd() *)

\* Copy the type in, with the lock held.
SndBegin(p) ==
  /\ msgconv(p, "conv") /\ uap[p].op = "msgsnd"
  /\ msglock' = [msglock EXCEPT ![SlotOf(p)] = TRUE]
  /\ Leave(p, "sndtype")
  /\ UNCHANGED <<msgque, pool, uap, smp, wchan, sig, hist>>

SndType(p) ==
  /\ At(p, "sndtype")
  /\ Unlock(p, {})
  /\ \/ Goto(p, "getres") /\ UNCHANGED <<uap, smp, sig, nfault>>
     \/ nfault < MaxFault /\ nfault' = nfault + 1 /\ Return(p)
  /\ UNCHANGED <<msgque, pool, nrm, nsent, rcvd, gone>>

Full(p) == uap[p].size + Queue(p).cbytes > Queue(p).qbytes
NoText(p) == uap[p].size > 0 /\ ~\E a \in Seg : Fits(a, btoq(uap[p].size))

\* EAGAIN; a header that was taken goes back.
GetresFail(p) ==
  /\ msgconv(p, "getres") /\ uap[p].nowait
  /\ Full(p) \/ msgfp = 0 \/ NoText(p)
  /\ Unlock(p, If(~Full(p) /\ msgfp = 1, <<"msgfp", 0>>))
  /\ Return(p)
  /\ UNCHANGED <<msgque, pool, hist>>

\* No room on the queue.
GetresFull(p) ==
  /\ msgconv(p, "getres") /\ ~uap[p].nowait /\ Full(p)
  /\ msgque' = [msgque EXCEPT ![SlotOf(p)].wwait = TRUE]
  /\ UnlockSleep(p, <<"qp", SlotOf(p)>>, {}, "wsleep", "wintr")
  /\ UNCHANGED <<pool, uap, smp, sig, hist>>

\* No header.
GetresNoHeader(p) ==
  /\ msgconv(p, "getres") /\ ~uap[p].nowait /\ ~Full(p) /\ msgfp = 0
  /\ UnlockSleep(p, <<"msgfp", 0>>, {}, "fsleep", "intr")
  /\ UNCHANGED <<msgque, pool, uap, smp, sig, hist>>

\* No room for the text: put the header back.
GetresNoText(p) ==
  /\ msgconv(p, "getres") /\ ~uap[p].nowait /\ ~Full(p) /\ msgfp > 0 /\ NoText(p)
  /\ mapwant' = TRUE
  /\ UnlockSleep(p, <<"msgmap", 0>>, If(msgfp = 1, <<"msgfp", 0>>), "fsleep", "intr")
  /\ UNCHANGED <<msgque, msgfp, msgmap, uap, smp, sig, hist>>

\* Take a header and room for the text, and copy the text in.
GetresCopy(p) ==
  /\ msgconv(p, "getres") /\ ~Full(p) /\ msgfp > 0 /\ ~NoText(p)
  /\ \E a \in Seg \cup {0} :
       /\ IF uap[p].size = 0 THEN a = 0 ELSE a \in Seg /\ rmalloc(a, btoq(uap[p].size))
       /\ smp' = [smp EXCEPT ![p] = [type |-> uap[p].typ, size |-> uap[p].size,
                                     spot |-> a, num |-> 0]]
       /\ msgmap' = msgmap \ Text(smp'[p])
  /\ msgfp' = msgfp - 1
  /\ msglock' = [msglock EXCEPT ![SlotOf(p)] = TRUE]
  /\ pc' = [pc EXCEPT ![p] = "sndtext"]
  /\ cpu' = IF uap[p].size = 0 THEN p ELSE None
  /\ UNCHANGED <<msgque, mapwant, uap, wchan, sig, hist>>

\* Mutant of SndDone: only a queue that was empty has readers to wake.
SndDoneFirst(p) ==
  LET q == Queue(p) s == SlotOf(p) IN
  /\ At(p, "sndtext")
  /\ nsent' = nsent + 1
  /\ msgque' = [msgque EXCEPT ![s] =
       [alloc |-> q.alloc, rwait |-> FALSE, wwait |-> q.wwait, seq |-> q.seq,
        cbytes |-> q.cbytes + smp[p].size, qnum |-> q.qnum + 1, qbytes |-> q.qbytes,
        msgs |-> Append(q.msgs, [smp[p] EXCEPT !.num = nsent + 1])]]
  /\ Unlock(p, If(q.rwait /\ q.msgs = <<>>, <<"qnum", s>>))
  /\ Return(p)
  /\ UNCHANGED <<pool, nrm, nfault, rcvd, gone>>

\* Put the message on the queue and wake the readers.
SndDone(p) ==
  LET q == Queue(p) s == SlotOf(p) IN
  /\ At(p, "sndtext")
  /\ nsent' = nsent + 1
  /\ msgque' = [msgque EXCEPT ![s] =
       [alloc |-> q.alloc, rwait |-> FALSE, wwait |-> q.wwait, seq |-> q.seq,
        cbytes |-> q.cbytes + smp[p].size, qnum |-> q.qnum + 1, qbytes |-> q.qbytes,
        msgs |-> Append(q.msgs, [smp[p] EXCEPT !.num = nsent + 1])]]
  /\ Unlock(p, If(q.rwait, <<"qnum", s>>))
  /\ Return(p)
  /\ UNCHANGED <<pool, nrm, nfault, rcvd, gone>>

\* Mutant of SndFault: the header is not put back (msgsnd_out for msgsnd_out1).
SndFaultLeak(p) ==
  /\ At(p, "sndtext") /\ smp[p].size > 0 /\ nfault < MaxFault
  /\ nfault' = nfault + 1
  /\ Free(0, Text(smp[p]))
  /\ Unlock(p, FreeWakes(0, Text(smp[p])))
  /\ Return(p)
  /\ UNCHANGED <<msgque, nrm, nsent, rcvd, gone>>

\* EFAULT: free the text and the header.
SndFault(p) ==
  /\ At(p, "sndtext") /\ smp[p].size > 0 /\ nfault < MaxFault
  /\ nfault' = nfault + 1
  /\ Free(1, Text(smp[p]))
  /\ Unlock(p, FreeWakes(1, Text(smp[p])))
  /\ Return(p)
  /\ UNCHANGED <<msgque, nrm, nsent, rcvd, gone>>

\* sleep() returns: try again, or give up because of a signal.
SndAgain(p) ==
  /\ \/ At(p, "wsleep") /\ Goto(p, IF p \in sig THEN "wintr" ELSE "getres")
     \/ At(p, "fsleep") /\ Goto(p, IF p \in sig THEN "intr" ELSE "getres")
  /\ UNCHANGED <<msgque, msglock, pool, uap, smp, wchan, sig, hist>>

\* EINTR; a writer that waited for room on the queue passes the wait on.
SndIntr(p) ==
  /\ \/ /\ msgconv(p, "wintr")
        /\ msgque' = [msgque EXCEPT ![SlotOf(p)].wwait = FALSE]
        /\ Unlock(p, {<<"qp", SlotOf(p)>>})
     \/ /\ msgconv(p, "intr")
        /\ Unlock(p, {})
        /\ UNCHANGED msgque
  /\ Return(p)
  /\ UNCHANGED <<pool, hist>>

-----------------------------------------------------------------------------

\* A signal is posted to a process in a system call; its sleep ends.
psignal(p) ==
  /\ pc[p] # "user" /\ p \in SigProc \ sig
  /\ sig' = sig \cup {p}
  /\ wchan' = [wchan EXCEPT ![p] = None]
  /\ UNCHANGED <<msgque, msglock, pool, proc, hist>>

\* Calls of op in progress.
Active(op) == Cardinality({p \in Proc : uap[p].op = op})

Request(p) ==
  \/ msgget(p)
  \/ \E id \in Id :
       /\ Valid(id)
       /\ \/ \E op \in {"rmid", "set", "stat"} :
               /\ op = "rmid" => nrm + Active("rmid") < MaxRmid
               /\ op = "set" => QBytes # {}
               /\ msgctl(p, op, id)
          \/ \E a \in RcvArgs : msgrcv(p, id, a)
          \/ \E a \in SndArgs : nsent + Active("msgsnd") < MaxSend /\ msgsnd(p, id, a)

Step(p) ==
  \/ LockSleep(p) \/ LockAbort(p) \/ ConvFail(p)
  \/ msgctlRmid(p) \/ CtlCopy(p) \/ CtlDone(p)
  \/ RcvBegin(p) \/ FindCopy(p) \/ FindFail(p) \/ FindSleep(p)
  \/ RcvAgain(p) \/ RcvIntr(p) \/ RcvDone(p) \/ RcvFault(p)
  \/ SndBegin(p) \/ SndType(p) \/ GetresFail(p) \/ GetresFull(p) \/ GetresNoHeader(p)
  \/ GetresNoText(p) \/ GetresCopy(p) \/ SndDone(p) \/ SndFault(p) \/ SndAgain(p) \/ SndIntr(p)

Next == \E p \in Proc : Request(p) \/ Step(p) \/ psignal(p)

Spec == Init /\ [][Next]_vars

-----------------------------------------------------------------------------
(* Properties *)

Message == [type : {a.typ : a \in SndArgs}, size : 0 .. MSGMAX, spot : Seg \cup {0}, num : 0 .. MaxSend]

Loc == LockLoc \cup {"user", "ctlcopy", "rcvcopy", "rsleep", "rintr", "sndtype",
                     "sndtext", "wsleep", "fsleep"}

\* The types of the state of msg.c; msg_cbytes and msg_qnum, which are
\* unsigned, do not go below 0, and a header is only taken when there is one.
TypeOK ==
  /\ msgque \in [Slot -> [alloc : BOOLEAN, rwait : BOOLEAN, wwait : BOOLEAN,
                          seq : 0 .. ID_MAX, cbytes : Nat, qnum : Nat, qbytes : Nat,
                          msgs : Seq(Message)]]
  /\ msglock \in [Slot -> BOOLEAN]
  /\ msgfp \in Nat /\ msgmap \subseteq Seg /\ mapwant \in BOOLEAN
  /\ cpu \in Proc \cup {None}
  /\ pc \in [Proc -> Loc]
  /\ uap \in [Proc -> [op : {"none", "rmid", "set", "stat", "msgrcv", "msgsnd"},
                       id : Id, size : Nat, typ : Int,
                       nowait : BOOLEAN, noerror : BOOLEAN]]
  /\ smp \in [Proc -> Message \cup {None}]
  /\ wchan \in [Proc -> Chan \cup {None}]
  /\ sig \subseteq Proc
  /\ nrm \in 0 .. MaxRmid /\ nfault \in 0 .. MaxFault /\ nsent \in 0 .. MaxSend
  /\ rcvd \in Seq([id : Id, type : Nat, num : 1 .. MaxSend])
  /\ gone \subseteq 1 .. MaxSend

\* p copies with the lock held.
Holds(p) == pc[p] \in {"ctlcopy", "rcvcopy", "sndtype", "sndtext"}

\* sys/msg.h: "We have to be able to lock a message queue since we can sleep
\* during message processing due to a page fault".  The lock is held exactly
\* by one process that copies, and meanwhile its queue is not removed, nor
\* the message it copies received by another (os/msg.c 145-156, 457-473).
LockProtects ==
  /\ \A p, q \in Proc : Holds(p) /\ Holds(q) /\ SlotOf(p) = SlotOf(q) => p = q
  /\ \A s \in Slot : msglock[s] => \E p \in Proc : Holds(p) /\ SlotOf(p) = s
  /\ \A p \in Proc : Holds(p) =>
       /\ msglock[SlotOf(p)] /\ Valid(uap[p].id)
       /\ pc[p] = "rcvcopy" => smp[p] \in ToSet(Queue(p).msgs)

\* Every message sent is on one queue, was received once, or was destroyed
\* with its queue, whatever copies failed and calls were interrupted.
ExactlyOnce ==
  \A n \in 1 .. nsent :
    Cardinality({x \in Slot \X (1 .. MSGTQL) :
                   x[2] \in DOMAIN msgque[x[1]].msgs /\ msgque[x[1]].msgs[x[2]].num = n})
      + Cardinality({j \in DOMAIN rcvd : rcvd[j].num = n})
      + (IF n \in gone THEN 1 ELSE 0) = 1

\* Messages of one type leave a queue in the order in which they were sent,
\* whoever receives them and by whatever msgtyp (os/msg.c 428-447).
InOrder ==
  \A j, k \in DOMAIN rcvd :
    j < k /\ rcvd[j].id = rcvd[k].id /\ rcvd[j].type = rcvd[k].type
      => rcvd[j].num < rcvd[k].num

Copied(p) == IF pc[p] = "sndtext" THEN {smp[p]} ELSE {}
Queued == UNION {ToSet(msgque[s].msgs) : s \in Slot}
Live == Queued \cup UNION {Copied(p) : p \in Proc}

\* Headers and segments are either free or belong to one message that is on
\* a queue or being sent: none leaks on an error path (os/msg.c 120-127,
\* 592-601, 620-625, 650-655).
PoolExact ==
  /\ msgfp + Cardinality(Queued) + Cardinality({p \in Proc : pc[p] = "sndtext"}) = MSGTQL
  /\ UNION {Text(m) : m \in Live} = Seg \ msgmap
  /\ \A m, n \in Live : m # n => Text(m) \cap Text(n) = {}

\* msg_qnum and msg_cbytes count the messages and bytes of the queue, also of
\* a queue that msgget() made from a removed one (os/msg.c 113, 194, 341-343).
CountsExact ==
  \A s \in Slot :
    /\ msgque[s].qnum = Len(msgque[s].msgs)
    /\ msgque[s].cbytes = FoldSeq(LAMBDA m, n : m.size + n, 0, msgque[s].msgs)

\* A reader sleeps only on a queue that exists, has no message for it and
\* remembers that a reader waits (os/msg.c 199, 480, 641).
ReaderBlocked ==
  \A p \in Proc : pc[p] = "rsleep" /\ wchan[p] # None =>
    Valid(uap[p].id) /\ Queue(p).rwait /\ NoMatch(p)

\* A writer sleeps only for what is missing: room on its queue, which exists
\* and remembers that a writer waits; a header; or segments (os/msg.c 114,
\* 125, 201, 550, 597).
WriterBlocked ==
  \A p \in Proc : wchan[p] # None =>
    /\ wchan[p][1] = "qp" => Valid(uap[p].id) /\ Queue(p).wwait /\ Full(p)
    /\ wchan[p][1] = "msgfp" => msgfp = 0
    /\ wchan[p][1] = "msgmap" => mapwant /\ NoText(p)
=============================================================================
