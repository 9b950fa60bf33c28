----------------------------- MODULE MsgProofs -----------------------------
(***************************************************************************)
(* Proofs about Msg, for any number of processes, queues, headers and      *)
(* segments and any messages: the lock of a queue protects the copies,     *)
(* nobody sleeps for what is there, each message is received once and in   *)
(* order, the counts of a queue are right and no header or segment leaks.  *)
(***************************************************************************)
EXTENDS Msg, SequenceTheorems, SumTheorems

-----------------------------------------------------------------------------
(* The inductive invariant *)

Header == [type : Int, size : Nat, spot : Int, num : Int]

QueueRec == [alloc : BOOLEAN, rwait : BOOLEAN, wwait : BOOLEAN, seq : Int,
             cbytes : Int, qnum : Int, qbytes : Int, msgs : Seq(Header)]

CallRec == [op : {"none", "rmid", "set", "stat", "msgrcv", "msgsnd"}, id : Int \X Slot,
            size : Nat, typ : Int, nowait : BOOLEAN, noerror : BOOLEAN]

\* The types that the proofs need.
MsgType ==
  /\ msgque \in [Slot -> QueueRec]
  /\ msglock \in [Slot -> BOOLEAN]
  /\ msgfp \in Int /\ mapwant \in BOOLEAN
  /\ pc \in [Proc -> Loc]
  /\ uap \in [Proc -> CallRec]
  /\ smp \in [Proc -> Header \cup {None}]
  /\ wchan \in [Proc -> Chan \cup {None}]
  /\ nsent \in Nat

\* A process that copies a message has one.
CopyOK == \A p \in Proc : pc[p] \in {"rcvcopy", "sndtext"} => smp[p] \in Header

TypeInv == MsgType /\ CopyOK

-----------------------------------------------------------------------------
(* Types *)

LEMMA InitType == Init => TypeInv
<1> SUFFICES ASSUME Init PROVE TypeInv
  OBVIOUS
<1>1. 0 \in Slot /\ MSGTQL \in Int /\ "user" \in Loc
  BY MsgAssumption DEF Slot, Loc
<1>2. <<>> \in Seq(Header)
  OBVIOUS
<1>3. msgque \in [Slot -> QueueRec]
  BY <1>2, MsgAssumption DEF Init, QueueRec
<1>4. uap \in [Proc -> CallRec]
  BY <1>1 DEF Init, NoCall, CallRec
<1> QED
  BY <1>1, <1>3, <1>4 DEF Init, TypeInv, MsgType, CopyOK

\* What the helpers do to the types.
LEMMA AwakeType ==
  ASSUME MsgType, NEW chans
  PROVE  Awake(chans) \in [Proc -> Chan \cup {None}]
  BY DEF MsgType, Awake

LEMMA UnlockType ==
  ASSUME MsgType, NEW p \in Proc, NEW chans, Unlock(p, chans)
  PROVE  /\ msglock' \in [Slot -> BOOLEAN]
         /\ wchan' \in [Proc -> Chan \cup {None}]
  BY AwakeType DEF MsgType, Unlock

LEMMA ReturnType ==
  ASSUME MsgType, CopyOK, NEW p \in Proc, Return(p)
  PROVE  /\ pc' \in [Proc -> Loc]
         /\ uap' \in [Proc -> CallRec]
         /\ smp' \in [Proc -> Header \cup {None}]
         /\ CopyOK'
  <1>1. NoCall \in CallRec
    BY MsgAssumption DEF NoCall, Slot, CallRec
  <1>2. "user" \in Loc
    BY DEF Loc
  <1> QED
    BY <1>1, <1>2 DEF MsgType, CopyOK, Return, Leave

LEMMA UnlockSleepType ==
  ASSUME MsgType, CopyOK, NEW p \in Proc, NEW chan \in Chan, NEW wakes,
         NEW slept \in {"rsleep", "wsleep", "fsleep"}, NEW intr \in {"rintr", "wintr", "intr"},
         UnlockSleep(p, chan, wakes, slept, intr), UNCHANGED smp
  PROVE  /\ msglock' \in [Slot -> BOOLEAN]
         /\ pc' \in [Proc -> Loc]
         /\ wchan' \in [Proc -> Chan \cup {None}]
         /\ CopyOK'
  <1>1. slept \in Loc /\ intr \in Loc
    BY DEF Loc, LockLoc
  <1>2. Awake(wakes \cup {Lockp(p)}) \in [Proc -> Chan \cup {None}]
    BY AwakeType
  <1>3. msglock' \in [Slot -> BOOLEAN]
    BY DEF MsgType, UnlockSleep
  <1>4. pc' = [pc EXCEPT ![p] = slept] \/ pc' = [pc EXCEPT ![p] = intr]
    BY DEF UnlockSleep, Leave, Goto
  <1>5. pc' \in [Proc -> Loc] /\ CopyOK'
    BY <1>1, <1>4 DEF MsgType, CopyOK
  <1>6. wchan' \in [Proc -> Chan \cup {None}]
    BY <1>2 DEF UnlockSleep
  <1> QED
    BY <1>3, <1>5, <1>6

\* A queue without one of its messages is a queue of messages.
LEMMA UnlinkedType ==
  ASSUME NEW ms \in Seq(Header), NEW m
  PROVE  Unlinked(ms, m) \in Seq(Header) /\ ToSet(Unlinked(ms, m)) \subseteq ToSet(ms)
<1>1. CASE ~\E j \in DOMAIN ms : ms[j] = m
  BY <1>1 DEF Unlinked
<1>2. CASE \E j \in DOMAIN ms : ms[j] = m
  <2> DEFINE j == CHOOSE j \in DOMAIN ms : ms[j] = m
             a == SubSeq(ms, 1, j - 1)
             b == SubSeq(ms, j + 1, Len(ms))
  <2>1. j \in 1 .. Len(ms)
    BY <1>2
  <2>2. Unlinked(ms, m) = a \o b
    BY <1>2 DEF Unlinked, RemoveAt
  <2>3. a \in Seq(Header) /\ Len(a) = j - 1 /\ \A k \in 1 .. Len(a) : a[k] = ms[k]
    <3>1. \A k \in 1 .. j - 1 : ms[k] \in Header
      BY <2>1
    <3> HIDE DEF j
    <3> QED
      BY <3>1, <2>1, SubSeqProperties
  <2>4. /\ b \in Seq(Header) /\ Len(b) = Len(ms) - j
        /\ \A k \in 1 .. Len(b) : b[k] = ms[j + k]
    <3>1. \A k \in j + 1 .. Len(ms) : ms[k] \in Header
      BY <2>1
    <3> HIDE DEF j
    <3> QED
      BY <3>1, <2>1, SubSeqProperties
  <2> HIDE DEF j, a, b
  <2>5. a \o b \in Seq(Header) /\ Len(a \o b) = Len(a) + Len(b)
    BY <2>3, <2>4, SMTT(30)
  <2>6. \A k \in 1 .. Len(a \o b) : \E x \in 1 .. Len(ms) : (a \o b)[k] = ms[x]
    <3> TAKE k \in 1 .. Len(a \o b)
    <3>1. CASE k <= Len(a)
      BY <3>1, <2>1, <2>3, <2>4, <2>5
    <3>2. CASE k > Len(a)
      <4>1. (a \o b)[k] = b[k - Len(a)] /\ k - Len(a) \in 1 .. Len(b)
        BY <3>2, <2>1, <2>3, <2>4, <2>5
      <4>2. b[k - Len(a)] = ms[j + (k - Len(a))]
        BY <4>1, <2>4
      <4> QED
        BY <4>1, <4>2, <2>1, <2>3, <2>4
    <3> QED
      BY <3>1, <3>2, <2>3, <2>5
  <2> QED
    BY <2>2, <2>5, <2>6, SMTT(30) DEF ToSet
<1> QED
  BY <1>1, <1>2

LEMMA RequestType ==
  ASSUME TypeInv, NEW p \in Proc, Request(p)
  PROVE  TypeInv'
<1> USE DEF TypeInv
<1>1. CASE msgget(p)
  <2>1. PICK s \in Slot : msgque' = [msgque EXCEPT ![s] =
            [alloc |-> TRUE, rwait |-> FALSE, wwait |-> FALSE, seq |-> @.seq,
             cbytes |-> @.cbytes, qnum |-> 0, qbytes |-> MSGMNB, msgs |-> <<>>]]
    BY <1>1 DEF msgget
  <2>2. msgque[s] \in QueueRec /\ MSGMNB \in Int /\ <<>> \in Seq(Header)
    BY MsgAssumption DEF MsgType
  <2>3. msgque' \in [Slot -> QueueRec]
    BY <2>1, <2>2 DEF MsgType, QueueRec
  <2> QED
    BY <1>1, <2>3 DEF msgget, MsgType, CopyOK, pool, proc, hist
<1>2. ASSUME NEW c \in CallRec, Call(p, c) PROVE TypeInv'
  <2>1. "conv" \in Loc
    BY DEF Loc, LockLoc
  <2> QED
    BY <1>2, <2>1 DEF Call, Goto, MsgType, CopyOK, pool, hist
<1>3. Id \subseteq Int \X Slot
  BY MsgAssumption DEF Id
<1>4. ASSUME NEW id \in Id, NEW op \in {"rmid", "set", "stat"}, msgctl(p, op, id) PROVE TypeInv'
  <2>1. [op |-> op, id |-> id, size |-> 0, typ |-> 0, nowait |-> FALSE, noerror |-> FALSE]
          \in CallRec
    BY <1>3 DEF CallRec
  <2> QED
    BY <1>2, <1>4, <2>1 DEF msgctl
<1>5. ASSUME NEW id \in Id, NEW a \in RcvArgs, msgrcv(p, id, a) PROVE TypeInv'
  BY <1>2, <1>3, <1>5, MsgAssumption DEF msgrcv, CallRec
<1>6. ASSUME NEW id \in Id, NEW a \in SndArgs, msgsnd(p, id, a) PROVE TypeInv'
  <2>1. a.size \in Nat /\ a.typ \in Int /\ a.nowait \in BOOLEAN
    BY MsgAssumption
  <2>2. [op |-> "msgsnd", id |-> id, size |-> a.size, typ |-> a.typ,
         nowait |-> a.nowait, noerror |-> FALSE] \in CallRec
    BY <1>3, <2>1 DEF CallRec
  <2> QED
    BY <1>2, <1>6, <2>2 DEF msgsnd
<1> QED
  BY <1>1, <1>4, <1>5, <1>6 DEF Request

\* What a process holds of a queue has the right type.
LEMMA QueueType ==
  ASSUME MsgType, NEW p \in Proc
  PROVE  /\ SlotOf(p) \in Slot /\ Queue(p) \in QueueRec
         /\ Queue(p).msgs \in Seq(Header) /\ uap[p].size \in Nat /\ uap[p].typ \in Int
  BY DEF MsgType, SlotOf, Queue, CallRec, QueueRec

LEMMA NextSeqType ==
  ASSUME NEW id \in Int \X Slot
  PROVE  NextSeq(id) \in Int
  BY DEF NextSeq

LEMMA FreeType ==
  ASSUME MsgType, NEW n \in Int, NEW segs, Free(n, segs)
  PROVE  msgfp' \in Int /\ mapwant' \in BOOLEAN
  BY DEF MsgType, Free

\* Steps that leave the queues alone.
LEMMA StepTypeQuiet ==
  ASSUME TypeInv, NEW p \in Proc,
         \/ LockSleep(p) \/ LockAbort(p) \/ ConvFail(p) \/ CtlCopy(p) \/ RcvBegin(p)
         \/ FindCopy(p) \/ FindFail(p) \/ RcvAgain(p) \/ RcvIntr(p) \/ RcvFault(p)
         \/ SndBegin(p) \/ SndType(p) \/ GetresFail(p) \/ GetresNoHeader(p)
         \/ GetresNoText(p) \/ GetresCopy(p) \/ SndFault(p) \/ SndAgain(p) \/ psignal(p)
  PROVE  TypeInv'
<1> USE DEF TypeInv
<1>0. SlotOf(p) \in Slot /\ {"find", "getres", "intr", "wintr", "rintr", "ctlcopy",
         "rcvcopy", "sndtype", "sndtext"} \subseteq Loc
  BY QueueType DEF Loc, LockLoc
<1>1. CASE LockSleep(p)
  BY <1>0, <1>1 DEF LockSleep, MsgType, CopyOK, Lockp, Chan, pool, hist
<1>2. CASE LockAbort(p)
  BY <1>2, ReturnType DEF LockAbort, MsgType, pool, hist
<1>3. CASE ConvFail(p)
  BY <1>3, ReturnType, UnlockType DEF ConvFail, MsgType, pool, hist
<1>4. CASE CtlCopy(p)
  BY <1>0, <1>4 DEF CtlCopy, Leave, MsgType, CopyOK, pool, hist
<1>5. CASE RcvBegin(p)
  BY <1>0, <1>5, UnlockType DEF RcvBegin, Goto, MsgType, CopyOK, pool, hist
<1>6. CASE FindCopy(p)
  <2>1. PICK m \in Best(Queue(p).msgs, uap[p].typ) : smp' = [smp EXCEPT ![p] = m]
    BY <1>6 DEF FindCopy
  <2>2. m \in Header
    BY QueueType DEF Best
  <2> QED
    BY <1>0, <1>6, <2>1, <2>2 DEF FindCopy, Leave, MsgType, CopyOK, pool, hist
<1>7. CASE FindFail(p)
  BY <1>7, ReturnType, UnlockType DEF FindFail, MsgType, pool, hist
<1>8. CASE RcvAgain(p)
  BY <1>0, <1>8 DEF RcvAgain, Goto, MsgType, CopyOK, pool, hist
<1>9. CASE RcvIntr(p)
  BY <1>9, ReturnType DEF RcvIntr, MsgType, pool, hist
<1>10. CASE RcvFault(p)
  BY <1>10, ReturnType, UnlockType DEF RcvFault, MsgType, pool
<1>11. CASE SndBegin(p)
  BY <1>0, <1>11 DEF SndBegin, Leave, MsgType, CopyOK, pool, hist
<1>12. CASE SndType(p)
  <2>1. CASE Goto(p, "getres") /\ UNCHANGED <<uap, smp, sig, nfault>>
    BY <1>0, <1>12, <2>1, UnlockType DEF SndType, Goto, MsgType, CopyOK, pool
  <2>2. CASE Return(p)
    BY <1>12, <2>2, ReturnType, UnlockType DEF SndType, MsgType, pool
  <2> QED
    BY <1>12, <2>1, <2>2 DEF SndType
<1>13. CASE GetresFail(p)
  BY <1>13, ReturnType, UnlockType DEF GetresFail, MsgType, pool, hist
<1>14. CASE GetresNoHeader(p)
  BY <1>14, UnlockSleepType DEF GetresNoHeader, MsgType, pool, hist, Chan
<1>15. CASE GetresNoText(p)
  BY <1>15, UnlockSleepType DEF GetresNoText, MsgType, hist, Chan
<1>16. CASE GetresCopy(p)
  <2>1. PICK a \in Seg \cup {0} :
          smp' = [smp EXCEPT ![p] = [type |-> uap[p].typ, size |-> uap[p].size,
                                     spot |-> a, num |-> 0]]
    BY <1>16 DEF GetresCopy
  <2>2. a \in Int
    BY MsgAssumption DEF Seg
  <2>3. [type |-> uap[p].typ, size |-> uap[p].size, spot |-> a, num |-> 0] \in Header
    BY <2>2, QueueType DEF Header
  <2> QED
    BY <1>0, <1>16, <2>1, <2>3 DEF GetresCopy, MsgType, CopyOK, hist
<1>17. CASE SndFault(p)
  BY <1>17, ReturnType, UnlockType, FreeType DEF SndFault, MsgType
<1>18. CASE SndAgain(p)
  BY <1>0, <1>18 DEF SndAgain, Goto, MsgType, CopyOK, pool, hist
<1>19. CASE psignal(p)
  BY <1>19 DEF psignal, MsgType, CopyOK, pool, proc, hist
<1> QED
  BY <1>1, <1>2, <1>3, <1>4, <1>5, <1>6, <1>7, <1>8, <1>9, <1>10, <1>11, <1>12, <1>13,
     <1>14, <1>15, <1>16, <1>17, <1>18, <1>19

\* Steps that change a queue.
LEMMA StepTypeQueue ==
  ASSUME TypeInv, NEW p \in Proc,
         \/ msgctlRmid(p) \/ CtlDone(p) \/ FindSleep(p) \/ RcvDone(p)
         \/ GetresFull(p) \/ SndDone(p) \/ SndIntr(p)
  PROVE  TypeInv'
<1> USE DEF TypeInv
<1>0. SlotOf(p) \in Slot /\ uap[p].id \in Int \X Slot
  BY QueueType DEF MsgType, CallRec
<1>1. CASE msgctlRmid(p)
  <2>1. Removed(Queue(p), uap[p].id) \in QueueRec
    <3>1. NextSeq(uap[p].id) \in Int /\ Queue(p).qbytes \in Int /\ <<>> \in Seq(Header)
      BY <1>0, NextSeqType, QueueType DEF QueueRec
    <3> QED
      BY <3>1 DEF Removed, QueueRec
  <2>2. msgque' \in [Slot -> QueueRec]
    BY <1>0, <1>1, <2>1 DEF msgctlRmid, MsgType
  <2>3. Len(Queue(p).msgs) \in Int
    BY QueueType
  <2> QED
    BY <1>1, <2>2, <2>3, ReturnType, UnlockType, FreeType DEF msgctlRmid, MsgType
<1>2. CASE CtlDone(p)
  <2>1. msgque' \in [Slot -> QueueRec]
    <3>1. CASE msgque' = msgque
      BY <3>1 DEF MsgType
    <3>2. ASSUME NEW n \in QBytes, msgque' = [msgque EXCEPT ![SlotOf(p)].qbytes = n]
          PROVE  msgque' \in [Slot -> QueueRec]
      <4>1. n \in Int
        BY MsgAssumption
      <4> QED
        BY <1>0, <3>2, <4>1, ZenonT(30) DEF MsgType, QueueRec
    <3> QED
      BY <1>2, <3>1, <3>2 DEF CtlDone
  <2> QED
    BY <1>2, <2>1, ReturnType, UnlockType DEF CtlDone, MsgType, pool, hist
<1>3. CASE FindSleep(p)
  <2>1. msgque' \in [Slot -> QueueRec]
    BY <1>0, <1>3, ZenonT(30) DEF FindSleep, MsgType, QueueRec
  <2>2. <<"qnum", SlotOf(p)>> \in Chan
    BY <1>0 DEF Chan
  <2> QED
    BY <1>3, <2>1, <2>2, UnlockSleepType DEF FindSleep, MsgType, pool, hist
<1>4. CASE RcvDone(p)
  <2>1. smp[p] \in Header /\ smp[p].size \in Int
    BY <1>4 DEF RcvDone, At, CopyOK, Header
  <2>2. msgque' \in [Slot -> QueueRec]
    <3>1. Unlinked(Queue(p).msgs, smp[p]) \in Seq(Header)
      BY UnlinkedType, QueueType
    <3>2. /\ Queue(p).cbytes \in Int /\ Queue(p).qnum \in Int /\ Queue(p).qbytes \in Int
          /\ Queue(p).alloc \in BOOLEAN /\ Queue(p).rwait \in BOOLEAN /\ Queue(p).seq \in Int
      BY QueueType DEF QueueRec
    <3> QED
      <4> DEFINE r == [alloc |-> Queue(p).alloc, rwait |-> Queue(p).rwait, wwait |-> FALSE,
                       seq |-> Queue(p).seq, cbytes |-> Queue(p).cbytes - smp[p].size,
                       qnum |-> Queue(p).qnum - 1, qbytes |-> Queue(p).qbytes,
                       msgs |-> Unlinked(Queue(p).msgs, smp[p])]
      <4>1. r \in QueueRec
        BY <2>1, <3>1, <3>2 DEF QueueRec
      <4>2. msgque' = [msgque EXCEPT ![SlotOf(p)] = r]
        BY <1>4 DEF RcvDone
      <4> HIDE DEF r
      <4> QED
        BY <1>0, <4>1, <4>2 DEF MsgType
  <2> QED
    BY <1>4, <2>2, ReturnType, UnlockType, FreeType DEF RcvDone, MsgType
<1>5. CASE GetresFull(p)
  <2>1. msgque' \in [Slot -> QueueRec]
    BY <1>0, <1>5, ZenonT(30) DEF GetresFull, MsgType, QueueRec
  <2>2. <<"qp", SlotOf(p)>> \in Chan
    BY <1>0 DEF Chan
  <2> QED
    BY <1>5, <2>1, <2>2, UnlockSleepType DEF GetresFull, MsgType, pool, hist
<1>6. CASE SndDone(p)
  <2>1. smp[p] \in Header /\ smp[p].size \in Int /\ nsent + 1 \in Nat
    BY <1>6 DEF SndDone, At, CopyOK, Header, MsgType
  <2>2. [smp[p] EXCEPT !.num = nsent + 1] \in Header
    BY <2>1 DEF Header
  <2>3. msgque' \in [Slot -> QueueRec]
    <3>1. Append(Queue(p).msgs, [smp[p] EXCEPT !.num = nsent + 1]) \in Seq(Header)
      BY <2>2, QueueType
    <3>2. /\ Queue(p).cbytes \in Int /\ Queue(p).qnum \in Int /\ Queue(p).qbytes \in Int
          /\ Queue(p).alloc \in BOOLEAN /\ Queue(p).wwait \in BOOLEAN /\ Queue(p).seq \in Int
      BY QueueType DEF QueueRec
    <3> QED
      <4> DEFINE r == [alloc |-> Queue(p).alloc, rwait |-> FALSE, wwait |-> Queue(p).wwait,
                       seq |-> Queue(p).seq, cbytes |-> Queue(p).cbytes + smp[p].size,
                       qnum |-> Queue(p).qnum + 1, qbytes |-> Queue(p).qbytes,
                       msgs |-> Append(Queue(p).msgs, [smp[p] EXCEPT !.num = nsent + 1])]
      <4>1. r \in QueueRec
        BY <2>1, <3>1, <3>2 DEF QueueRec
      <4>2. msgque' = [msgque EXCEPT ![SlotOf(p)] = r]
        BY <1>6 DEF SndDone
      <4> HIDE DEF r
      <4> QED
        BY <1>0, <4>1, <4>2 DEF MsgType
  <2> QED
    BY <1>6, <2>1, <2>3, ReturnType, UnlockType DEF SndDone, MsgType, pool
<1>7. CASE SndIntr(p)
  <2>1. msgque' \in [Slot -> QueueRec]
    <3>1. CASE msgque' = msgque
      BY <3>1 DEF MsgType
    <3>2. CASE msgque' = [msgque EXCEPT ![SlotOf(p)].wwait = FALSE]
      BY <1>0, <3>2, ZenonT(30) DEF MsgType, QueueRec
    <3> QED
      BY <1>7, <3>1, <3>2 DEF SndIntr
  <2>2. msglock' \in [Slot -> BOOLEAN] /\ wchan' \in [Proc -> Chan \cup {None}]
    BY <1>7, UnlockType DEF SndIntr
  <2> QED
    BY <1>7, <2>1, <2>2, ReturnType DEF SndIntr, MsgType, pool, hist
<1> QED
  BY <1>1, <1>2, <1>3, <1>4, <1>5, <1>6, <1>7

-----------------------------------------------------------------------------
(* The lock *)

HoldLoc == {"ctlcopy", "rcvcopy", "sndtype", "sndtext"}

\* A step of p changes neither the call nor the copy of another process.
OthersSame(p) ==
  \A q \in Proc \ {p} : pc'[q] = pc[q] /\ uap'[q] = uap[q] /\ smp'[q] = smp[q]

\* A step that leaves the lock of p's queue free: p had it, or nobody had.
LEMMA Release ==
  ASSUME TypeInv, LockProtects, NEW p \in Proc,
         Holds(p) \/ ~msglock[SlotOf(p)],
         msglock' = [msglock EXCEPT ![SlotOf(p)] = FALSE],
         pc'[p] \notin HoldLoc, OthersSame(p),
         \A s \in Slot \ {SlotOf(p)} : msgque'[s] = msgque[s]
  PROVE  LockProtects'
<1>0. \A q \in Proc : SlotOf(q) \in Slot
  BY QueueType DEF TypeInv
<1>1. ASSUME NEW q \in Proc, Holds(q)'
      PROVE  /\ Holds(q) /\ q # p /\ SlotOf(q) # SlotOf(p)
             /\ pc'[q] = pc[q] /\ uap'[q] = uap[q] /\ smp'[q] = smp[q]
             /\ SlotOf(q)' = SlotOf(q) /\ Queue(q)' = Queue(q)
  <2>1. q # p
    BY <1>1 DEF Holds, HoldLoc
  <2>2. pc'[q] = pc[q] /\ uap'[q] = uap[q] /\ smp'[q] = smp[q] /\ Holds(q)
    BY <1>1, <2>1 DEF OthersSame, Holds
  <2>3. SlotOf(q) # SlotOf(p)
    BY <2>1, <2>2 DEF LockProtects
  <2> QED
    BY <1>0, <2>1, <2>2, <2>3 DEF SlotOf, Queue
<1>2. ASSUME NEW q \in Proc, NEW r \in Proc, Holds(q)', Holds(r)', SlotOf(q)' = SlotOf(r)'
      PROVE  q = r
  BY <1>1, <1>2 DEF LockProtects
<1>3. ASSUME NEW s \in Slot, msglock'[s]
      PROVE  \E q \in Proc : Holds(q)' /\ SlotOf(q)' = s
  <2>1. s # SlotOf(p) /\ msglock[s]
    BY <1>0, <1>3 DEF TypeInv, MsgType
  <2>2. PICK q \in Proc : Holds(q) /\ SlotOf(q) = s
    BY <2>1 DEF LockProtects
  <2> QED
    BY <2>1, <2>2 DEF OthersSame, Holds, SlotOf
<1>4. ASSUME NEW q \in Proc, Holds(q)'
      PROVE  /\ msglock'[SlotOf(q)'] /\ Valid(uap[q].id)'
             /\ pc'[q] = "rcvcopy" => smp'[q] \in ToSet(Queue(q).msgs)'
  <2>1. msglock'[SlotOf(q)'] = msglock[SlotOf(q)]
    BY <1>0, <1>1, <1>4 DEF TypeInv, MsgType
  <2>2. Valid(uap[q].id)' = Valid(uap[q].id)
    BY <1>0, <1>1, <1>4 DEF Valid, SlotOf
  <2>3. ToSet(Queue(q).msgs)' = ToSet(Queue(q).msgs)
    BY <1>1, <1>4 DEF ToSet
  <2> QED
    BY <1>1, <1>4, <2>1, <2>2, <2>3 DEF LockProtects
<1> QED
  BY <1>2, <1>3, <1>4 DEF LockProtects

\* A step in which p takes the free lock of a queue that exists.
LEMMA Acquire ==
  ASSUME TypeInv, LockProtects, NEW p \in Proc,
         ~msglock[SlotOf(p)], Valid(uap[p].id),
         msglock' = [msglock EXCEPT ![SlotOf(p)] = TRUE],
         pc'[p] \in HoldLoc, OthersSame(p), uap' = uap, msgque' = msgque,
         pc'[p] = "rcvcopy" => smp'[p] \in ToSet(Queue(p).msgs)
  PROVE  LockProtects'
<1>0. \A q \in Proc : SlotOf(q) \in Slot /\ SlotOf(q)' = SlotOf(q) /\ Queue(q)' = Queue(q)
  BY QueueType DEF TypeInv, SlotOf, Queue
<1>1. ASSUME NEW q \in Proc, q # p
      PROVE  /\ pc'[q] = pc[q] /\ smp'[q] = smp[q] /\ Holds(q)' = Holds(q)
             /\ Holds(q) => SlotOf(q) # SlotOf(p)
  BY <1>1 DEF OthersSame, Holds, LockProtects
<1>2. Holds(p)'
  BY DEF Holds, HoldLoc
<1>3. ASSUME NEW q \in Proc, NEW r \in Proc, Holds(q)', Holds(r)', SlotOf(q)' = SlotOf(r)'
      PROVE  q = r
  BY <1>0, <1>1, <1>3 DEF LockProtects
<1>4. ASSUME NEW s \in Slot, msglock'[s]
      PROVE  \E q \in Proc : Holds(q)' /\ SlotOf(q)' = s
  <2>1. CASE s = SlotOf(p)
    BY <1>0, <1>2, <2>1
  <2>2. CASE s # SlotOf(p)
    <3>1. msglock[s]
      BY <1>4, <2>2 DEF TypeInv, MsgType
    <3>2. PICK q \in Proc : Holds(q) /\ SlotOf(q) = s
      BY <3>1 DEF LockProtects
    <3> QED
      BY <1>0, <1>1, <2>2, <3>2
  <2> QED
    BY <2>1, <2>2
<1>5. ASSUME NEW q \in Proc, Holds(q)'
      PROVE  /\ msglock'[SlotOf(q)'] /\ Valid(uap[q].id)'
             /\ pc'[q] = "rcvcopy" => smp'[q] \in ToSet(Queue(q).msgs)'
  <2>1. Valid(uap[q].id)' = Valid(uap[q].id) /\ ToSet(Queue(q).msgs)' = ToSet(Queue(q).msgs)
    BY <1>0 DEF Valid, ToSet
  <2>2. CASE q = p
    BY <1>0, <2>1, <2>2 DEF TypeInv, MsgType
  <2>3. CASE q # p
    BY <1>0, <1>1, <1>5, <2>1, <2>3 DEF TypeInv, MsgType, LockProtects
  <2> QED
    BY <2>2, <2>3
<1> QED
  BY <1>3, <1>4, <1>5 DEF LockProtects

\* A step of a process that does not copy and that leaves the locks and the
\* queues that exist alone.
LEMMA Aside ==
  ASSUME TypeInv, LockProtects, NEW p \in Proc, ~Holds(p), pc'[p] \notin HoldLoc,
         OthersSame(p), msglock' = msglock,
         \A s \in Slot : msgque[s].alloc => msgque'[s] = msgque[s]
  PROVE  LockProtects'
<1>0. \A q \in Proc : SlotOf(q) \in Slot
  BY QueueType DEF TypeInv
<1>1. ~Holds(p)'
  BY DEF Holds, HoldLoc
<1>2. \A q \in Proc : q # p => /\ pc'[q] = pc[q] /\ smp'[q] = smp[q] /\ uap'[q] = uap[q]
                               /\ Holds(q)' = Holds(q) /\ SlotOf(q)' = SlotOf(q)
  BY DEF OthersSame, Holds, SlotOf
<1>3. ASSUME NEW q \in Proc, Holds(q)'
      PROVE  /\ msglock'[SlotOf(q)'] /\ Valid(uap[q].id)'
             /\ pc'[q] = "rcvcopy" => smp'[q] \in ToSet(Queue(q).msgs)'
  <2>1. q # p /\ Holds(q)
    BY <1>1, <1>2, <1>3
  <2>2. msgque'[SlotOf(q)] = msgque[SlotOf(q)]
    BY <1>0, <2>1 DEF LockProtects, Valid, SlotOf
  <2>3. Valid(uap[q].id)' = Valid(uap[q].id) /\ ToSet(Queue(q).msgs)' = ToSet(Queue(q).msgs)
    BY <1>2, <2>1, <2>2 DEF Valid, ToSet, Queue, SlotOf
  <2> QED
    BY <1>2, <2>1, <2>3 DEF LockProtects
<1> QED
  BY <1>1, <1>2, <1>3 DEF LockProtects
-----------------------------------------------------------------------------
\* What the ends of the steps have in common.
LEMMA ReturnSame ==
  ASSUME TypeInv, NEW p \in Proc, Return(p)
  PROVE  OthersSame(p) /\ pc'[p] = "user" /\ smp'[p] = None
  BY DEF TypeInv, MsgType, Return, Leave, OthersSame

LEMMA UnlockSleepSame ==
  ASSUME TypeInv, NEW p \in Proc, NEW chan, NEW wakes, NEW slept, NEW intr,
         UnlockSleep(p, chan, wakes, slept, intr), UNCHANGED <<uap, smp>>
  PROVE  /\ OthersSame(p) /\ pc'[p] \in {slept, intr}
         /\ msglock' = [msglock EXCEPT ![SlotOf(p)] = FALSE]
  BY DEF TypeInv, MsgType, UnlockSleep, Leave, Goto, OthersSame

LEMMA StepLock ==
  ASSUME TypeInv, LockProtects, NEW p \in Proc, Step(p)
  PROVE  LockProtects'
<1>0. SlotOf(p) \in Slot
  BY QueueType DEF TypeInv
<1> USE DEF HoldLoc
<1>1. CASE LockSleep(p)
  BY <1>1, Aside DEF LockSleep, OthersSame, At, Holds, LockLoc
<1>2. CASE LockAbort(p)
  BY <1>2, Aside, ReturnSame DEF LockAbort, At, Holds, LockLoc
<1>3. CASE ConvFail(p)
  BY <1>3, Release, ReturnSame DEF ConvFail, Locks, Unlock
<1>4. CASE msgctlRmid(p)
  <2>1. \A s \in Slot \ {SlotOf(p)} : msgque'[s] = msgque[s]
    BY <1>4 DEF msgctlRmid, TypeInv, MsgType
  <2> QED
    BY <1>4, <2>1, Release, ReturnSame DEF msgctlRmid, msgconv, Locks, Unlock
<1>5. CASE CtlCopy(p)
  <2>1. OthersSame(p) /\ pc'[p] = "ctlcopy"
    BY <1>5 DEF CtlCopy, Leave, OthersSame, TypeInv, MsgType
  <2> QED
    BY <1>5, <2>1, Acquire DEF CtlCopy, msgconv, Locks
<1>6. CASE CtlDone(p)
  <2>1. \A s \in Slot \ {SlotOf(p)} : msgque'[s] = msgque[s]
    BY <1>6 DEF CtlDone, TypeInv, MsgType
  <2> QED
    BY <1>6, <2>1, Release, ReturnSame DEF CtlDone, At, Holds, Unlock
<1>7. CASE RcvBegin(p)
  <2>1. OthersSame(p) /\ pc'[p] = "find"
    BY <1>7 DEF RcvBegin, Goto, OthersSame, TypeInv, MsgType
  <2> QED
    BY <1>7, <2>1, Release DEF RcvBegin, msgconv, Locks, Unlock
<1>8. CASE FindCopy(p)
  <2>1. PICK m \in Best(Queue(p).msgs, uap[p].typ) : smp' = [smp EXCEPT ![p] = m]
    BY <1>8 DEF FindCopy
  <2>2. m \in ToSet(Queue(p).msgs)
    BY DEF Best, ToSet
  <2>3. OthersSame(p) /\ pc'[p] = "rcvcopy" /\ smp'[p] = m
    BY <1>8, <2>1 DEF FindCopy, Leave, OthersSame, TypeInv, MsgType
  <2> QED
    BY <1>8, <2>2, <2>3, Acquire DEF FindCopy, msgconv, Locks
<1>9. CASE FindFail(p)
  BY <1>9, Release, ReturnSame DEF FindFail, msgconv, Locks, Unlock
<1>10. CASE FindSleep(p)
  <2>1. \A s \in Slot \ {SlotOf(p)} : msgque'[s] = msgque[s]
    BY <1>10 DEF FindSleep, TypeInv, MsgType
  <2>2. /\ OthersSame(p) /\ pc'[p] \in {"rsleep", "rintr"}
        /\ msglock' = [msglock EXCEPT ![SlotOf(p)] = FALSE]
    BY <1>10, UnlockSleepSame DEF FindSleep
  <2> QED
    BY <1>10, <2>1, <2>2, Release DEF FindSleep, msgconv, Locks
<1>11. CASE RcvAgain(p)
  <2>1. OthersSame(p) /\ pc'[p] \in {"rintr", "find"}
    BY <1>11 DEF RcvAgain, Goto, OthersSame, TypeInv, MsgType
  <2> QED
    BY <1>11, <2>1, Aside DEF RcvAgain, At, Holds
<1>12. CASE RcvIntr(p)
  BY <1>12, Aside, ReturnSame DEF RcvIntr, At, Holds
<1>13. CASE RcvDone(p)
  <2>1. \A s \in Slot \ {SlotOf(p)} : msgque'[s] = msgque[s]
    BY <1>13 DEF RcvDone, TypeInv, MsgType
  <2> QED
    BY <1>13, <2>1, Release, ReturnSame DEF RcvDone, At, Holds, Unlock
<1>14. CASE RcvFault(p)
  BY <1>14, Release, ReturnSame DEF RcvFault, At, Holds, Unlock
<1>15. CASE SndBegin(p)
  <2>1. OthersSame(p) /\ pc'[p] = "sndtype"
    BY <1>15 DEF SndBegin, Leave, OthersSame, TypeInv, MsgType
  <2> QED
    BY <1>15, <2>1, Acquire DEF SndBegin, msgconv, Locks
<1>16. CASE SndType(p)
  <2>1. OthersSame(p) /\ pc'[p] \in {"getres", "user"}
    BY <1>16, ReturnSame DEF SndType, Goto, OthersSame, TypeInv, MsgType
  <2> QED
    BY <1>16, <2>1, Release DEF SndType, At, Holds, Unlock
<1>17. CASE GetresFail(p)
  BY <1>17, Release, ReturnSame DEF GetresFail, msgconv, Locks, Unlock
<1>18. CASE GetresFull(p)
  <2>1. \A s \in Slot \ {SlotOf(p)} : msgque'[s] = msgque[s]
    BY <1>18 DEF GetresFull, TypeInv, MsgType
  <2>2. /\ OthersSame(p) /\ pc'[p] \in {"wsleep", "wintr"}
        /\ msglock' = [msglock EXCEPT ![SlotOf(p)] = FALSE]
    BY <1>18, UnlockSleepSame DEF GetresFull
  <2> QED
    BY <1>18, <2>1, <2>2, Release DEF GetresFull, msgconv, Locks
<1>19. CASE GetresNoHeader(p)
  <2>1. /\ OthersSame(p) /\ pc'[p] \in {"fsleep", "intr"}
        /\ msglock' = [msglock EXCEPT ![SlotOf(p)] = FALSE]
    BY <1>19, UnlockSleepSame DEF GetresNoHeader
  <2> QED
    BY <1>19, <2>1, Release DEF GetresNoHeader, msgconv, Locks
<1>20. CASE GetresNoText(p)
  <2>1. /\ OthersSame(p) /\ pc'[p] \in {"fsleep", "intr"}
        /\ msglock' = [msglock EXCEPT ![SlotOf(p)] = FALSE]
    BY <1>20, UnlockSleepSame DEF GetresNoText
  <2> QED
    BY <1>20, <2>1, Release DEF GetresNoText, msgconv, Locks
<1>21. CASE GetresCopy(p)
  <2>1. OthersSame(p) /\ pc'[p] = "sndtext"
    BY <1>21 DEF GetresCopy, OthersSame, TypeInv, MsgType
  <2> QED
    BY <1>21, <2>1, Acquire DEF GetresCopy, msgconv, Locks
<1>22. CASE SndDone(p)
  <2>1. \A s \in Slot \ {SlotOf(p)} : msgque'[s] = msgque[s]
    BY <1>22 DEF SndDone, TypeInv, MsgType
  <2> QED
    BY <1>22, <2>1, Release, ReturnSame DEF SndDone, At, Holds, Unlock
<1>23. CASE SndFault(p)
  BY <1>23, Release, ReturnSame DEF SndFault, At, Holds, Unlock
<1>24. CASE SndAgain(p)
  <2>1. OthersSame(p) /\ pc'[p] \in {"wintr", "intr", "getres"}
    BY <1>24 DEF SndAgain, Goto, OthersSame, TypeInv, MsgType
  <2> QED
    BY <1>24, <2>1, Aside DEF SndAgain, At, Holds
<1>25. CASE SndIntr(p)
  <2>1. \A s \in Slot \ {SlotOf(p)} : msgque'[s] = msgque[s]
    BY <1>25 DEF SndIntr, TypeInv, MsgType
  <2> QED
    BY <1>25, <2>1, Release, ReturnSame DEF SndIntr, msgconv, Locks, Unlock
<1> QED
  BY ONLY Step(p), <1>1, <1>2, <1>3, <1>4, <1>5, <1>6, <1>7, <1>8, <1>9, <1>10, <1>11, <1>12, <1>13,
     <1>14, <1>15, <1>16, <1>17, <1>18, <1>19, <1>20, <1>21, <1>22, <1>23, <1>24, <1>25
     DEF Step

LEMMA RequestLock ==
  ASSUME TypeInv, LockProtects, NEW p \in Proc, Request(p)
  PROVE  LockProtects'
<1>1. CASE msgget(p)
  <2>1. \A s \in Slot : msgque[s].alloc => msgque'[s] = msgque[s]
    BY <1>1 DEF msgget, TypeInv, MsgType
  <2> QED
    BY <1>1, <2>1, Aside DEF msgget, proc, OthersSame, Holds, HoldLoc
<1>2. ASSUME NEW c, Call(p, c) PROVE LockProtects'
  <2>1. OthersSame(p) /\ pc'[p] = "conv"
    BY <1>2 DEF Call, Goto, OthersSame, TypeInv, MsgType
  <2> QED
    BY <1>2, <2>1, Aside DEF Call, Holds, HoldLoc
<1> QED
  BY <1>1, <1>2 DEF Request, msgctl, msgrcv, msgsnd

\* What the other invariants build on.
Base == TypeInv /\ LockProtects

LEMMA BaseInit == Init => Base
  BY InitType DEF Init, Base, LockProtects, Holds

LEMMA BaseStep == ASSUME Base, [Next]_vars PROVE Base'
<1> USE DEF Base
<1>1. CASE UNCHANGED vars
  BY <1>1, SMTT(30) DEF vars, pool, proc, hist, TypeInv, MsgType, CopyOK, LockProtects, Holds,
              SlotOf, Queue, Valid, ToSet
<1>2. ASSUME NEW p \in Proc, Request(p) PROVE Base'
  BY <1>2, RequestType, RequestLock
<1>3. ASSUME NEW p \in Proc, Step(p) PROVE Base'
  BY <1>3, StepLock, StepTypeQuiet, StepTypeQueue DEF Step
<1>4. ASSUME NEW p \in Proc, psignal(p) PROVE Base'
  <2>1. TypeInv'
    BY <1>4, StepTypeQuiet
  <2>2. LockProtects'
    BY <1>4, SMTT(30) DEF psignal, proc, LockProtects, Holds, SlotOf, Queue, Valid, ToSet
  <2> QED
    BY <2>1, <2>2
<1> QED
  BY <1>1, <1>2, <1>3, <1>4 DEF Next

\* The lock is held exactly by the one process that copies, and protects its
\* queue and its message meanwhile.
THEOREM LockTheorem == Spec => []LockProtects
<1>1. Base => LockProtects
  BY DEF Base
<1> QED
  BY <1>1, BaseInit, BaseStep, PTL DEF Spec
-----------------------------------------------------------------------------
(* Sleep and wakeup *)

QNum(q) == <<"qnum", SlotOf(q)>>
Qp(q) == <<"qp", SlotOf(q)>>

\* A process sleeps on a channel of its queue or of the pool.
Asleep(q) ==
  wchan[q] # None =>
    /\ pc[q] # "user"
    /\ wchan[q] \in {Lockp(q), QNum(q), Qp(q), <<"msgfp", 0>>, <<"msgmap", 0>>}
    /\ pc[q] = "rsleep" => wchan[q] = QNum(q)

ReaderOK(q) == wchan[q] = QNum(q) => Valid(uap[q].id) /\ Queue(q).rwait /\ NoMatch(q)

WriterOK(q) ==
  /\ wchan[q] = Qp(q) => Valid(uap[q].id) /\ Queue(q).wwait /\ Full(q)
  /\ wchan[q] = <<"msgfp", 0>> => msgfp = 0
  /\ wchan[q] = <<"msgmap", 0>> => mapwant /\ NoText(q)

\* A step of p leaves the calls of the others alone, and only wakes them.
OthersWake(p) ==
  \A q \in Proc \ {p} :
    pc'[q] = pc[q] /\ uap'[q] = uap[q] /\ (wchan'[q] = wchan[q] \/ wchan'[q] = None)

\* p does not sleep after its step.
SelfAwake(p) == wchan'[p] = None

LEMMA UnlockWakes ==
  ASSUME TypeInv, NEW p \in Proc, NEW chans, Unlock(p, chans), wchan[p] = None,
         \A q \in Proc \ {p} : pc'[q] = pc[q] /\ uap'[q] = uap[q]
  PROVE  OthersWake(p) /\ SelfAwake(p)
  BY DEF Unlock, Awake, OthersWake, SelfAwake

LEMMA ReturnWakes ==
  ASSUME TypeInv, NEW p \in Proc, Return(p), wchan[p] = None,
         wchan' = wchan \/ \E chans : Unlock(p, chans)
  PROVE  OthersWake(p) /\ SelfAwake(p)
  BY UnlockWakes DEF Return, Leave, OthersWake, SelfAwake, TypeInv, MsgType

LEMMA UnlockSleepWakes ==
  ASSUME TypeInv, NEW p \in Proc, NEW chan, NEW wakes, NEW slept, NEW intr, wchan[p] = None,
         UnlockSleep(p, chan, wakes, slept, intr), UNCHANGED uap
  PROVE  /\ OthersWake(p)
         /\ SelfAwake(p) \/ (wchan'[p] = chan /\ pc'[p] = slept)
<1>1. pc \in [Proc -> Loc] /\ wchan \in [Proc -> Chan \cup {None}]
  BY DEF TypeInv, MsgType
<1>2. CASE p \notin sig /\ Leave(p, slept) /\ wchan' = [Awake(wakes \cup {Lockp(p)}) EXCEPT ![p] = chan]
  BY <1>1, <1>2 DEF Leave, Awake, OthersWake
<1>3. CASE p \in sig /\ Goto(p, intr) /\ wchan' = Awake(wakes \cup {Lockp(p)})
  BY <1>1, <1>3 DEF Goto, Awake, OthersWake, SelfAwake
<1> QED
  BY <1>2, <1>3 DEF UnlockSleep

\* Every step but the five sleeps leaves its process awake.
LEMMA StepWakes ==
  ASSUME TypeInv, NEW p \in Proc, Step(p)
  PROVE  /\ OthersWake(p) /\ wchan[p] = None
         /\ \/ SelfAwake(p)
            \/ LockSleep(p) /\ wchan'[p] = Lockp(p) /\ pc'[p] \in LockLoc
            \/ FindSleep(p) /\ wchan'[p] = QNum(p) /\ pc'[p] = "rsleep"
            \/ GetresFull(p) /\ wchan'[p] = Qp(p) /\ pc'[p] = "wsleep"
            \/ GetresNoHeader(p) /\ wchan'[p] = <<"msgfp", 0>> /\ pc'[p] = "fsleep"
            \/ GetresNoText(p) /\ wchan'[p] = <<"msgmap", 0>> /\ pc'[p] = "fsleep"
<1>0. wchan[p] = None
  <2> USE DEF At, Locks, msgconv
  <2>1. CASE LockSleep(p) \/ LockAbort(p) \/ ConvFail(p) \/ msgctlRmid(p) \/ CtlCopy(p)
             \/ CtlDone(p) \/ RcvBegin(p) \/ FindCopy(p) \/ FindFail(p) \/ FindSleep(p)
    BY <2>1 DEF LockSleep, LockAbort, ConvFail, msgctlRmid, CtlCopy, CtlDone, RcvBegin,
                FindCopy, FindFail, FindSleep
  <2>2. CASE RcvAgain(p) \/ RcvIntr(p) \/ RcvDone(p) \/ RcvFault(p) \/ SndBegin(p) \/ SndType(p)
             \/ GetresFail(p) \/ GetresFull(p)
    BY <2>2 DEF RcvAgain, RcvIntr, RcvDone, RcvFault, SndBegin, SndType, GetresFail, GetresFull
  <2>3. CASE GetresNoHeader(p) \/ GetresNoText(p) \/ GetresCopy(p) \/ SndDone(p) \/ SndFault(p)
             \/ SndAgain(p) \/ SndIntr(p)
    BY <2>3 DEF GetresNoHeader, GetresNoText, GetresCopy, SndDone, SndFault, SndAgain, SndIntr
  <2> QED
    BY <2>1, <2>2, <2>3 DEF Step
<1>1. CASE LockSleep(p)
  BY <1>0, <1>1 DEF LockSleep, At, OthersWake, TypeInv, MsgType
<1>2. CASE LockAbort(p)
  BY <1>0, <1>2, ReturnWakes DEF LockAbort
<1>3. CASE ConvFail(p)
  BY <1>0, <1>3, ReturnWakes DEF ConvFail
<1>4. CASE msgctlRmid(p)
  BY <1>0, <1>4, ReturnWakes DEF msgctlRmid
<1>5. CASE CtlCopy(p)
  BY <1>0, <1>5 DEF CtlCopy, Leave, OthersWake, SelfAwake, TypeInv, MsgType
<1>6. CASE CtlDone(p)
  BY <1>0, <1>6, ReturnWakes DEF CtlDone
<1>7. CASE RcvBegin(p)
  BY <1>0, <1>7, UnlockWakes DEF RcvBegin, Goto, TypeInv, MsgType
<1>8. CASE FindCopy(p)
  BY <1>0, <1>8 DEF FindCopy, Leave, OthersWake, SelfAwake, TypeInv, MsgType
<1>9. CASE FindFail(p)
  BY <1>0, <1>9, ReturnWakes DEF FindFail
<1>10. CASE FindSleep(p)
  BY <1>0, <1>10, UnlockSleepWakes DEF FindSleep, QNum
<1>11. CASE RcvAgain(p)
  BY <1>0, <1>11 DEF RcvAgain, Goto, OthersWake, SelfAwake, TypeInv, MsgType
<1>12. CASE RcvIntr(p)
  BY <1>0, <1>12, ReturnWakes DEF RcvIntr
<1>13. CASE RcvDone(p)
  BY <1>0, <1>13, ReturnWakes DEF RcvDone
<1>14. CASE RcvFault(p)
  BY <1>0, <1>14, ReturnWakes DEF RcvFault
<1>15. CASE SndBegin(p)
  BY <1>0, <1>15 DEF SndBegin, Leave, OthersWake, SelfAwake, TypeInv, MsgType
<1>16. CASE SndType(p)
  <2>1. CASE Return(p)
    BY <1>0, <1>16, <2>1, ReturnWakes DEF SndType
  <2>2. CASE Goto(p, "getres") /\ UNCHANGED uap
    BY <1>0, <1>16, <2>2, UnlockWakes DEF SndType, Goto, TypeInv, MsgType
  <2> QED
    BY <1>16, <2>1, <2>2 DEF SndType
<1>17. CASE GetresFail(p)
  BY <1>0, <1>17, ReturnWakes DEF GetresFail
<1>18. CASE GetresFull(p)
  BY <1>0, <1>18, UnlockSleepWakes DEF GetresFull, Qp
<1>19. CASE GetresNoHeader(p)
  BY <1>0, <1>19, UnlockSleepWakes DEF GetresNoHeader
<1>20. CASE GetresNoText(p)
  BY <1>0, <1>20, UnlockSleepWakes DEF GetresNoText
<1>21. CASE GetresCopy(p)
  BY <1>0, <1>21 DEF GetresCopy, OthersWake, SelfAwake, TypeInv, MsgType
<1>22. CASE SndDone(p)
  BY <1>0, <1>22, ReturnWakes DEF SndDone
<1>23. CASE SndFault(p)
  BY <1>0, <1>23, ReturnWakes DEF SndFault
<1>24. CASE SndAgain(p)
  BY <1>0, <1>24 DEF SndAgain, Goto, OthersWake, SelfAwake, TypeInv, MsgType
<1>25. CASE SndIntr(p)
  BY <1>0, <1>25, ReturnWakes DEF SndIntr
<1> QED
  BY ONLY Step(p), <1>0, <1>1, <1>2, <1>3, <1>4, <1>5, <1>6, <1>7, <1>8, <1>9, <1>10, <1>11,
     <1>12, <1>13, <1>14, <1>15, <1>16, <1>17, <1>18, <1>19, <1>20, <1>21, <1>22, <1>23,
     <1>24, <1>25 DEF Step

\* Requests and signals put nobody to sleep.
LEMMA RequestWakes ==
  ASSUME TypeInv, \A q \in Proc : Asleep(q), NEW p \in Proc, Request(p) \/ psignal(p)
  PROVE  OthersWake(p) /\ SelfAwake(p)
<1>1. CASE psignal(p)
  BY <1>1 DEF psignal, proc, OthersWake, SelfAwake, TypeInv, MsgType
<1>2. CASE msgget(p)
  BY <1>2 DEF msgget, proc, OthersWake, SelfAwake, Asleep
<1>3. ASSUME NEW c, Call(p, c) PROVE OthersWake(p) /\ SelfAwake(p)
  BY <1>3 DEF Call, Goto, OthersWake, SelfAwake, Asleep, TypeInv, MsgType
<1> QED
  BY <1>1, <1>2, <1>3 DEF Request, msgctl, msgrcv, msgsnd
SleepInv == \A q \in Proc : Asleep(q)

LEMMA SleepStep ==
  ASSUME TypeInv, SleepInv, NEW p \in Proc, Request(p) \/ Step(p) \/ psignal(p)
  PROVE  SleepInv'
<1>1. ASSUME NEW q \in Proc, OthersWake(p), q # p PROVE Asleep(q)'
  BY <1>1 DEF SleepInv, Asleep, OthersWake, Lockp, QNum, Qp, SlotOf
<1>2. ASSUME SelfAwake(p) PROVE Asleep(p)'
  BY <1>2 DEF SelfAwake, Asleep
<1>3. CASE Request(p) \/ psignal(p)
  BY <1>1, <1>2, <1>3, RequestWakes DEF SleepInv
<1>4. CASE Step(p)
  <2>1. OthersWake(p)
    BY <1>4, StepWakes
  <2>2. Asleep(p)'
    <3> USE DEF Asleep, Lockp, QNum, Qp, SlotOf
    <3>1. CASE SelfAwake(p)
      BY <3>1 DEF SelfAwake
    <3>2. CASE LockSleep(p) /\ wchan'[p] = Lockp(p) /\ pc'[p] \in LockLoc
      BY <3>2 DEF LockSleep, LockLoc
    <3>3. CASE FindSleep(p) /\ wchan'[p] = QNum(p) /\ pc'[p] = "rsleep"
      BY <3>3 DEF FindSleep
    <3>4. CASE GetresFull(p) /\ wchan'[p] = Qp(p) /\ pc'[p] = "wsleep"
      BY <3>4 DEF GetresFull
    <3>5. CASE GetresNoHeader(p) /\ wchan'[p] = <<"msgfp", 0>> /\ pc'[p] = "fsleep"
      BY <3>5
    <3>6. CASE GetresNoText(p) /\ wchan'[p] = <<"msgmap", 0>> /\ pc'[p] = "fsleep"
      BY <3>6
    <3> QED
      BY <1>4, <3>1, <3>2, <3>3, <3>4, <3>5, <3>6, StepWakes
  <2> QED
    BY <1>1, <2>1, <2>2 DEF SleepInv
<1> QED
  BY <1>3, <1>4

-----------------------------------------------------------------------------
(* Readers *)

\* A step of p after which a reader q of another or the same queue is still
\* asleep with reason: the queue is the same, still has a reader to remember
\* and got no message.
LEMMA ReaderKept ==
  ASSUME TypeInv, NEW p \in Proc, NEW q \in Proc, q # p, OthersWake(p), ReaderOK(q),
         wchan'[q] = QNum(q) =>
           LET a == msgque[SlotOf(q)] b == msgque'[SlotOf(q)] IN
             \/ b = a
             \/ /\ a.alloc /\ a.rwait => b.alloc /\ b.seq = a.seq /\ b.rwait
                /\ \A k \in DOMAIN b.msgs : \E j \in DOMAIN a.msgs : b.msgs[k] = a.msgs[j]
  PROVE  ReaderOK(q)'
<1>1. SUFFICES ASSUME wchan'[q] = QNum(q)' PROVE (Valid(uap[q].id) /\ Queue(q).rwait /\ NoMatch(q))'
  BY DEF ReaderOK
<1>2. uap'[q] = uap[q] /\ SlotOf(q)' = SlotOf(q) /\ QNum(q)' = QNum(q)
  BY DEF OthersWake, SlotOf, QNum
<1>3. wchan[q] = QNum(q)
  <2>1. QNum(q) # None
    BY QueueType, MsgAssumption DEF TypeInv, QNum, Chan
  <2> QED
    BY <1>1, <1>2, <2>1 DEF OthersWake
<1>4. Valid(uap[q].id) /\ Queue(q).rwait /\ NoMatch(q)
  BY <1>3 DEF ReaderOK
<1>5. (Valid(uap[q].id) /\ Queue(q).rwait)'
  BY <1>1, <1>2, <1>4 DEF Valid, Queue, SlotOf
<1>6. NoMatch(q)'
  BY <1>1, <1>2, <1>4 DEF NoMatch, Queue, Match
<1> QED
  BY <1>5, <1>6

\* Only these steps change a queue.
LEMMA QueueSteps ==
  ASSUME NEW p \in Proc, Step(p)
  PROVE  \/ msgque' = msgque
         \/ msgctlRmid(p) \/ CtlDone(p) \/ FindSleep(p) \/ RcvDone(p)
         \/ GetresFull(p) \/ SndDone(p) \/ SndIntr(p)
<1>1. CASE LockSleep(p) \/ LockAbort(p) \/ ConvFail(p) \/ CtlCopy(p) \/ RcvBegin(p)
           \/ FindCopy(p) \/ FindFail(p) \/ RcvAgain(p) \/ RcvIntr(p) \/ RcvFault(p)
  BY <1>1 DEF LockSleep, LockAbort, ConvFail, CtlCopy, RcvBegin, FindCopy, FindFail,
              RcvAgain, RcvIntr, RcvFault
<1>2. CASE SndBegin(p) \/ SndType(p) \/ GetresFail(p) \/ GetresNoHeader(p)
           \/ GetresNoText(p) \/ GetresCopy(p) \/ SndFault(p) \/ SndAgain(p)
  BY <1>2 DEF SndBegin, SndType, GetresFail, GetresNoHeader, GetresNoText, GetresCopy,
              SndFault, SndAgain
<1> QED
  BY <1>1, <1>2 DEF Step

ReaderInv == \A q \in Proc : ReaderOK(q)

\* A wakeup on channels that include that of q wakes q.
LEMMA AwakeQ ==
  ASSUME TypeInv, NEW p \in Proc, NEW q \in Proc, NEW chans, Unlock(p, chans),
         wchan[q] \in chans
  PROVE  wchan'[q] = None
  BY DEF Unlock, Awake

LEMMA ReaderOthers ==
  ASSUME TypeInv, ReaderInv, NEW p \in Proc, Step(p), NEW q \in Proc, q # p
  PROVE  ReaderOK(q)'
<1>0. OthersWake(p) /\ ReaderOK(q) /\ SlotOf(p) \in Slot /\ SlotOf(q) \in Slot
  BY StepWakes, QueueType DEF ReaderInv, TypeInv
<1> DEFINE a == msgque[SlotOf(q)]
           b == msgque'[SlotOf(q)]
<1>1. CASE b = a
  BY <1>0, <1>1, ReaderKept
<1>2. CASE SlotOf(q) = SlotOf(p) /\ wchan'[q] = QNum(q) /\ b # a
  <2>0. wchan[q] = QNum(q) /\ QNum(q) # None /\ a.rwait
    <3>1. QNum(q) # None
      BY <1>0, MsgAssumption DEF QNum, Chan
    <3>2. wchan[q] = QNum(q)
      BY <1>0, <1>2, <3>1 DEF OthersWake
    <3> QED
      BY <1>0, <3>1, <3>2 DEF ReaderOK, Queue
  <2>1. CASE msgctlRmid(p)
    <3>1. QNum(q) \in If(Queue(p).rwait, <<"qnum", SlotOf(p)>>)
      BY <1>2, <2>0 DEF QNum, If, Queue
    <3> QED
      BY <1>2, <2>0, <2>1, <3>1, AwakeQ DEF msgctlRmid
  <2>2. CASE SndDone(p)
    <3>1. QNum(q) \in If(Queue(p).rwait, <<"qnum", SlotOf(p)>>)
      BY <1>2, <2>0 DEF QNum, If, Queue
    <3> QED
      BY <1>2, <2>0, <2>2, <3>1, AwakeQ DEF SndDone
  <2>3. CASE CtlDone(p)
    <3>1. b.alloc = a.alloc /\ b.seq = a.seq /\ b.rwait = a.rwait /\ b.msgs = a.msgs
      BY <1>0, <1>2, <2>3 DEF CtlDone, TypeInv, MsgType, QueueRec
    <3> QED
      BY <1>0, <3>1, ReaderKept
  <2>4. CASE FindSleep(p)
    <3>1. b.alloc = a.alloc /\ b.seq = a.seq /\ b.rwait /\ b.msgs = a.msgs
      BY <1>0, <1>2, <2>4 DEF FindSleep, TypeInv, MsgType, QueueRec
    <3> QED
      BY <1>0, <3>1, ReaderKept
  <2>5. CASE GetresFull(p) \/ SndIntr(p)
    <3>1. b.alloc = a.alloc /\ b.seq = a.seq /\ b.rwait = a.rwait /\ b.msgs = a.msgs
      BY <1>0, <1>2, <2>5 DEF GetresFull, SndIntr, TypeInv, MsgType, QueueRec
    <3> QED
      BY <1>0, <3>1, ReaderKept
  <2>6. CASE RcvDone(p)
    <3>1. /\ b.alloc = a.alloc /\ b.seq = a.seq /\ b.rwait = a.rwait
          /\ b.msgs = Unlinked(a.msgs, smp[p])
      BY <1>0, <1>2, <2>6 DEF RcvDone, Queue, TypeInv, MsgType
    <3>2. ToSet(b.msgs) \subseteq ToSet(a.msgs)
      BY <1>0, <3>1, UnlinkedType, QueueType DEF TypeInv, Queue
    <3>3. \A k \in DOMAIN b.msgs : \E j \in DOMAIN a.msgs : b.msgs[k] = a.msgs[j]
      BY <3>2 DEF ToSet
    <3> QED
      BY <1>0, <3>1, <3>3, ReaderKept
  <2> QED
    BY <1>2, <2>1, <2>2, <2>3, <2>4, <2>5, <2>6, QueueSteps
<1>3. CASE SlotOf(q) # SlotOf(p)
  <2>1. b = a
    <3>1. CASE msgque' = msgque
      BY <3>1
    <3>2. CASE msgctlRmid(p) \/ RcvDone(p) \/ SndDone(p)
      BY <1>0, <1>3, <3>2 DEF msgctlRmid, RcvDone, SndDone, TypeInv, MsgType
    <3>3. CASE CtlDone(p) \/ FindSleep(p) \/ GetresFull(p) \/ SndIntr(p)
      BY <1>0, <1>3, <3>3 DEF CtlDone, FindSleep, GetresFull, SndIntr, TypeInv, MsgType
    <3> QED
      BY <3>1, <3>2, <3>3, QueueSteps
  <2> QED
    BY <1>1, <2>1
<1>4. CASE wchan'[q] # QNum(q)
  BY <1>0, <1>4, ReaderKept
<1> QED
  BY <1>1, <1>2, <1>3, <1>4

LEMMA ReaderStep ==
  ASSUME TypeInv, SleepInv, ReaderInv, NEW p \in Proc, Request(p) \/ Step(p) \/ psignal(p)
  PROVE  ReaderInv'
<1>0. ASSUME SelfAwake(p) PROVE ReaderOK(p)'
  <2>1. uap' \in [Proc -> CallRec] => QNum(p)' \in Chan
    BY DEF QNum, SlotOf, CallRec, Chan
  <2>2. TypeInv'
    BY RequestType, StepTypeQuiet, StepTypeQueue DEF Step
  <2> QED
    BY <1>0, <2>1, <2>2, MsgAssumption DEF SelfAwake, ReaderOK, TypeInv, MsgType
<1>1. CASE Step(p)
  <2>1. \A q \in Proc \ {p} : ReaderOK(q)'
    BY <1>1, ReaderOthers
  <2>2. ReaderOK(p)'
    <3>1. CASE FindSleep(p) /\ wchan'[p] = QNum(p) /\ pc'[p] = "rsleep"
      <4>1. /\ uap' = uap /\ Valid(uap[p].id) /\ NoMatch(p)
            /\ msgque' = [msgque EXCEPT ![SlotOf(p)].rwait = TRUE]
        BY <3>1 DEF FindSleep, msgconv
      <4>2. /\ Queue(p)'.alloc = Queue(p).alloc /\ Queue(p)'.seq = Queue(p).seq
            /\ Queue(p)'.rwait /\ Queue(p)'.msgs = Queue(p).msgs
        BY <4>1, QueueType DEF TypeInv, MsgType, QueueRec, Queue, SlotOf
      <4> QED
        BY <4>1, <4>2 DEF ReaderOK, Valid, NoMatch, Queue, SlotOf
    <3>2. CASE UNCHANGED uap /\ wchan'[p] # QNum(p)
      BY <3>2 DEF ReaderOK, QNum, SlotOf
    <3>3. CASE LockSleep(p) /\ wchan'[p] = Lockp(p)
      BY <3>2, <3>3 DEF LockSleep, Lockp, QNum
    <3>4. CASE GetresFull(p) /\ wchan'[p] = Qp(p)
      BY <3>2, <3>4 DEF GetresFull, Qp, QNum
    <3>5. CASE \/ GetresNoHeader(p) /\ wchan'[p] = <<"msgfp", 0>>
               \/ GetresNoText(p) /\ wchan'[p] = <<"msgmap", 0>>
      BY <3>2, <3>5 DEF GetresNoHeader, GetresNoText, QNum
    <3> QED
      BY <1>0, <1>1, <3>1, <3>3, <3>4, <3>5, StepWakes
  <2> QED
    BY <2>1, <2>2 DEF ReaderInv
<1>2. CASE Request(p) \/ psignal(p)
  <2>1. OthersWake(p) /\ SelfAwake(p)
    BY <1>2, RequestWakes DEF SleepInv
  <2>2. ASSUME NEW q \in Proc, q # p PROVE ReaderOK(q)'
    <3>1. CASE msgque' = msgque
      BY <2>1, <2>2, <3>1, ReaderKept DEF ReaderInv
    <3>2. CASE msgget(p) /\ wchan[q] = QNum(q)
      <4>1. msgque[SlotOf(q)].alloc
        BY <3>2 DEF ReaderInv, ReaderOK, Valid, SlotOf
      <4>2. msgque'[SlotOf(q)] = msgque[SlotOf(q)]
        BY <3>2, <4>1, QueueType DEF msgget, TypeInv, MsgType
      <4> QED
        BY <2>1, <2>2, <4>2, ReaderKept DEF ReaderInv
    <3>3. CASE msgget(p) /\ wchan[q] # QNum(q)
      BY <3>3 DEF msgget, proc, ReaderOK, QNum, SlotOf
    <3> QED
      BY <1>2, <3>1, <3>2, <3>3 DEF Request, Call, msgctl, msgrcv, msgsnd, psignal
  <2> QED
    BY <1>0, <2>1, <2>2 DEF ReaderInv
<1> QED
  BY <1>1, <1>2

\* No reader sleeps while a message for it is on its queue, or after its
\* queue is gone.
THEOREM ReaderTheorem == Spec => []ReaderBlocked
<1> DEFINE Inv == TypeInv /\ SleepInv /\ ReaderInv
<1>1. Init => Inv
  <2> SUFFICES ASSUME Init PROVE Inv
    OBVIOUS
  <2>1. TypeInv
    BY InitType
  <2>2. \A q \in Proc : wchan[q] = None /\ QNum(q) \in Chan
    BY <2>1, QueueType DEF Init, TypeInv, QNum, Chan
  <2> QED
    BY <2>1, <2>2, MsgAssumption DEF SleepInv, Asleep, ReaderInv, ReaderOK
<1>2. Inv /\ [Next]_vars => Inv'
  <2> SUFFICES ASSUME Inv, [Next]_vars PROVE Inv'
    OBVIOUS
  <2>1. CASE UNCHANGED vars
    BY <2>1 DEF vars, pool, proc, hist, TypeInv, MsgType, CopyOK, SleepInv, Asleep, ReaderInv,
                ReaderOK, SlotOf, Queue, Valid, NoMatch, Match, QNum, Qp, Lockp
  <2>2. ASSUME NEW p \in Proc, Request(p) \/ Step(p) \/ psignal(p) PROVE Inv'
    <3>1. TypeInv'
      BY <2>2, RequestType, StepTypeQuiet, StepTypeQueue DEF Step
    <3> QED
      BY <2>2, <3>1, SleepStep, ReaderStep
  <2> QED
    BY <2>1, <2>2 DEF Next
<1>3. Inv => ReaderBlocked
  BY DEF SleepInv, Asleep, ReaderInv, ReaderOK, ReaderBlocked
<1> QED
  BY <1>1, <1>2, <1>3, PTL DEF Spec
-----------------------------------------------------------------------------
(* Writers.  IPC_SET wakes no writer when it raises msg_qbytes, so that    *)
(* writers only sleep with reason if it never does.                        *)

\* IPC_SET sets msg_qbytes to one value, not above the value of a new queue.
OneLimit == \A m, n \in QBytes : m = n /\ n <= MSGMNB

LimitInv == \A s \in Slot : msgque[s].alloc => msgque[s].qbytes \in QBytes \cup {MSGMNB}

WriterInv == \A q \in Proc : WriterOK(q)

LEMMA LimitStep ==
  ASSUME TypeInv, LimitInv, NEW p \in Proc, Request(p) \/ Step(p) \/ psignal(p)
  PROVE  LimitInv'
<1>0. SlotOf(p) \in Slot
  BY QueueType DEF TypeInv
<1>1. CASE msgque' = msgque
  BY <1>1 DEF LimitInv
<1>2. CASE msgget(p)
  BY <1>2 DEF msgget, LimitInv, TypeInv, MsgType
<1>3. CASE msgctlRmid(p)
  BY <1>0, <1>3 DEF msgctlRmid, Removed, LimitInv, TypeInv, MsgType
<1>4. CASE CtlDone(p)
  BY <1>0, <1>4, ZenonT(30) DEF CtlDone, LimitInv, TypeInv, MsgType, QueueRec
<1>5. CASE FindSleep(p) \/ GetresFull(p) \/ SndIntr(p)
  <2>1. CASE FindSleep(p)
    BY <1>0, <2>1 DEF FindSleep, LimitInv, TypeInv, MsgType, QueueRec
  <2>2. CASE GetresFull(p)
    BY <1>0, <2>2 DEF GetresFull, LimitInv, TypeInv, MsgType, QueueRec
  <2>3. CASE SndIntr(p)
    <3>1. CASE msgque' = [msgque EXCEPT ![SlotOf(p)].wwait = FALSE]
      BY <1>0, <3>1 DEF LimitInv, TypeInv, MsgType, QueueRec
    <3> QED
      BY <1>1, <2>3, <3>1 DEF SndIntr
  <2> QED
    BY <1>5, <2>1, <2>2, <2>3
<1>6. CASE RcvDone(p) \/ SndDone(p)
  <2>1. /\ msgque'[SlotOf(p)].alloc = Queue(p).alloc
        /\ msgque'[SlotOf(p)].qbytes = Queue(p).qbytes
        /\ \A s \in Slot \ {SlotOf(p)} : msgque'[s] = msgque[s]
    BY <1>0, <1>6 DEF RcvDone, SndDone, TypeInv, MsgType
  <2> QED
    BY <1>0, <2>1 DEF LimitInv, Queue
<1> QED
  BY <1>1, <1>2, <1>3, <1>4, <1>5, <1>6, QueueSteps
     DEF Request, Call, msgctl, msgrcv, msgsnd, psignal

\* Whoever still sleeps for headers or segments after a step of p slept for
\* them before, and found no more of them.
PoolKept(q) ==
  /\ wchan'[q] = <<"msgfp", 0>> /\ msgfp = 0 => msgfp' = 0
  /\ wchan'[q] = <<"msgmap", 0>> /\ mapwant => mapwant' /\ msgmap' \subseteq msgmap

LEMMA FreeKept ==
  ASSUME TypeInv, NEW p \in Proc, NEW q \in Proc, q # p, OthersWake(p),
         NEW n \in Nat, NEW segs, Free(n, segs),
         NEW more, Unlock(p, FreeWakes(n, segs) \cup more)
  PROVE  PoolKept(q)
<1>0. <<"msgfp", 0>> # None /\ <<"msgmap", 0>> # None
  BY MsgAssumption DEF Chan
<1>1. ASSUME wchan'[q] = <<"msgfp", 0>>, msgfp = 0 PROVE msgfp' = 0
  <2>1. wchan[q] = <<"msgfp", 0>>
    BY <1>0, <1>1 DEF OthersWake
  <2>2. CASE n > 0
    <3>1. <<"msgfp", 0>> \in FreeWakes(n, segs)
      BY <1>1, <2>2 DEF FreeWakes, If
    <3> QED
      BY <1>0, <1>1, <2>1, <3>1, AwakeQ
  <2> QED
    BY <1>1, <2>2 DEF Free
<1>2. ASSUME wchan'[q] = <<"msgmap", 0>>, mapwant PROVE mapwant' /\ msgmap' \subseteq msgmap
  <2>1. wchan[q] = <<"msgmap", 0>>
    BY <1>0, <1>2 DEF OthersWake
  <2>2. CASE segs # {}
    <3>1. <<"msgmap", 0>> \in FreeWakes(n, segs)
      BY <1>2, <2>2 DEF FreeWakes, If
    <3> QED
      BY <1>0, <1>2, <2>1, <3>1, AwakeQ
  <2> QED
    BY <1>2, <2>2 DEF Free
<1> QED
  BY <1>1, <1>2 DEF PoolKept

LEMMA PoolStep ==
  ASSUME TypeInv, NEW p \in Proc, Step(p), NEW q \in Proc, q # p
  PROVE  PoolKept(q)
<1>0. OthersWake(p)
  BY StepWakes
<1>1. CASE UNCHANGED pool
  BY <1>1 DEF pool, PoolKept
<1>2. CASE msgctlRmid(p)
  <2> DEFINE segs == UNION {Text(Queue(p).msgs[j]) : j \in DOMAIN Queue(p).msgs}
             more == If(Queue(p).rwait, <<"qnum", SlotOf(p)>>)
                     \cup If(Queue(p).wwait, <<"qp", SlotOf(p)>>)
  <2>1. /\ Free(Len(Queue(p).msgs), segs)
        /\ Unlock(p, (FreeWakes(Len(Queue(p).msgs), segs)
                        \cup If(Queue(p).rwait, <<"qnum", SlotOf(p)>>))
                        \cup If(Queue(p).wwait, <<"qp", SlotOf(p)>>))
    BY <1>2 DEF msgctlRmid
  <2>2. Len(Queue(p).msgs) \in Nat
    BY QueueType DEF TypeInv
  <2>3. (FreeWakes(Len(Queue(p).msgs), segs) \cup If(Queue(p).rwait, <<"qnum", SlotOf(p)>>))
          \cup If(Queue(p).wwait, <<"qp", SlotOf(p)>>)
        = FreeWakes(Len(Queue(p).msgs), segs) \cup more
    OBVIOUS
  <2>4. Unlock(p, FreeWakes(Len(Queue(p).msgs), segs) \cup more)
    BY <2>1, <2>3
  <2> HIDE DEF segs, more
  <2> QED
    BY <1>0, <2>1, <2>2, <2>4, FreeKept
<1>3. CASE RcvDone(p)
  BY <1>0, <1>3, FreeKept DEF RcvDone
<1>4. CASE SndFault(p)
  <2>1. FreeWakes(1, Text(smp[p])) = FreeWakes(1, Text(smp[p])) \cup {}
    OBVIOUS
  <2> QED
    BY <1>0, <1>4, <2>1, FreeKept DEF SndFault
<1>5. CASE GetresNoText(p)
  BY <1>5 DEF GetresNoText, PoolKept
<1>6. CASE GetresCopy(p)
  BY <1>6 DEF GetresCopy, PoolKept, TypeInv, MsgType
<1>7. CASE LockSleep(p) \/ LockAbort(p) \/ ConvFail(p) \/ CtlCopy(p) \/ CtlDone(p) \/ RcvBegin(p)
           \/ FindCopy(p) \/ FindFail(p) \/ FindSleep(p) \/ RcvAgain(p) \/ RcvIntr(p)
  BY <1>1, <1>7 DEF LockSleep, LockAbort, ConvFail, CtlCopy, CtlDone, RcvBegin, FindCopy,
                    FindFail, FindSleep, RcvAgain, RcvIntr
<1>8. CASE RcvFault(p) \/ SndBegin(p) \/ SndType(p) \/ GetresFail(p) \/ GetresFull(p)
           \/ GetresNoHeader(p) \/ SndDone(p) \/ SndAgain(p) \/ SndIntr(p)
  BY <1>1, <1>8 DEF RcvFault, SndBegin, SndType, GetresFail, GetresFull, GetresNoHeader,
                    SndDone, SndAgain, SndIntr
<1> QED
  BY <1>2, <1>3, <1>4, <1>5, <1>6, <1>7, <1>8 DEF Step

\* Less is free: what did not fit before does not fit now.
LEMMA NoTextKept ==
  ASSUME NEW q \in Proc, NoText(q), uap'[q] = uap[q], msgmap' \subseteq msgmap
  PROVE  NoText(q)'
  BY DEF NoText, Fits

\* The step leaves q's queue with a writer to remember and no more room.
RoomKept(q) ==
  LET a == msgque[SlotOf(q)] b == msgque'[SlotOf(q)] IN
    \/ b = a
    \/ /\ b.alloc = a.alloc /\ b.seq = a.seq /\ (a.wwait => b.wwait)
       /\ b.cbytes \in Int /\ b.qbytes \in Int
       /\ b.cbytes >= a.cbytes /\ b.qbytes <= a.qbytes

\* A step of p after which a writer q is still asleep with reason.
LEMMA WriterKept ==
  ASSUME TypeInv, NEW p \in Proc, NEW q \in Proc, q # p, OthersWake(p), WriterOK(q), PoolKept(q),
         wchan'[q] = Qp(q) => RoomKept(q)
  PROVE  WriterOK(q)'
<1>0. uap'[q] = uap[q] /\ SlotOf(q)' = SlotOf(q) /\ Qp(q)' = Qp(q)
  BY DEF OthersWake, SlotOf, Qp
<1>1. Qp(q) # None /\ <<"msgfp", 0>> # None /\ <<"msgmap", 0>> # None
  BY QueueType, MsgAssumption DEF TypeInv, Qp, Chan
<1>2. ASSUME wchan'[q] = Qp(q)' PROVE (Valid(uap[q].id) /\ Queue(q).wwait /\ Full(q))'
  <2>1. wchan[q] = Qp(q)
    BY <1>0, <1>1, <1>2 DEF OthersWake
  <2>2. Valid(uap[q].id) /\ Queue(q).wwait /\ Full(q)
    BY <2>1 DEF WriterOK
  <2>3. (Valid(uap[q].id) /\ Queue(q).wwait)'
    BY <1>0, <1>2, <2>2 DEF RoomKept, Valid, Queue, SlotOf
  <2>4. Full(q)'
    <3>1. Queue(q).cbytes \in Int /\ Queue(q).qbytes \in Int /\ uap[q].size \in Nat
      BY QueueType DEF TypeInv, QueueRec
    <3>2. CASE msgque'[SlotOf(q)] = msgque[SlotOf(q)]
      BY <1>0, <2>2, <3>2 DEF Full, Queue
    <3>3. CASE /\ msgque'[SlotOf(q)].cbytes \in Int /\ msgque'[SlotOf(q)].qbytes \in Int
               /\ msgque'[SlotOf(q)].cbytes >= msgque[SlotOf(q)].cbytes
               /\ msgque'[SlotOf(q)].qbytes <= msgque[SlotOf(q)].qbytes
      BY <1>0, <2>2, <3>1, <3>3 DEF Full, Queue
    <3> QED
      BY <1>0, <1>2, <3>2, <3>3 DEF RoomKept
  <2> QED
    BY <2>3, <2>4
<1>3. ASSUME wchan'[q] = <<"msgfp", 0>> PROVE msgfp' = 0
  BY <1>1, <1>3 DEF OthersWake, WriterOK, PoolKept
<1>4. ASSUME wchan'[q] = <<"msgmap", 0>> PROVE mapwant' /\ NoText(q)'
  BY <1>0, <1>1, <1>4, NoTextKept DEF OthersWake, WriterOK, PoolKept
<1> QED
  BY <1>2, <1>3, <1>4 DEF WriterOK

LEMMA WriterOthers ==
  ASSUME OneLimit, TypeInv, LimitInv, WriterInv, NEW p \in Proc, Step(p), NEW q \in Proc, q # p
  PROVE  WriterOK(q)'
<1>0. /\ OthersWake(p) /\ WriterOK(q) /\ PoolKept(q)
      /\ SlotOf(p) \in Slot /\ SlotOf(q) \in Slot
  BY StepWakes, PoolStep, QueueType DEF WriterInv, TypeInv
<1> DEFINE a == msgque[SlotOf(q)]
           b == msgque'[SlotOf(q)]
<1>1. ASSUME RoomKept(q) PROVE WriterOK(q)'
  BY <1>0, <1>1, WriterKept
<1>2. CASE SlotOf(q) = SlotOf(p) /\ wchan'[q] = Qp(q) /\ b # a
  <2>0. wchan[q] = Qp(q) /\ Qp(q) # None /\ a.alloc /\ a.wwait
    <3>1. Qp(q) # None
      BY <1>0, MsgAssumption DEF Qp, Chan
    <3>2. wchan[q] = Qp(q)
      BY <1>0, <1>2, <3>1 DEF OthersWake
    <3> QED
      BY <1>0, <3>1, <3>2 DEF WriterOK, Queue, Valid, SlotOf
  <2>a. a.cbytes \in Int /\ a.qbytes \in Int
    BY <1>0 DEF TypeInv, MsgType, QueueRec
  <2>1. CASE msgctlRmid(p)
    <3>1. Qp(q) \in If(Queue(p).wwait, <<"qp", SlotOf(p)>>)
      BY <1>2, <2>0 DEF Qp, If, Queue
    <3> QED
      BY <1>2, <2>0, <2>1, <3>1, AwakeQ DEF msgctlRmid
  <2>2. CASE RcvDone(p)
    <3>1. Qp(q) \in FreeQueueWakes(Queue(p), SlotOf(p))
      BY <1>2, <2>0 DEF FreeQueueWakes, Qp, If, Queue
    <3> QED
      BY <1>2, <2>0, <2>2, <3>1, AwakeQ DEF RcvDone
  <2>3. CASE SndDone(p)
    <3>1. smp[p] \in Header /\ smp[p].size \in Nat
      BY <2>3 DEF SndDone, At, TypeInv, CopyOK, Header
    <3>2. /\ b.alloc = a.alloc /\ b.seq = a.seq /\ b.wwait = a.wwait
          /\ b.cbytes = a.cbytes + smp[p].size /\ b.qbytes = a.qbytes
      BY <1>0, <1>2, <2>3 DEF SndDone, Queue, TypeInv, MsgType
    <3> QED
      BY <1>1, <2>a, <3>1, <3>2 DEF RoomKept
  <2>4. CASE CtlDone(p)
    <3>1. PICK n \in QBytes : msgque' = [msgque EXCEPT ![SlotOf(p)].qbytes = n]
      BY <1>2, <2>4 DEF CtlDone
    <3>2. /\ b.alloc = a.alloc /\ b.seq = a.seq /\ b.wwait = a.wwait
          /\ b.cbytes = a.cbytes /\ b.qbytes = n
      BY <1>0, <1>2, <3>1 DEF TypeInv, MsgType, QueueRec
    <3>3. n \in Int /\ n <= a.qbytes
      BY <1>0, <2>0, MsgAssumption DEF OneLimit, LimitInv
    <3> QED
      BY <1>1, <2>a, <3>2, <3>3 DEF RoomKept
  <2>5. CASE FindSleep(p)
    <3>1. /\ b.alloc = a.alloc /\ b.seq = a.seq /\ b.wwait = a.wwait
          /\ b.cbytes = a.cbytes /\ b.qbytes = a.qbytes
      BY <1>0, <1>2, <2>5 DEF FindSleep, TypeInv, MsgType, QueueRec
    <3> QED
      BY <1>1, <2>a, <3>1 DEF RoomKept
  <2>6. CASE GetresFull(p)
    <3>1. /\ b.alloc = a.alloc /\ b.seq = a.seq /\ b.wwait
          /\ b.cbytes = a.cbytes /\ b.qbytes = a.qbytes
      BY <1>0, <1>2, <2>6 DEF GetresFull, TypeInv, MsgType, QueueRec
    <3> QED
      BY <1>1, <2>a, <3>1 DEF RoomKept
  <2>7. CASE SndIntr(p)
    <3>1. Unlock(p, {<<"qp", SlotOf(p)>>})
      BY <1>2, <2>7 DEF SndIntr
    <3> QED
      BY <1>2, <2>0, <3>1, AwakeQ DEF Qp
  <2> QED
    BY <1>2, <2>1, <2>2, <2>3, <2>4, <2>5, <2>6, <2>7, QueueSteps
<1>3. CASE SlotOf(q) # SlotOf(p)
  <2>1. b = a
    <3>1. CASE msgque' = msgque
      BY <3>1
    <3>2. CASE msgctlRmid(p) \/ RcvDone(p) \/ SndDone(p)
      BY <1>0, <1>3, <3>2 DEF msgctlRmid, RcvDone, SndDone, TypeInv, MsgType
    <3>3. CASE CtlDone(p) \/ FindSleep(p) \/ GetresFull(p) \/ SndIntr(p)
      BY <1>0, <1>3, <3>3 DEF CtlDone, FindSleep, GetresFull, SndIntr, TypeInv, MsgType
    <3> QED
      BY <3>1, <3>2, <3>3, QueueSteps
  <2> QED
    BY <1>1, <2>1 DEF RoomKept
<1>4. CASE wchan'[q] # Qp(q)
  BY <1>0, <1>4, WriterKept
<1>5. CASE b = a
  BY <1>1, <1>5 DEF RoomKept
<1> QED
  BY <1>2, <1>3, <1>4, <1>5

LEMMA WriterStep ==
  ASSUME OneLimit, TypeInv, SleepInv, LimitInv, WriterInv,
         NEW p \in Proc, Request(p) \/ Step(p) \/ psignal(p)
  PROVE  WriterInv'
<1>0. ASSUME SelfAwake(p) PROVE WriterOK(p)'
  <2>1. uap' \in [Proc -> CallRec] => Qp(p)' \in Chan
    BY DEF Qp, SlotOf, CallRec, Chan
  <2>2. TypeInv'
    BY RequestType, StepTypeQuiet, StepTypeQueue DEF Step
  <2>3. Qp(p)' # None /\ <<"msgfp", 0>> # None /\ <<"msgmap", 0>> # None
    BY <2>1, <2>2, MsgAssumption DEF TypeInv, MsgType, Chan
  <2> QED
    BY <1>0, <2>3 DEF SelfAwake, WriterOK
<1>1. CASE Step(p)
  <2>1. \A q \in Proc \ {p} : WriterOK(q)'
    BY <1>1, WriterOthers
  <2>2. WriterOK(p)'
    <3>1. CASE GetresFull(p) /\ wchan'[p] = Qp(p)
      <4>1. /\ uap' = uap /\ Valid(uap[p].id) /\ Full(p)
            /\ msgque' = [msgque EXCEPT ![SlotOf(p)].wwait = TRUE]
        BY <3>1 DEF GetresFull, msgconv
      <4>2. /\ Queue(p)'.alloc = Queue(p).alloc /\ Queue(p)'.seq = Queue(p).seq
            /\ Queue(p)'.wwait /\ Queue(p)'.cbytes = Queue(p).cbytes
            /\ Queue(p)'.qbytes = Queue(p).qbytes
        BY <4>1, QueueType DEF TypeInv, MsgType, QueueRec, Queue, SlotOf
      <4>3. (Valid(uap[p].id) /\ Queue(p).wwait /\ Full(p))'
        BY <4>1, <4>2 DEF Valid, Full, Queue, SlotOf
      <4> QED
        BY <3>1, <4>3 DEF WriterOK, Qp
    <3>2. CASE GetresNoHeader(p) /\ wchan'[p] = <<"msgfp", 0>>
      BY <3>2 DEF GetresNoHeader, pool, WriterOK, Qp
    <3>3. CASE GetresNoText(p) /\ wchan'[p] = <<"msgmap", 0>>
      <4>1. NoText(p)'
        BY <3>3, NoTextKept DEF GetresNoText
      <4> QED
        BY <3>3, <4>1 DEF GetresNoText, WriterOK, Qp
    <3>4. CASE LockSleep(p) /\ wchan'[p] = Lockp(p)
      BY <3>4 DEF LockSleep, WriterOK, Lockp, Qp, SlotOf
    <3>5. CASE FindSleep(p) /\ wchan'[p] = QNum(p)
      BY <3>5 DEF FindSleep, WriterOK, QNum, Qp, SlotOf
    <3> QED
      BY <1>0, <1>1, <3>1, <3>2, <3>3, <3>4, <3>5, StepWakes
  <2> QED
    BY <2>1, <2>2 DEF WriterInv
<1>2. CASE Request(p) \/ psignal(p)
  <2>1. OthersWake(p) /\ SelfAwake(p) /\ UNCHANGED pool
    BY <1>2, RequestWakes
       DEF SleepInv, Request, Call, msgget, msgctl, msgrcv, msgsnd, psignal
  <2>2. ASSUME NEW q \in Proc, q # p PROVE WriterOK(q)'
    <3>0. PoolKept(q) /\ WriterOK(q)
      BY <2>1 DEF PoolKept, pool, WriterInv
    <3>1. CASE msgque' = msgque
      BY <2>1, <2>2, <3>0, <3>1, WriterKept DEF RoomKept
    <3>2. CASE msgget(p) /\ wchan[q] = Qp(q)
      <4>1. msgque[SlotOf(q)].alloc
        BY <3>0, <3>2 DEF WriterOK, Valid, SlotOf
      <4>2. msgque'[SlotOf(q)] = msgque[SlotOf(q)]
        BY <3>2, <4>1, QueueType DEF msgget, TypeInv, MsgType
      <4> QED
        BY <2>1, <2>2, <3>0, <4>2, WriterKept DEF RoomKept
    <3>3. CASE msgget(p) /\ wchan[q] # Qp(q)
      <4>1. wchan'[q] # Qp(q)
        BY <3>3 DEF msgget
      <4> QED
        BY <2>1, <2>2, <3>0, <4>1, WriterKept
    <3> QED
      BY <1>2, <3>1, <3>2, <3>3 DEF Request, Call, msgctl, msgrcv, msgsnd, psignal
  <2> QED
    BY <1>0, <2>1, <2>2 DEF WriterInv
<1> QED
  BY <1>1, <1>2

\* No writer sleeps for room on a queue that has it or is gone, for headers
\* or for segments that are free, unless IPC_SET raises msg_qbytes.
THEOREM WriterTheorem == ASSUME OneLimit PROVE Spec => []WriterBlocked
<1> DEFINE Inv == TypeInv /\ SleepInv /\ LimitInv /\ WriterInv
<1>1. Init => Inv
  <2> SUFFICES ASSUME Init PROVE Inv
    OBVIOUS
  <2>1. TypeInv
    BY InitType
  <2>2. \A q \in Proc : wchan[q] = None /\ Qp(q) \in Chan
    BY <2>1, QueueType DEF Init, TypeInv, Qp, Chan
  <2>3. SleepInv /\ LimitInv
    BY <2>2 DEF SleepInv, Asleep, LimitInv, Init
  <2>4. <<"msgfp", 0>> # None /\ <<"msgmap", 0>> # None /\ \A q \in Proc : Qp(q) # None
    BY <2>2, MsgAssumption DEF Chan
  <2> QED
    BY <2>1, <2>2, <2>3, <2>4 DEF WriterInv, WriterOK
<1>2. Inv /\ [Next]_vars => Inv'
  <2> SUFFICES ASSUME Inv, [Next]_vars PROVE Inv'
    OBVIOUS
  <2>1. CASE UNCHANGED vars
    <3>1. TypeInv' /\ SleepInv' /\ LimitInv'
      BY <2>1 DEF vars, pool, proc, hist, TypeInv, MsgType, CopyOK, SleepInv, Asleep, LimitInv,
                  SlotOf, QNum, Qp, Lockp
    <3>2. WriterInv'
      BY <2>1 DEF vars, pool, proc, WriterInv, WriterOK, SlotOf, Queue, Valid, Full, NoText,
                  Fits, Qp
    <3> QED
      BY <3>1, <3>2
  <2>2. ASSUME NEW p \in Proc, Request(p) \/ Step(p) \/ psignal(p) PROVE Inv'
    <3>1. TypeInv'
      BY <2>2, RequestType, StepTypeQuiet, StepTypeQueue DEF Step
    <3> QED
      BY <2>2, <3>1, SleepStep, LimitStep, WriterStep
  <2> QED
    BY <2>1, <2>2 DEF Next
<1>3. Inv => WriterBlocked
  <2> SUFFICES ASSUME Inv, NEW p \in Proc, wchan[p] # None
               PROVE  /\ wchan[p][1] = "qp" => Valid(uap[p].id) /\ Queue(p).wwait /\ Full(p)
                      /\ wchan[p][1] = "msgfp" => msgfp = 0
                      /\ wchan[p][1] = "msgmap" => mapwant /\ NoText(p)
    BY DEF WriterBlocked
  <2>1. wchan[p] \in {Lockp(p), QNum(p), Qp(p), <<"msgfp", 0>>, <<"msgmap", 0>>}
    BY DEF SleepInv, Asleep
  <2>2. Lockp(p)[1] = "lock" /\ QNum(p)[1] = "qnum" /\ Qp(p)[1] = "qp"
    BY DEF Lockp, QNum, Qp
  <2>3. WriterOK(p)
    BY DEF WriterInv
  <2> QED
    BY <2>1, <2>2, <2>3 DEF WriterOK
<1> QED
  BY <1>1, <1>2, <1>3, PTL DEF Spec

-----------------------------------------------------------------------------
(* What the steps do to the queues *)

Msgs(s) == msgque[s].msgs

\* The same queue, but for its flags and its limit.
SameQueue(s) ==
  /\ msgque'[s].msgs = msgque[s].msgs /\ msgque'[s].alloc = msgque[s].alloc
  /\ msgque'[s].cbytes = msgque[s].cbytes /\ msgque'[s].qnum = msgque[s].qnum

SameCall(q) == pc'[q] = pc[q] /\ uap'[q] = uap[q] /\ smp'[q] = smp[q]

\* A step that moves no message: a process may at most find one to copy.
Quiet ==
  /\ \A s \in Slot : SameQueue(s)
  /\ UNCHANGED <<msgfp, msgmap, nsent, rcvd, gone>>
  /\ \A q \in Proc : /\ pc[q] = "sndtext" \/ pc'[q] = "sndtext" => SameCall(q)
                     /\ pc'[q] = "rcvcopy" => SameCall(q) \/ FindCopy(q)

\* The steps that do.
Moves(p) ==
  msgget(p) \/ msgctlRmid(p) \/ RcvDone(p) \/ GetresCopy(p) \/ SndDone(p) \/ SndFault(p)

\* p neither copies a message nor begins to, and the others stay where they are.
LEMMA QuietStep ==
  ASSUME NEW p \in Proc, OthersSame(p), pc[p] # "sndtext", pc'[p] \notin {"sndtext", "rcvcopy"},
         \A s \in Slot : SameQueue(s), UNCHANGED <<msgfp, msgmap, nsent, rcvd, gone>>
  PROVE  Quiet
  BY DEF Quiet, OthersSame, SameCall

LEMMA SameQueues ==
  ASSUME TypeInv, NEW p \in Proc,
         \/ UNCHANGED msgque
         \/ \E n : msgque' = [msgque EXCEPT ![SlotOf(p)].qbytes = n]
         \/ \E b : msgque' = [msgque EXCEPT ![SlotOf(p)].rwait = b]
         \/ \E b : msgque' = [msgque EXCEPT ![SlotOf(p)].wwait = b]
  PROVE  \A s \in Slot : SameQueue(s)
<1>1. SlotOf(p) \in Slot /\ msgque \in [Slot -> QueueRec]
  BY QueueType DEF TypeInv, MsgType
<1>2. CASE UNCHANGED msgque
  BY <1>2 DEF SameQueue
<1>3. ASSUME NEW n, msgque' = [msgque EXCEPT ![SlotOf(p)].qbytes = n]
      PROVE  \A s \in Slot : SameQueue(s)
  BY <1>1, <1>3 DEF SameQueue, QueueRec
<1>4. ASSUME NEW n, msgque' = [msgque EXCEPT ![SlotOf(p)].rwait = n]
      PROVE  \A s \in Slot : SameQueue(s)
  BY <1>1, <1>4 DEF SameQueue, QueueRec
<1>5. ASSUME NEW n, msgque' = [msgque EXCEPT ![SlotOf(p)].wwait = n]
      PROVE  \A s \in Slot : SameQueue(s)
  BY <1>1, <1>5 DEF SameQueue, QueueRec
<1> QED
  BY <1>2, <1>3, <1>4, <1>5

LEMMA StepKinds ==
  ASSUME TypeInv, NEW p \in Proc, Step(p)
  PROVE  OthersSame(p) /\ (Quiet \/ Moves(p))
<1> USE DEF hist, pool
<1>0. \A s \in Slot : (UNCHANGED msgque => SameQueue(s))
  BY DEF SameQueue
<1>1. CASE LockSleep(p)
  <2>1. OthersSame(p) /\ pc'[p] = pc[p] /\ pc[p] \in LockLoc
    BY <1>1 DEF LockSleep, OthersSame, At
  <2> QED
    BY <1>0, <1>1, <2>1, QuietStep DEF LockSleep, LockLoc
<1>2. CASE LockAbort(p)
  BY <1>0, <1>2, QuietStep, ReturnSame DEF LockAbort, At, LockLoc
<1>3. CASE ConvFail(p)
  BY <1>0, <1>3, QuietStep, ReturnSame DEF ConvFail, Locks, At, LockLoc
<1>5. CASE CtlCopy(p)
  <2>1. OthersSame(p) /\ pc'[p] = "ctlcopy" /\ pc[p] = "conv"
    BY <1>5 DEF CtlCopy, Leave, OthersSame, TypeInv, MsgType, msgconv, Locks, At
  <2> QED
    BY <1>0, <1>5, <2>1, QuietStep DEF CtlCopy
<1>6. CASE CtlDone(p)
  <2>1. \A s \in Slot : SameQueue(s)
    BY <1>6, SameQueues DEF CtlDone
  <2> QED
    BY <1>6, <2>1, QuietStep, ReturnSame DEF CtlDone, At
<1>7. CASE RcvBegin(p)
  <2>1. OthersSame(p) /\ pc'[p] = "find" /\ pc[p] = "conv"
    BY <1>7 DEF RcvBegin, Goto, OthersSame, TypeInv, MsgType, msgconv, Locks, At
  <2> QED
    BY <1>0, <1>7, <2>1, QuietStep DEF RcvBegin
<1>8. CASE FindCopy(p)
  <2>1. OthersSame(p) /\ pc'[p] = "rcvcopy" /\ pc[p] = "find"
    BY <1>8 DEF FindCopy, Leave, OthersSame, TypeInv, MsgType, msgconv, Locks, At
  <2>2. UNCHANGED <<msgque, msgfp, msgmap, nsent, rcvd, gone>>
    BY <1>8 DEF FindCopy
  <2> QED
    BY <1>0, <1>8, <2>1, <2>2 DEF Quiet, OthersSame, SameCall
<1>9. CASE FindFail(p)
  BY <1>0, <1>9, QuietStep, ReturnSame DEF FindFail, msgconv, Locks, At
<1>10. CASE FindSleep(p)
  <2>1. \A s \in Slot : SameQueue(s)
    BY <1>10, SameQueues DEF FindSleep
  <2>2. OthersSame(p) /\ pc'[p] \in {"rsleep", "rintr"}
    BY <1>10, UnlockSleepSame DEF FindSleep
  <2> QED
    BY <1>10, <2>1, <2>2, QuietStep DEF FindSleep, msgconv, Locks, At
<1>11. CASE RcvAgain(p)
  <2>1. OthersSame(p) /\ pc'[p] \in {"rintr", "find"} /\ pc[p] = "rsleep"
    BY <1>11 DEF RcvAgain, Goto, OthersSame, TypeInv, MsgType, At
  <2> QED
    BY <1>0, <1>11, <2>1, QuietStep DEF RcvAgain
<1>12. CASE RcvIntr(p)
  BY <1>0, <1>12, QuietStep, ReturnSame DEF RcvIntr, At
<1>14. CASE RcvFault(p)
  BY <1>0, <1>14, QuietStep, ReturnSame DEF RcvFault, At
<1>15. CASE SndBegin(p)
  <2>1. OthersSame(p) /\ pc'[p] = "sndtype" /\ pc[p] = "conv"
    BY <1>15 DEF SndBegin, Leave, OthersSame, TypeInv, MsgType, msgconv, Locks, At
  <2> QED
    BY <1>0, <1>15, <2>1, QuietStep DEF SndBegin
<1>16. CASE SndType(p)
  <2>1. OthersSame(p) /\ pc'[p] \in {"getres", "user"} /\ pc[p] = "sndtype"
    BY <1>16, ReturnSame DEF SndType, Goto, OthersSame, TypeInv, MsgType, At
  <2> QED
    BY <1>0, <1>16, <2>1, QuietStep DEF SndType
<1>17. CASE GetresFail(p)
  BY <1>0, <1>17, QuietStep, ReturnSame DEF GetresFail, msgconv, Locks, At
<1>18. CASE GetresFull(p)
  <2>1. \A s \in Slot : SameQueue(s)
    BY <1>18, SameQueues DEF GetresFull
  <2>2. OthersSame(p) /\ pc'[p] \in {"wsleep", "wintr"}
    BY <1>18, UnlockSleepSame DEF GetresFull
  <2> QED
    BY <1>18, <2>1, <2>2, QuietStep DEF GetresFull, msgconv, Locks, At
<1>19. CASE GetresNoHeader(p)
  <2>1. OthersSame(p) /\ pc'[p] \in {"fsleep", "intr"}
    BY <1>19, UnlockSleepSame DEF GetresNoHeader
  <2> QED
    BY <1>0, <1>19, <2>1, QuietStep DEF GetresNoHeader, msgconv, Locks, At
<1>20. CASE GetresNoText(p)
  <2>1. OthersSame(p) /\ pc'[p] \in {"fsleep", "intr"}
    BY <1>20, UnlockSleepSame DEF GetresNoText
  <2> QED
    BY <1>0, <1>20, <2>1, QuietStep DEF GetresNoText, msgconv, Locks, At
<1>21. CASE GetresCopy(p)
  BY <1>21 DEF GetresCopy, OthersSame, TypeInv, MsgType, Moves
<1>22. CASE msgctlRmid(p) \/ RcvDone(p) \/ SndDone(p) \/ SndFault(p)
  BY <1>22, ReturnSame DEF msgctlRmid, RcvDone, SndDone, SndFault, Moves
<1>24. CASE SndAgain(p)
  <2>1. OthersSame(p) /\ pc'[p] \in {"wintr", "intr", "getres"} /\ pc[p] # "sndtext"
    BY <1>24 DEF SndAgain, Goto, OthersSame, TypeInv, MsgType, At
  <2> QED
    BY <1>0, <1>24, <2>1, QuietStep DEF SndAgain
<1>25. CASE SndIntr(p)
  <2>1. \A s \in Slot : SameQueue(s)
    BY <1>25, SameQueues DEF SndIntr
  <2> QED
    BY <1>25, <2>1, QuietStep, ReturnSame DEF SndIntr, msgconv, Locks, At
<1> QED
  BY ONLY Step(p), <1>1, <1>2, <1>3, <1>5, <1>6, <1>7, <1>8, <1>9, <1>10, <1>11, <1>12,
     <1>14, <1>15, <1>16, <1>17, <1>18, <1>19, <1>20, <1>21, <1>22, <1>24, <1>25
     DEF Step

\* Every step moves no message, or is one of six.
LEMMA Kinds ==
  ASSUME TypeInv, [Next]_vars
  PROVE  Quiet \/ \E p \in Proc : OthersSame(p) /\ Moves(p)
<1>1. CASE UNCHANGED vars
  BY <1>1 DEF vars, pool, proc, hist, Quiet, SameQueue, SameCall
<1>2. ASSUME NEW p \in Proc, Request(p) PROVE Quiet \/ (OthersSame(p) /\ Moves(p))
  <2>1. CASE msgget(p)
    BY <2>1 DEF msgget, Moves, proc, OthersSame
  <2>2. ASSUME NEW c, Call(p, c) PROVE Quiet
    <3>1. OthersSame(p) /\ pc'[p] = "conv" /\ pc[p] = "user"
      BY <2>2 DEF Call, Goto, OthersSame, TypeInv, MsgType
    <3> QED
      BY <2>2, <3>1, QuietStep DEF Call, pool, hist, SameQueue
  <2> QED
    BY <1>2, <2>1, <2>2 DEF Request, msgctl, msgrcv, msgsnd
<1>3. ASSUME NEW p \in Proc, psignal(p) PROVE Quiet
  BY <1>3 DEF psignal, pool, proc, hist, Quiet, SameQueue, SameCall
<1> QED
  BY <1>1, <1>2, <1>3, StepKinds DEF Next

\* Unlinking a message that is on a queue closes its gap.
LEMMA UnlinkedIs ==
  ASSUME NEW ms \in Seq(Header), NEW m \in ToSet(ms)
  PROVE  \E j \in 1 .. Len(ms) :
           /\ ms[j] = m /\ Len(Unlinked(ms, m)) = Len(ms) - 1
           /\ Unlinked(ms, m) \in Seq(Header)
           /\ \A k \in 1 .. Len(ms) - 1 :
                Unlinked(ms, m)[k] = IF k < j THEN ms[k] ELSE ms[k + 1]
<1>0. \E j \in DOMAIN ms : ms[j] = m
  BY DEF ToSet
<1>1. PICK j : j = CHOOSE i \in DOMAIN ms : ms[i] = m
  OBVIOUS
<1>2. j \in 1 .. Len(ms) /\ ms[j] = m
  BY <1>0, <1>1
<1>3. PICK a : a = SubSeq(ms, 1, j - 1)
  OBVIOUS
<1>4. PICK b : b = SubSeq(ms, j + 1, Len(ms))
  OBVIOUS
<1>5. Unlinked(ms, m) = a \o b
  BY <1>0, <1>1, <1>3, <1>4 DEF Unlinked, RemoveAt
<1>6. a \in Seq(Header) /\ Len(a) = j - 1 /\ \A k \in 1 .. j - 1 : a[k] = ms[k]
  <2>1. \A k \in 1 .. j - 1 : ms[k] \in Header
    BY <1>2
  <2> QED
    BY <2>1, <1>2, <1>3, SubSeqProperties
<1>7. /\ b \in Seq(Header) /\ Len(b) = Len(ms) - j
      /\ \A k \in 1 .. Len(ms) - j : b[k] = ms[j + k]
  <2>1. \A k \in j + 1 .. Len(ms) : ms[k] \in Header
    BY <1>2
  <2> QED
    BY <2>1, <1>2, <1>4, SubSeqProperties
<1>8. PICK u : u = a \o b
  OBVIOUS
<1>9. u \in Seq(Header) /\ Len(u) = Len(ms) - 1
  BY <1>2, <1>6, <1>7, <1>8
<1>10. ASSUME NEW k \in 1 .. Len(ms) - 1
       PROVE  u[k] = IF k < j THEN ms[k] ELSE ms[k + 1]
  <2>1. CASE k < j
    BY <1>2, <1>6, <1>7, <1>8, <2>1
  <2>2. CASE k >= j
    <3>1. u[k] = b[k - (j - 1)] /\ k - (j - 1) \in 1 .. Len(ms) - j
      BY <1>2, <1>6, <1>7, <1>8, <2>2, SMTT(30)
    <3>2. b[k - (j - 1)] = ms[j + (k - (j - 1))] /\ j + (k - (j - 1)) = k + 1
      BY <1>2, <1>7, <3>1
    <3> QED
      BY <1>2, <2>2, <3>1, <3>2
  <2> QED
    BY <1>2, <2>1, <2>2
<1> QED
  BY <1>2, <1>5, <1>8, <1>9, <1>10

\* A step leaves the queues of the other slots alone.
ElseSame(s) == \A t \in Slot \ {s} : msgque'[t] = msgque[t]

LEMMA GetFacts ==
  ASSUME TypeInv, NEW p \in Proc, msgget(p)
  PROVE  /\ UNCHANGED <<msgfp, msgmap, nsent, rcvd, gone, pc, uap, smp>>
         /\ \E s \in Slot :
              /\ ~msgque[s].alloc /\ ElseSame(s)
              /\ msgque'[s].msgs = <<>> /\ msgque'[s].qnum = 0
              /\ msgque'[s].cbytes = msgque[s].cbytes
  BY DEF msgget, TypeInv, MsgType, pool, proc, hist, ElseSame

LEMMA RmidFacts ==
  ASSUME TypeInv, NEW p \in Proc, msgctlRmid(p)
  PROVE  /\ SlotOf(p) \in Slot /\ ElseSame(SlotOf(p))
         /\ msgque'[SlotOf(p)].msgs = <<>> /\ msgque'[SlotOf(p)].qnum = 0
         /\ msgque'[SlotOf(p)].cbytes = 0 /\ ~msglock[SlotOf(p)]
         /\ msgfp' = msgfp + Len(Msgs(SlotOf(p)))
         /\ msgmap' = msgmap \cup UNION {Text(Msgs(SlotOf(p))[j]) : j \in DOMAIN Msgs(SlotOf(p))}
         /\ gone' = gone \cup {Msgs(SlotOf(p))[j].num : j \in DOMAIN Msgs(SlotOf(p))}
         /\ UNCHANGED <<nsent, rcvd>> /\ pc[p] = "conv" /\ pc'[p] = "user"
<1>1. SlotOf(p) \in Slot /\ msgque \in [Slot -> QueueRec]
  BY QueueType DEF TypeInv, MsgType
<1>2. pc'[p] = "user" /\ pc[p] = "conv" /\ ~msglock[SlotOf(p)]
  BY ReturnSame DEF msgctlRmid, msgconv, Locks, At
<1>3. msgque' = [msgque EXCEPT ![SlotOf(p)] = Removed(Queue(p), uap[p].id)]
  BY DEF msgctlRmid
<1>4. ElseSame(SlotOf(p)) /\ msgque'[SlotOf(p)] = Removed(Queue(p), uap[p].id)
  BY <1>1, <1>3 DEF ElseSame
<1> QED
  BY <1>1, <1>2, <1>4 DEF msgctlRmid, Removed, Free, Queue, Msgs

LEMMA RcvFacts ==
  ASSUME TypeInv, NEW p \in Proc, RcvDone(p)
  PROVE  /\ SlotOf(p) \in Slot /\ ElseSame(SlotOf(p)) /\ smp[p] \in Header
         /\ msgque'[SlotOf(p)].msgs = Unlinked(Msgs(SlotOf(p)), smp[p])
         /\ msgque'[SlotOf(p)].qnum = msgque[SlotOf(p)].qnum - 1
         /\ msgque'[SlotOf(p)].cbytes = msgque[SlotOf(p)].cbytes - smp[p].size
         /\ msgque'[SlotOf(p)].alloc = msgque[SlotOf(p)].alloc
         /\ msgfp' = msgfp + 1 /\ msgmap' = msgmap \cup Text(smp[p])
         /\ rcvd' = Append(rcvd, [id |-> uap[p].id, type |-> smp[p].type, num |-> smp[p].num])
         /\ UNCHANGED <<nsent, gone>> /\ pc[p] = "rcvcopy" /\ pc'[p] = "user"
<1>1. SlotOf(p) \in Slot /\ msgque \in [Slot -> QueueRec]
  BY QueueType DEF TypeInv, MsgType
<1>2. pc'[p] = "user" /\ pc[p] = "rcvcopy" /\ smp[p] \in Header
  BY ReturnSame DEF RcvDone, At, TypeInv, CopyOK
<1>3. /\ ElseSame(SlotOf(p))
      /\ msgque'[SlotOf(p)] = [alloc |-> Queue(p).alloc, rwait |-> Queue(p).rwait,
            wwait |-> FALSE, seq |-> Queue(p).seq, cbytes |-> Queue(p).cbytes - smp[p].size,
            qnum |-> Queue(p).qnum - 1, qbytes |-> Queue(p).qbytes,
            msgs |-> Unlinked(Queue(p).msgs, smp[p])]
  BY <1>1 DEF RcvDone, ElseSame
<1>4. /\ msgfp' = msgfp + 1 /\ msgmap' = msgmap \cup Text(smp[p]) /\ UNCHANGED <<nsent, gone>>
      /\ rcvd' = Append(rcvd, [id |-> uap[p].id, type |-> smp[p].type, num |-> smp[p].num])
  BY DEF RcvDone, Free
<1> QED
  BY <1>1, <1>2, <1>3, <1>4 DEF Queue, Msgs

LEMMA CopyFacts ==
  ASSUME TypeInv, NEW p \in Proc, GetresCopy(p)
  PROVE  /\ msgque' = msgque /\ uap' = uap /\ UNCHANGED <<nsent, rcvd, gone>>
         /\ msgfp > 0 /\ msgfp' = msgfp - 1 /\ pc[p] = "getres" /\ pc'[p] = "sndtext"
         /\ smp'[p] \in Header /\ smp'[p].num = 0
         /\ smp'[p].type = uap[p].typ /\ smp'[p].size = uap[p].size
         /\ Text(smp'[p]) \subseteq msgmap /\ msgmap' = msgmap \ Text(smp'[p])
<1>1. PICK a \in Seg \cup {0} :
        /\ IF uap[p].size = 0 THEN a = 0 ELSE a \in Seg /\ rmalloc(a, btoq(uap[p].size))
        /\ smp' = [smp EXCEPT ![p] = [type |-> uap[p].typ, size |-> uap[p].size,
                                      spot |-> a, num |-> 0]]
        /\ msgmap' = msgmap \ Text(smp'[p])
  BY DEF GetresCopy
<1>2. smp'[p] = [type |-> uap[p].typ, size |-> uap[p].size, spot |-> a, num |-> 0]
  BY <1>1 DEF TypeInv, MsgType
<1>3. smp'[p] \in Header
  BY <1>1, <1>2, QueueType, MsgAssumption, SMTT(30) DEF Header, Seg, TypeInv
<1>4. Text(smp'[p]) \subseteq msgmap
  BY <1>1, <1>2 DEF Text, rmalloc, Fits
<1>5. pc'[p] = "sndtext" /\ pc[p] = "getres" /\ msgfp > 0
  BY DEF GetresCopy, msgconv, Locks, At, TypeInv, MsgType
<1> QED
  BY <1>1, <1>2, <1>3, <1>4, <1>5 DEF GetresCopy, hist

LEMMA SndFacts ==
  ASSUME TypeInv, NEW p \in Proc, SndDone(p)
  PROVE  /\ SlotOf(p) \in Slot /\ ElseSame(SlotOf(p)) /\ smp[p] \in Header
         /\ msgque'[SlotOf(p)].msgs = Append(Msgs(SlotOf(p)), [smp[p] EXCEPT !.num = nsent + 1])
         /\ msgque'[SlotOf(p)].qnum = msgque[SlotOf(p)].qnum + 1
         /\ msgque'[SlotOf(p)].cbytes = msgque[SlotOf(p)].cbytes + smp[p].size
         /\ msgque'[SlotOf(p)].alloc = msgque[SlotOf(p)].alloc
         /\ [smp[p] EXCEPT !.num = nsent + 1] \in Header
         /\ nsent' = nsent + 1
         /\ UNCHANGED <<msgfp, msgmap, rcvd, gone>> /\ pc[p] = "sndtext" /\ pc'[p] = "user"
<1>1. SlotOf(p) \in Slot /\ msgque \in [Slot -> QueueRec] /\ nsent \in Nat
  BY QueueType DEF TypeInv, MsgType
<1>2. pc'[p] = "user" /\ pc[p] = "sndtext" /\ smp[p] \in Header
  BY ReturnSame DEF SndDone, At, TypeInv, CopyOK
<1>3. [smp[p] EXCEPT !.num = nsent + 1] \in Header
  BY <1>1, <1>2 DEF Header
<1>4. /\ ElseSame(SlotOf(p))
      /\ msgque'[SlotOf(p)] = [alloc |-> Queue(p).alloc, rwait |-> FALSE,
            wwait |-> Queue(p).wwait, seq |-> Queue(p).seq,
            cbytes |-> Queue(p).cbytes + smp[p].size,
            qnum |-> Queue(p).qnum + 1, qbytes |-> Queue(p).qbytes,
            msgs |-> Append(Queue(p).msgs, [smp[p] EXCEPT !.num = nsent + 1])]
  BY <1>1 DEF SndDone, ElseSame
<1>5. nsent' = nsent + 1 /\ UNCHANGED <<msgfp, msgmap, rcvd, gone>>
  BY DEF SndDone, pool
<1> QED
  BY <1>1, <1>2, <1>3, <1>4, <1>5 DEF Queue, Msgs

LEMMA FaultFacts ==
  ASSUME TypeInv, NEW p \in Proc, SndFault(p)
  PROVE  /\ msgque' = msgque /\ UNCHANGED <<nsent, rcvd, gone>> /\ smp[p] \in Header
         /\ msgfp' = msgfp + 1 /\ msgmap' = msgmap \cup Text(smp[p])
         /\ pc[p] = "sndtext" /\ pc'[p] = "user"
  BY ReturnSame DEF SndFault, At, TypeInv, CopyOK, Free

-----------------------------------------------------------------------------
(* Every message is in one place *)

Nums(s) == {Msgs(s)[k].num : k \in DOMAIN Msgs(s)}
RNums == {rcvd[j].num : j \in DOMAIN rcvd}
RcvRec == [id : Int \X Slot, type : Int, num : Int]

\* The messages of a queue are in the order in which they were sent.
Rising(ms) == \A j, k \in DOMAIN ms : j < k => ms[j].num < ms[k].num

\* The numbers of the messages on the queues, received and destroyed are those
\* of the messages sent, and no number is in two of these places.
PlaceInv ==
  /\ gone \subseteq 1 .. nsent /\ RNums \subseteq 1 .. nsent /\ RNums \cap gone = {}
  /\ \A s \in Slot : Nums(s) \subseteq 1 .. nsent /\ Nums(s) \cap (RNums \cup gone) = {}
  /\ \A s, t \in Slot : s # t => Nums(s) \cap Nums(t) = {}
  /\ \A n \in 1 .. nsent : n \in RNums \cup gone \/ \E s \in Slot : n \in Nums(s)

NumInv ==
  /\ rcvd \in Seq(RcvRec)
  /\ \A j, k \in DOMAIN rcvd : j # k => rcvd[j].num # rcvd[k].num
  /\ \A s \in Slot : Rising(Msgs(s)) /\ (~msgque[s].alloc => Msgs(s) = <<>>)
  /\ PlaceInv

LEMMA UnlinkedNums ==
  ASSUME NEW ms \in Seq(Header), Rising(ms), NEW m \in ToSet(ms)
  PROVE  /\ Rising(Unlinked(ms, m))
         /\ {Unlinked(ms, m)[k].num : k \in DOMAIN Unlinked(ms, m)}
              = {ms[k].num : k \in DOMAIN ms} \ {m.num}
         /\ m.num \in {ms[k].num : k \in DOMAIN ms}
         /\ ToSet(Unlinked(ms, m)) = ToSet(ms) \ {m}
         /\ Unlinked(ms, m) \in Seq(Header)
<1>1. PICK u : u = Unlinked(ms, m)
  OBVIOUS
<1>2. PICK j \in 1 .. Len(ms) :
         /\ ms[j] = m /\ Len(u) = Len(ms) - 1 /\ u \in Seq(Header)
         /\ \A k \in 1 .. Len(ms) - 1 : u[k] = IF k < j THEN ms[k] ELSE ms[k + 1]
  BY <1>1, UnlinkedIs
<1>3. DOMAIN u = 1 .. Len(ms) - 1 /\ DOMAIN ms = 1 .. Len(ms) /\ Len(ms) \in Nat
  BY <1>2
<1>4. \A k \in 1 .. Len(ms) : ms[k].num \in Int
  <2>1. \A k \in 1 .. Len(ms) : ms[k] \in Header
    OBVIOUS
  <2>2. \A h \in Header : h.num \in Int
    BY DEF Header
  <2> QED
    BY <2>1, <2>2
<1>5. \A i, k \in 1 .. Len(ms) : i < k => ms[i].num < ms[k].num
  BY <1>3 DEF Rising
<1>6. \A k \in 1 .. Len(ms) : k # j => ms[k].num # m.num
  <2> TAKE k \in 1 .. Len(ms)
  <2> HAVE k # j
  <2>1. ms[j] = m /\ ms[k].num \in Int /\ ms[j].num \in Int /\ (k < j \/ j < k)
    BY <1>2, <1>4
  <2>2. (k < j => ms[k].num < ms[j].num) /\ (j < k => ms[j].num < ms[k].num)
    BY <1>5
  <2> QED
    BY <2>1, <2>2
<1>7. \A k \in 1 .. Len(ms) - 1 :
        \E i \in 1 .. Len(ms) : i # j /\ u[k] = ms[i] /\ i = IF k < j THEN k ELSE k + 1
  BY <1>2, <1>3
<1>8. \A i \in 1 .. Len(ms) : i # j => \E k \in 1 .. Len(ms) - 1 : u[k] = ms[i]
  <2> TAKE i \in 1 .. Len(ms)
  <2> HAVE i # j
  <2>1. CASE i < j
    <3>1. i \in 1 .. Len(ms) - 1 /\ u[i] = ms[i]
      BY <1>2, <1>3, <2>1
    <3> QED
      BY <3>1
  <2>2. CASE i > j
    <3>1. i - 1 \in 1 .. Len(ms) - 1 /\ ~(i - 1 < j) /\ (i - 1) + 1 = i
      BY <1>2, <1>3, <2>2
    <3>2. u[i - 1] = ms[i]
      BY <1>2, <3>1
    <3> QED
      BY <3>1, <3>2
  <2> QED
    BY <1>2, <2>1, <2>2
<1>9. \A i, k \in 1 .. Len(ms) - 1 : i < k => u[i].num < u[k].num
  <2> TAKE i, k \in 1 .. Len(ms) - 1
  <2> HAVE i < k
  <2>1. PICK a \in 1 .. Len(ms) : u[i] = ms[a] /\ a = IF i < j THEN i ELSE i + 1
    BY <1>7
  <2>2. PICK b \in 1 .. Len(ms) : u[k] = ms[b] /\ b = IF k < j THEN k ELSE k + 1
    BY <1>7
  <2>3. a < b
    BY <1>2, <2>1, <2>2
  <2> QED
    BY <1>5, <2>1, <2>2, <2>3
<1>10. Rising(u)
  BY <1>3, <1>9 DEF Rising
<1>a. ms[j] = m /\ j \in DOMAIN ms
  BY <1>2, <1>3
<1>b. \A k \in DOMAIN u : \E i \in DOMAIN ms : i # j /\ u[k] = ms[i]
  BY <1>3, <1>7
<1>c. \A i \in DOMAIN ms : i # j => \E k \in DOMAIN u : u[k] = ms[i]
  BY <1>3, <1>8
<1>d. \A k \in DOMAIN ms : k # j => ms[k].num # m.num
  BY <1>3, <1>6
<1>11. {u[k].num : k \in DOMAIN u} = {ms[k].num : k \in DOMAIN ms} \ {m.num}
  BY <1>a, <1>b, <1>c, <1>d
<1>12. ToSet(u) = ToSet(ms) \ {m}
  BY <1>a, <1>b, <1>c, <1>d DEF ToSet
<1>13. m.num \in {ms[k].num : k \in DOMAIN ms} /\ u \in Seq(Header)
  BY <1>a, <1>2
<1> QED
  BY <1>1, <1>10, <1>11, <1>12, <1>13

\* The numbers on a list of messages.
NumsOf(ms) == {ms[k].num : k \in DOMAIN ms}

LEMMA AppendNums ==
  ASSUME NEW ms \in Seq(Header), Rising(ms), NEW m \in Header, NEW n \in Nat, m.num = n + 1,
         NumsOf(ms) \subseteq 1 .. n
  PROVE  /\ Rising(Append(ms, m))
         /\ NumsOf(Append(ms, m)) = NumsOf(ms) \cup {n + 1}
         /\ ToSet(Append(ms, m)) = ToSet(ms) \cup {m}
         /\ m \notin ToSet(ms)
<1>1. PICK u : u = Append(ms, m)
  OBVIOUS
<1>2. /\ DOMAIN u = 1 .. Len(ms) + 1 /\ DOMAIN ms = 1 .. Len(ms) /\ Len(ms) \in Nat
      /\ u[Len(ms) + 1] = m /\ \A k \in 1 .. Len(ms) : u[k] = ms[k]
  BY <1>1
<1>3. \A k \in 1 .. Len(ms) : ms[k].num \in 1 .. n
  BY <1>2 DEF NumsOf
<1>4. \A j, k \in 1 .. Len(ms) + 1 : j < k => u[j].num < u[k].num
  <2> TAKE j, k \in 1 .. Len(ms) + 1
  <2> HAVE j < k
  <2>1. CASE k = Len(ms) + 1
    BY <1>2, <1>3, <2>1
  <2>2. CASE k \in 1 .. Len(ms)
    BY <1>2, <2>2 DEF Rising
  <2> QED
    BY <1>2, <2>1, <2>2
<1>5. \A k \in 1 .. Len(ms) + 1 : k = Len(ms) + 1 \/ k \in 1 .. Len(ms)
  BY <1>2
<1>6. Rising(u)
  BY <1>2, <1>4 DEF Rising
<1>7. NumsOf(u) = NumsOf(ms) \cup {n + 1}
  BY <1>2, <1>5 DEF NumsOf
<1>8. ToSet(u) = ToSet(ms) \cup {m}
  BY <1>2, <1>5 DEF ToSet
<1>9. m \notin ToSet(ms)
  BY <1>2, <1>3 DEF ToSet
<1> QED
  BY <1>1, <1>6, <1>7, <1>8, <1>9

\* Sets of numbers that a step of slot s changes: those of the queue, of the
\* messages received and of the messages destroyed.
LEMMA PlaceMove ==
  ASSUME PlaceInv, NEW s \in Slot, ElseSame(s), nsent \in Nat, nsent' \in Nat, nsent' >= nsent,
         Nums(s)' \cup RNums' \cup gone'
           = (Nums(s) \cup RNums \cup gone) \cup (nsent + 1 .. nsent'),
         RNums \subseteq RNums', gone \subseteq gone', RNums' \cap gone' = {},
         Nums(s)' \cap (RNums' \cup gone') = {},
         (RNums' \cup gone') \subseteq RNums \cup gone \cup Nums(s)
  PROVE  PlaceInv'
<1>1. \A t \in Slot : t # s => Nums(t)' = Nums(t)
  BY DEF ElseSame, Nums, Msgs
<1>2. \A n \in 1 .. nsent' : n \in 1 .. nsent \/ n \in nsent + 1 .. nsent'
  OBVIOUS
<1>3. \A n \in 1 .. nsent : n \in 1 .. nsent' /\ n \notin nsent + 1 .. nsent'
  OBVIOUS
<1>4. \A n \in nsent + 1 .. nsent' : n \in 1 .. nsent' /\ n \notin 1 .. nsent
  OBVIOUS
<1>5. gone' \subseteq 1 .. nsent' /\ RNums' \subseteq 1 .. nsent'
  BY <1>3 DEF PlaceInv
<1>6. ASSUME NEW t \in Slot PROVE Nums(t)' \subseteq 1 .. nsent' /\ Nums(t)' \cap (RNums' \cup gone') = {}
  <2>1. CASE t = s
    <3>1. Nums(s)' \subseteq (Nums(s) \cup RNums \cup gone) \cup (nsent + 1 .. nsent')
      OBVIOUS
    <3>2. (Nums(s) \cup RNums \cup gone) \subseteq 1 .. nsent
      BY DEF PlaceInv
    <3> QED
      BY <1>3, <1>4, <2>1, <3>1, <3>2
  <2>2. CASE t # s
    <3>1. Nums(t)' = Nums(t) /\ Nums(t) \subseteq 1 .. nsent
      BY <1>1, <2>2 DEF PlaceInv
    <3>2. Nums(t) \cap (RNums \cup gone \cup Nums(s)) = {}
      BY <2>2 DEF PlaceInv
    <3> QED
      BY <1>3, <3>1, <3>2
  <2> QED
    BY <2>1, <2>2
<1>7. ASSUME NEW t \in Slot, NEW v \in Slot, t # v PROVE Nums(t)' \cap Nums(v)' = {}
  <2>1. CASE t = s
    BY <1>1, <1>3, <1>4, <1>7, <2>1 DEF PlaceInv
  <2>2. CASE v = s
    BY <1>1, <1>3, <1>4, <1>7, <2>2 DEF PlaceInv
  <2>3. CASE t # s /\ v # s
    BY <1>1, <1>7, <2>3 DEF PlaceInv
  <2> QED
    BY <2>1, <2>2, <2>3
<1>8. ASSUME NEW n \in 1 .. nsent' PROVE n \in RNums' \cup gone' \/ \E t \in Slot : n \in Nums(t)'
  <2>1. CASE n \in 1 .. nsent
    <3>1. CASE n \in RNums \cup gone \cup Nums(s)
      BY <3>1
    <3>2. CASE \E t \in Slot : t # s /\ n \in Nums(t)
      BY <1>1, <3>2
    <3> QED
      BY <2>1, <3>1, <3>2 DEF PlaceInv
  <2>2. CASE n \in nsent + 1 .. nsent'
    BY <2>2
  <2> QED
    BY <1>2, <2>1, <2>2
<1> QED
  BY <1>5, <1>6, <1>7, <1>8 DEF PlaceInv

LEMMA MsgsType ==
  ASSUME TypeInv, NEW s \in Slot
  PROVE  Msgs(s) \in Seq(Header) /\ nsent \in Nat
  BY DEF TypeInv, MsgType, QueueRec, Msgs

\* Appending to the messages received.
LEMMA RcvdNums ==
  ASSUME rcvd \in Seq(RcvRec), NEW r \in RcvRec, rcvd' = Append(rcvd, r)
  PROVE  /\ RNums' = RNums \cup {r.num} /\ rcvd' \in Seq(RcvRec)
         /\ DOMAIN rcvd' = DOMAIN rcvd \cup {Len(rcvd) + 1} /\ rcvd'[Len(rcvd) + 1] = r
         /\ \A j \in DOMAIN rcvd : j < Len(rcvd) + 1 /\ rcvd'[j] = rcvd[j]
<1>1. /\ DOMAIN rcvd' = DOMAIN rcvd \cup {Len(rcvd) + 1} /\ rcvd'[Len(rcvd) + 1] = r
      /\ \A j \in DOMAIN rcvd : j < Len(rcvd) + 1 /\ rcvd'[j] = rcvd[j]
  <2>1. Len(rcvd) \in Nat /\ DOMAIN rcvd = 1 .. Len(rcvd) /\ DOMAIN rcvd' = 1 .. Len(rcvd) + 1
    OBVIOUS
  <2>2. 1 .. Len(rcvd) + 1 = (1 .. Len(rcvd)) \cup {Len(rcvd) + 1}
    BY <2>1
  <2> QED
    BY <2>1, <2>2
<1>2. RNums' = RNums \cup {r.num}
  BY <1>1 DEF RNums
<1> QED
  BY <1>1, <1>2

LEMMA NumMoves ==
  ASSUME TypeInv, LockProtects, NumInv, NEW p \in Proc, Moves(p)
  PROVE  NumInv'
<1>1. CASE msgget(p)
  <2>1. PICK s \in Slot : ~msgque[s].alloc /\ ElseSame(s) /\ msgque'[s].msgs = <<>>
    BY <1>1, GetFacts
  <2>2. \A t \in Slot : Msgs(t)' = Msgs(t) /\ (~msgque'[t].alloc => ~msgque[t].alloc \/ t = s)
    BY <2>1 DEF ElseSame, Msgs, NumInv
  <2>3. UNCHANGED <<nsent, rcvd, gone>>
    BY <1>1, GetFacts
  <2>4. \A t \in Slot : Nums(t)' = Nums(t)
    BY <2>2 DEF Nums
  <2>5. PlaceInv'
    BY <2>3, <2>4 DEF PlaceInv, NumInv, RNums
  <2>6. \A t \in Slot : Rising(Msgs(t)') /\ (~msgque'[t].alloc => Msgs(t)' = <<>>)
    BY <2>1, <2>2 DEF NumInv, Msgs
  <2> QED
    BY <2>3, <2>5, <2>6 DEF NumInv, Msgs
<1>2. CASE msgctlRmid(p)
  <2>1. PICK s : s = SlotOf(p)
    OBVIOUS
  <2>2. /\ s \in Slot /\ ElseSame(s) /\ Msgs(s)' = <<>> /\ UNCHANGED <<nsent, rcvd>>
        /\ gone' = gone \cup {Msgs(s)[j].num : j \in DOMAIN Msgs(s)}
    BY <1>2, <2>1, RmidFacts DEF Msgs
  <2>3. gone' = gone \cup Nums(s) /\ Nums(s)' = {} /\ RNums' = RNums
    BY <2>2 DEF Nums, RNums
  <2>4. nsent \in Nat /\ nsent + 1 .. nsent' = {}
    BY <2>2, MsgsType
  <2>a. RNums \cap gone = {} /\ Nums(s) \cap (RNums \cup gone) = {}
    BY <2>2 DEF NumInv, PlaceInv
  <2>5. PlaceInv'
    BY <2>2, <2>3, <2>4, <2>a, PlaceMove DEF NumInv
  <2>6. \A t \in Slot : Rising(Msgs(t)') /\ (~msgque'[t].alloc => Msgs(t)' = <<>>)
    BY <2>2 DEF NumInv, Msgs, ElseSame, Rising
  <2> QED
    BY <2>2, <2>5, <2>6 DEF NumInv, Msgs
<1>3. CASE RcvDone(p)
  <2>1. PICK s : s = SlotOf(p)
    OBVIOUS
  <2>2. PICK m : m = smp[p]
    OBVIOUS
  <2>3. PICK r : r = [id |-> uap[p].id, type |-> m.type, num |-> m.num]
    OBVIOUS
  <2>4. /\ s \in Slot /\ ElseSame(s) /\ m \in Header /\ Msgs(s)' = Unlinked(Msgs(s), m)
        /\ msgque'[s].alloc = msgque[s].alloc /\ rcvd' = Append(rcvd, r)
        /\ UNCHANGED <<nsent, gone>> /\ pc[p] = "rcvcopy"
    BY <1>3, <2>1, <2>2, <2>3, RcvFacts DEF Msgs
  <2>5. m \in ToSet(Msgs(s)) /\ msgque[s].alloc
    BY <2>1, <2>2, <2>4 DEF LockProtects, Holds, Queue, Msgs, Valid, SlotOf
  <2>6. r \in RcvRec /\ r.num = m.num
    BY <2>3, <2>4 DEF RcvRec, TypeInv, MsgType, CallRec, Header
  <2>7. Msgs(s) \in Seq(Header) /\ Rising(Msgs(s)) /\ rcvd \in Seq(RcvRec)
    BY <2>4, MsgsType DEF NumInv
  <2>8. /\ Rising(Msgs(s)') /\ Nums(s)' = Nums(s) \ {m.num} /\ m.num \in Nums(s)
    <3>1. PICK ms : ms = Msgs(s)
      OBVIOUS
    <3>2. PICK u : u = Unlinked(ms, m)
      OBVIOUS
    <3>3. /\ Rising(u) /\ {u[k].num : k \in DOMAIN u} = {ms[k].num : k \in DOMAIN ms} \ {m.num}
          /\ m.num \in {ms[k].num : k \in DOMAIN ms}
      <4>1. ms \in Seq(Header) /\ Rising(ms) /\ m \in ToSet(ms)
        BY <2>5, <2>7, <3>1
      <4>2. /\ Rising(Unlinked(ms, m)) /\ m.num \in {ms[k].num : k \in DOMAIN ms}
            /\ {Unlinked(ms, m)[k].num : k \in DOMAIN Unlinked(ms, m)}
                 = {ms[k].num : k \in DOMAIN ms} \ {m.num}
        BY ONLY <4>1, UnlinkedNums
      <4> QED
        BY ONLY <4>2, <3>2
    <3>4. Msgs(s)' = u /\ Nums(s) = {ms[k].num : k \in DOMAIN ms}
      BY <2>4, <3>1, <3>2 DEF Nums
    <3>5. Nums(s)' = {u[k].num : k \in DOMAIN u}
      BY <3>4 DEF Nums
    <3> QED
      BY <3>3, <3>4, <3>5
  <2>9. RNums' = RNums \cup {m.num} /\ rcvd' \in Seq(RcvRec)
    BY <2>4, <2>6, <2>7, RcvdNums
  <2>10. nsent \in Nat /\ nsent + 1 .. nsent' = {}
    BY <2>4, MsgsType
  <2>11. m.num \notin RNums \cup gone /\ Nums(s) \cap (RNums \cup gone) = {} /\ RNums \cap gone = {}
    BY <2>4, <2>8 DEF NumInv, PlaceInv
  <2>12. PlaceInv'
    BY <2>4, <2>8, <2>9, <2>10, <2>11, PlaceMove DEF NumInv
  <2>13. \A t \in Slot : Rising(Msgs(t)') /\ (~msgque'[t].alloc => Msgs(t)' = <<>>)
    BY <2>4, <2>5, <2>8 DEF NumInv, Msgs, ElseSame
  <2>14. ASSUME NEW j \in DOMAIN rcvd', NEW k \in DOMAIN rcvd', j # k
         PROVE  rcvd'[j].num # rcvd'[k].num
    <3>1. /\ DOMAIN rcvd' = DOMAIN rcvd \cup {Len(rcvd) + 1} /\ rcvd'[Len(rcvd) + 1] = r
          /\ \A i \in DOMAIN rcvd : rcvd'[i] = rcvd[i]
      BY <2>4, <2>6, <2>7, RcvdNums
    <3>2. \A i \in DOMAIN rcvd : rcvd[i].num # r.num
      BY <2>6, <2>11 DEF RNums
    <3> QED
      BY <2>14, <3>1, <3>2 DEF NumInv
  <2> QED
    BY <2>9, <2>12, <2>13, <2>14 DEF NumInv, Msgs
<1>4. CASE SndDone(p)
  <2>1. PICK s : s = SlotOf(p)
    OBVIOUS
  <2>2. PICK m : m = [smp[p] EXCEPT !.num = nsent + 1]
    OBVIOUS
  <2>4. /\ s \in Slot /\ ElseSame(s) /\ m \in Header /\ Msgs(s)' = Append(Msgs(s), m)
        /\ msgque'[s].alloc = msgque[s].alloc /\ nsent' = nsent + 1
        /\ UNCHANGED <<rcvd, gone>> /\ pc[p] = "sndtext" /\ smp[p] \in Header
    BY <1>4, <2>1, <2>2, SndFacts DEF Msgs
  <2>5. msgque[s].alloc
    BY <2>1, <2>4 DEF LockProtects, Holds, Valid, SlotOf
  <2>6. m.num = nsent + 1
    BY <2>2, <2>4 DEF Header
  <2>7. Msgs(s) \in Seq(Header) /\ Rising(Msgs(s)) /\ nsent \in Nat /\ Nums(s) \subseteq 1 .. nsent
    BY <2>4, MsgsType DEF NumInv, PlaceInv
  <2>8. Rising(Msgs(s)') /\ Nums(s)' = Nums(s) \cup {nsent + 1} /\ RNums' = RNums
    <3>1. PICK ms : ms = Msgs(s)
      OBVIOUS
    <3>2. PICK u : u = Append(ms, m)
      OBVIOUS
    <3>3. PICK n : n = nsent
      OBVIOUS
    <3>4. Msgs(s)' = u /\ Nums(s) = NumsOf(ms) /\ m.num = n + 1 /\ n \in Nat
      BY <2>4, <2>6, <2>7, <3>1, <3>2, <3>3 DEF Nums, NumsOf
    <3>5. /\ Rising(u) /\ NumsOf(u) = NumsOf(ms) \cup {n + 1}
      <4>1. ms \in Seq(Header) /\ Rising(ms) /\ m \in Header /\ NumsOf(ms) \subseteq 1 .. n
        BY <2>4, <2>7, <3>1, <3>3, <3>4
      <4> QED
        BY <3>2, <3>4, <4>1, AppendNums
    <3>6. Nums(s)' = NumsOf(u) /\ RNums' = RNums
      BY <2>4, <3>4 DEF Nums, NumsOf, RNums
    <3> QED
      BY <3>3, <3>4, <3>5, <3>6
  <2>9. nsent + 1 .. nsent' = {nsent + 1} /\ nsent' >= nsent /\ nsent' \in Nat /\ nsent + 1 \notin 1 .. nsent
    BY <2>4, <2>7
  <2>10. nsent + 1 \notin RNums \cup gone /\ Nums(s) \cap (RNums \cup gone) = {} /\ RNums \cap gone = {}
    BY <2>4, <2>9 DEF NumInv, PlaceInv
  <2>12. PlaceInv'
    BY <2>4, <2>7, <2>8, <2>9, <2>10, PlaceMove DEF NumInv
  <2>13. \A t \in Slot : Rising(Msgs(t)') /\ (~msgque'[t].alloc => Msgs(t)' = <<>>)
    BY <2>4, <2>5, <2>8 DEF NumInv, Msgs, ElseSame
  <2> QED
    BY <2>4, <2>12, <2>13 DEF NumInv, Msgs
<1>5. CASE GetresCopy(p) \/ SndFault(p)
  <2>1. UNCHANGED <<msgque, nsent, rcvd, gone>>
    BY <1>5, CopyFacts, FaultFacts
  <2>2. \A s \in Slot : Nums(s)' = Nums(s) /\ Msgs(s)' = Msgs(s)
    BY <2>1 DEF Nums, Msgs
  <2> QED
    BY <2>1, <2>2 DEF NumInv, PlaceInv, RNums, Msgs
<1> QED
  BY <1>1, <1>2, <1>3, <1>4, <1>5 DEF Moves

LEMMA NumStep ==
  ASSUME TypeInv, LockProtects, NumInv, [Next]_vars
  PROVE  NumInv'
<1>1. CASE Quiet
  <2>1. \A s \in Slot : Nums(s)' = Nums(s) /\ Msgs(s)' = Msgs(s) /\ msgque'[s].alloc = msgque[s].alloc
    BY <1>1 DEF Quiet, SameQueue, Nums, Msgs
  <2>2. UNCHANGED <<nsent, rcvd, gone>>
    BY <1>1 DEF Quiet
  <2> QED
    BY <2>1, <2>2 DEF NumInv, PlaceInv, RNums, Msgs
<1> QED
  BY <1>1, Kinds, NumMoves

-----------------------------------------------------------------------------
(* Messages of a type are received in order *)

\* What was received from slot s was sent before what is on its queue.
Before ==
  \A s \in Slot : \A j \in DOMAIN rcvd, k \in DOMAIN Msgs(s) :
    rcvd[j].id[2] = s /\ rcvd[j].type = Msgs(s)[k].type => rcvd[j].num < Msgs(s)[k].num

\* m is the first message of its type.
FirstOf(m, ms) == \A k \in DOMAIN ms : ms[k].type = m.type => m.num <= ms[k].num

\* The message that msgrcv() copies is.
CopyFirst == \A p \in Proc : pc[p] = "rcvcopy" => FirstOf(smp[p], Queue(p).msgs)

OrderInv == InOrder /\ Before /\ CopyFirst

LEMMA BestFirst ==
  ASSUME NEW ms \in Seq(Header), Rising(ms), NEW typ \in Int, NEW m \in Best(ms, typ)
  PROVE  FirstOf(m, ms)
<1>1. PICK j \in DOMAIN ms :
        /\ m = ms[j] /\ Match(ms[j], typ)
        /\ \A k \in DOMAIN ms : k # j /\ Match(ms[k], typ) => Prefers(ms, typ, j, k)
  BY DEF Best
<1>2. SUFFICES ASSUME NEW k \in DOMAIN ms, ms[k].type = m.type PROVE m.num <= ms[k].num
  BY DEF FirstOf
<1>3. j \in 1 .. Len(ms) /\ k \in 1 .. Len(ms) /\ ms[j] \in Header /\ ms[k] \in Header
  BY <1>1, <1>2
<1>4. ms[j].num \in Int /\ ms[k].num \in Int
  BY <1>3 DEF Header
<1>5. CASE k # j
  <2>1. Match(ms[k], typ)
    BY <1>1, <1>2 DEF Match
  <2>2. j < k
    BY <1>1, <1>2, <1>5, <2>1 DEF Prefers
  <2> QED
    BY <1>1, <1>3, <1>4, <2>2 DEF Rising
<1> QED
  BY <1>1, <1>4, <1>5

\* While q copies with the lock held, nobody else moves a message of its queue.
LEMMA HeldSame ==
  ASSUME TypeInv, LockProtects, NEW p \in Proc, Moves(p), NEW q \in Proc, q # p, Holds(q)
  PROVE  msgque'[SlotOf(q)] = msgque[SlotOf(q)]
<1>0. /\ SlotOf(q) \in Slot /\ msglock[SlotOf(q)] /\ msgque[SlotOf(q)].alloc
      /\ (Holds(p) => SlotOf(p) # SlotOf(q))
  BY QueueType DEF TypeInv, LockProtects, Valid, SlotOf
<1>1. CASE msgget(p)
  BY <1>0, <1>1, GetFacts DEF ElseSame
<1>2. CASE msgctlRmid(p)
  BY <1>0, <1>2, RmidFacts DEF ElseSame
<1>3. CASE RcvDone(p)
  BY <1>0, <1>3, RcvFacts DEF ElseSame, Holds
<1>4. CASE SndDone(p)
  BY <1>0, <1>4, SndFacts DEF ElseSame, Holds
<1>5. CASE GetresCopy(p) \/ SndFault(p)
  BY <1>5, CopyFacts, FaultFacts
<1> QED
  BY <1>1, <1>2, <1>3, <1>4, <1>5 DEF Moves

LEMMA FirstStep ==
  ASSUME TypeInv, LockProtects, NumInv, CopyFirst, [Next]_vars
  PROVE  CopyFirst'
<1> SUFFICES ASSUME NEW q \in Proc, pc'[q] = "rcvcopy"
             PROVE  FirstOf(smp'[q], Queue(q)'.msgs)
  BY DEF CopyFirst
<1>0. SlotOf(q) \in Slot /\ uap[q].typ \in Int /\ Msgs(SlotOf(q)) \in Seq(Header)
  BY QueueType DEF TypeInv, Queue, Msgs
<1>1. CASE Quiet
  <2>1. CASE SameCall(q)
    <3>1. Queue(q)'.msgs = Queue(q).msgs
      BY <1>0, <1>1, <2>1 DEF Quiet, SameQueue, SameCall, Queue, SlotOf
    <3> QED
      BY <2>1, <3>1 DEF CopyFirst, SameCall
  <2>2. CASE FindCopy(q)
    <3>1. PICK m \in Best(Queue(q).msgs, uap[q].typ) : smp' = [smp EXCEPT ![q] = m]
      BY <2>2 DEF FindCopy
    <3>2. smp'[q] = m /\ Queue(q)' = Queue(q)
      BY <2>2, <3>1 DEF FindCopy, TypeInv, MsgType, Queue, SlotOf
    <3>3. Rising(Queue(q).msgs) /\ Queue(q).msgs \in Seq(Header)
      BY <1>0 DEF NumInv, Queue, Msgs
    <3> QED
      BY <1>0, <3>1, <3>2, <3>3, BestFirst
  <2> QED
    BY <1>1, <2>1, <2>2 DEF Quiet
<1>2. ASSUME NEW p \in Proc, OthersSame(p), Moves(p) PROVE FirstOf(smp'[q], Queue(q)'.msgs)
  <2>1. CASE q # p
    <3>1. pc[q] = "rcvcopy" /\ uap'[q] = uap[q] /\ smp'[q] = smp[q]
      BY <1>2, <2>1 DEF OthersSame
    <3>2. Queue(q)' = Queue(q)
      BY <1>2, <2>1, <3>1, HeldSame DEF Holds, Queue, SlotOf
    <3> QED
      BY <3>1, <3>2 DEF CopyFirst
  <2>2. CASE q = p
    <3>1. CASE msgget(p)
      <4>1. PICK s \in Slot : ~msgque[s].alloc /\ ElseSame(s)
        BY <3>1, GetFacts
      <4>2. pc = pc' /\ uap = uap' /\ smp = smp'
        BY <3>1, GetFacts
      <4>3. msgque[SlotOf(q)].alloc
        BY <4>2 DEF LockProtects, Holds, Valid, SlotOf
      <4>4. Queue(q)' = Queue(q)
        BY <1>0, <4>1, <4>2, <4>3 DEF Queue, SlotOf, ElseSame
      <4> QED
        BY <4>2, <4>4 DEF CopyFirst
    <3> QED
      BY <1>2, <2>2, <3>1, RmidFacts, RcvFacts, CopyFacts, SndFacts, FaultFacts DEF Moves
  <2> QED
    BY <2>1, <2>2
<1> QED
  BY <1>1, <1>2, Kinds

\* The queue gets no new message that was sent before, and nothing is received.
LEMMA BeforeKept ==
  ASSUME Before, UNCHANGED rcvd,
         \A s \in Slot : Msgs(s)' = Msgs(s) \/ Msgs(s)' = <<>>
  PROVE  Before'
<1> SUFFICES ASSUME NEW s \in Slot, NEW j \in DOMAIN rcvd', NEW k \in DOMAIN Msgs(s)',
                    rcvd'[j].id[2] = s, rcvd'[j].type = Msgs(s)'[k].type
             PROVE  rcvd'[j].num < Msgs(s)'[k].num
  BY DEF Before
<1>1. Msgs(s)' = Msgs(s)
  OBVIOUS
<1> QED
  BY <1>1 DEF Before

LEMMA OrderStep ==
  ASSUME TypeInv, LockProtects, NumInv, OrderInv, [Next]_vars
  PROVE  OrderInv'
<1>0. CopyFirst'
  BY FirstStep DEF OrderInv
<1>1. ASSUME UNCHANGED rcvd PROVE InOrder'
  BY <1>1 DEF OrderInv, InOrder
<1>2. CASE Quiet
  <2>1. UNCHANGED rcvd /\ \A s \in Slot : Msgs(s)' = Msgs(s)
    BY <1>2 DEF Quiet, SameQueue, Msgs
  <2> QED
    BY <1>0, <1>1, <2>1, BeforeKept DEF OrderInv
<1>3. ASSUME NEW p \in Proc, msgget(p) \/ msgctlRmid(p) \/ GetresCopy(p) \/ SndFault(p)
      PROVE  OrderInv'
  <2>1. UNCHANGED rcvd /\ \A s \in Slot : Msgs(s)' = Msgs(s) \/ Msgs(s)' = <<>>
    BY <1>3, GetFacts, RmidFacts, CopyFacts, FaultFacts DEF ElseSame, Msgs
  <2> QED
    BY <1>0, <1>1, <2>1, BeforeKept DEF OrderInv
<1>4. ASSUME NEW p \in Proc, SndDone(p) PROVE OrderInv'
  <2>1. PICK s : s = SlotOf(p)
    OBVIOUS
  <2>2. PICK m : m = [smp[p] EXCEPT !.num = nsent + 1]
    OBVIOUS
  <2>3. /\ s \in Slot /\ ElseSame(s) /\ smp[p] \in Header /\ Msgs(s)' = Append(Msgs(s), m)
        /\ UNCHANGED rcvd
    BY <1>4, <2>1, <2>2, SndFacts DEF Msgs
  <2>4. m.num = nsent + 1 /\ Msgs(s) \in Seq(Header) /\ nsent \in Nat
    BY <2>2, <2>3, MsgsType DEF Header
  <2>5. \A j \in DOMAIN rcvd : rcvd[j].num < m.num
    <3>1. \A j \in DOMAIN rcvd : rcvd[j].num \in 1 .. nsent
      BY DEF NumInv, PlaceInv, RNums
    <3> QED
      BY <2>4, <3>1
  <2>6. ASSUME NEW t \in Slot, NEW j \in DOMAIN rcvd', NEW k \in DOMAIN Msgs(t)',
               rcvd'[j].id[2] = t, rcvd'[j].type = Msgs(t)'[k].type
        PROVE  rcvd'[j].num < Msgs(t)'[k].num
    <3>1. CASE t # s
      BY <2>3, <2>6, <3>1 DEF ElseSame, Msgs, OrderInv, Before
    <3>2. CASE t = s
      <4>1. /\ k = Len(Msgs(s)) + 1 => Msgs(s)'[k] = m
            /\ k # Len(Msgs(s)) + 1 => k \in DOMAIN Msgs(s) /\ Msgs(s)'[k] = Msgs(s)[k]
        <5>1. PICK ms : ms = Msgs(s)
          OBVIOUS
        <5>2. ms \in Seq(Header) /\ k \in DOMAIN Append(ms, m)
          BY <2>3, <2>4, <2>6, <3>2, <5>1
        <5>3. /\ k = Len(ms) + 1 => Append(ms, m)[k] = m
              /\ k # Len(ms) + 1 => k \in DOMAIN ms /\ Append(ms, m)[k] = ms[k]
          BY <5>2
        <5> QED
          BY <2>3, <5>1, <5>3
      <4> QED
        BY <2>3, <2>5, <2>6, <3>2, <4>1 DEF OrderInv, Before
    <3> QED
      BY <3>1, <3>2
  <2>7. Before'
    BY <2>6 DEF Before
  <2> QED
    BY <1>0, <1>1, <2>3, <2>7 DEF OrderInv
<1>5. ASSUME NEW p \in Proc, RcvDone(p) PROVE OrderInv'
  <2>1. PICK s : s = SlotOf(p)
    OBVIOUS
  <2>2. PICK m : m = smp[p]
    OBVIOUS
  <2>3. PICK r : r = [id |-> uap[p].id, type |-> m.type, num |-> m.num]
    OBVIOUS
  <2>4. /\ s \in Slot /\ ElseSame(s) /\ m \in Header /\ Msgs(s)' = Unlinked(Msgs(s), m)
        /\ rcvd' = Append(rcvd, r) /\ pc[p] = "rcvcopy"
    BY <1>5, <2>1, <2>2, <2>3, RcvFacts DEF Msgs
  <2>5. m \in ToSet(Msgs(s)) /\ Msgs(s) \in Seq(Header) /\ rcvd \in Seq(RcvRec) /\ Rising(Msgs(s))
    BY <2>1, <2>2, <2>4, MsgsType DEF LockProtects, Holds, Queue, Msgs, NumInv
  <2>6. r \in RcvRec /\ r.num = m.num /\ r.type = m.type /\ r.id[2] = s
    BY <2>1, <2>3, <2>4 DEF RcvRec, TypeInv, MsgType, CallRec, Header, SlotOf
  <2>7. /\ DOMAIN rcvd' = DOMAIN rcvd \cup {Len(rcvd) + 1} /\ rcvd'[Len(rcvd) + 1] = r
        /\ \A j \in DOMAIN rcvd : j < Len(rcvd) + 1 /\ rcvd'[j] = rcvd[j]
    BY <2>4, <2>5, <2>6, RcvdNums
  <2>8. PICK i \in DOMAIN Msgs(s) : Msgs(s)[i] = m
    BY <2>5 DEF ToSet
  <2>9. FirstOf(m, Msgs(s))
    BY <2>1, <2>2, <2>4 DEF OrderInv, CopyFirst, Queue, Msgs
  <2>10. \A j \in DOMAIN rcvd : rcvd[j].id = r.id /\ rcvd[j].type = r.type => rcvd[j].num < r.num
    BY <2>4, <2>6, <2>8 DEF OrderInv, Before
  <2>11. InOrder'
    <3> SUFFICES ASSUME NEW j \in DOMAIN rcvd', NEW k \in DOMAIN rcvd', j < k,
                        rcvd'[j].id = rcvd'[k].id, rcvd'[j].type = rcvd'[k].type
                 PROVE  rcvd'[j].num < rcvd'[k].num
      BY DEF InOrder
    <3>0. Len(rcvd) \in Nat /\ DOMAIN rcvd = 1 .. Len(rcvd)
      BY <2>5
    <3>1. j \in DOMAIN rcvd
      BY <2>7, <3>0
    <3>2. CASE k = Len(rcvd) + 1
      BY <2>7, <2>10, <3>1, <3>2
    <3>3. CASE k \in DOMAIN rcvd
      BY <2>7, <3>1, <3>3 DEF OrderInv, InOrder
    <3> QED
      BY <2>7, <3>2, <3>3
  <2>12. PICK u : u = Unlinked(Msgs(s), m)
    OBVIOUS
  <2>13. \A k \in DOMAIN u : u[k].num # m.num /\ \E a \in DOMAIN Msgs(s) : u[k] = Msgs(s)[a]
    <3>1. PICK ms : ms = Msgs(s)
      OBVIOUS
    <3>2. ms \in Seq(Header) /\ Rising(ms) /\ m \in ToSet(ms) /\ u = Unlinked(ms, m)
      BY <2>5, <2>12, <3>1
    <3>3. /\ {Unlinked(ms, m)[k].num : k \in DOMAIN Unlinked(ms, m)}
                 = {ms[k].num : k \in DOMAIN ms} \ {m.num}
          /\ ToSet(Unlinked(ms, m)) = ToSet(ms) \ {m}
      BY ONLY <3>2, UnlinkedNums
    <3>4. {u[k].num : k \in DOMAIN u} = {ms[k].num : k \in DOMAIN ms} \ {m.num}
      BY ONLY <3>2, <3>3
    <3>5. {u[k] : k \in DOMAIN u} \subseteq {ms[k] : k \in DOMAIN ms}
      BY ONLY <3>2, <3>3 DEF ToSet
    <3> QED
      BY <3>1, <3>4, <3>5
  <2>14. \A a \in DOMAIN Msgs(s) : Msgs(s)[a].num \in Int
    <3>1. \A a \in DOMAIN Msgs(s) : Msgs(s)[a] \in Header
      BY <2>5
    <3> QED
      BY <3>1 DEF Header
  <2>15. \A k \in DOMAIN u : u[k].type = m.type => m.num < u[k].num
    <3>1. m.num \in Int
      BY <2>4 DEF Header
    <3> QED
      BY <2>9, <2>13, <2>14, <3>1 DEF FirstOf
  <2>16. ASSUME NEW t \in Slot, NEW j \in DOMAIN rcvd', NEW k \in DOMAIN Msgs(t)',
               rcvd'[j].id[2] = t, rcvd'[j].type = Msgs(t)'[k].type
        PROVE  rcvd'[j].num < Msgs(t)'[k].num
    <3>1. CASE t # s
      <4>1. Msgs(t)' = Msgs(t) /\ j \in DOMAIN rcvd
        BY <2>4, <2>6, <2>7, <2>16, <3>1 DEF ElseSame, Msgs
      <4> QED
        BY <2>7, <2>16, <4>1 DEF OrderInv, Before
    <3>2. CASE t = s
      <4>1. Msgs(t)' = u
        BY <2>4, <2>12, <3>2
      <4>2. CASE j = Len(rcvd) + 1
        BY <2>6, <2>7, <2>15, <2>16, <4>1, <4>2
      <4>3. CASE j \in DOMAIN rcvd
        <5>1. PICK a \in DOMAIN Msgs(s) : u[k] = Msgs(s)[a]
          BY <2>13, <2>16, <4>1
        <5> QED
          BY <2>4, <2>7, <2>16, <3>2, <4>1, <4>3, <5>1 DEF OrderInv, Before
      <4> QED
        BY <2>7, <4>2, <4>3
    <3> QED
      BY <3>1, <3>2
  <2>17. Before'
    BY <2>16 DEF Before
  <2> QED
    BY <1>0, <2>11, <2>17 DEF OrderInv
<1> QED
  BY <1>2, <1>3, <1>4, <1>5, Kinds DEF Moves

-----------------------------------------------------------------------------
(* msg_qnum and msg_cbytes *)

Sizes(ms) == [k \in 1 .. Len(ms) |-> ms[k].size]
Bytes(ms) == Total(Sizes(ms), 1 .. Len(ms))

CountInv ==
  \A s \in Slot : msgque[s].qnum = Len(Msgs(s)) /\ msgque[s].cbytes = Bytes(Msgs(s))

LEMMA SizesInts ==
  ASSUME NEW ms \in Seq(Header)
  PROVE  /\ Len(ms) \in Nat /\ IsFiniteSet(1 .. Len(ms)) /\ Ints(Sizes(ms), 1 .. Len(ms))
         /\ \A k \in 1 .. Len(ms) : Sizes(ms)[k] = ms[k].size /\ ms[k].size \in Nat
<1>1. \A k \in 1 .. Len(ms) : ms[k] \in Header
  OBVIOUS
<1>2. \A k \in 1 .. Len(ms) : Sizes(ms)[k] = ms[k].size /\ ms[k].size \in Nat
  BY <1>1 DEF Sizes, Header
<1>3. Len(ms) \in Nat /\ IsFiniteSet(1 .. Len(ms))
  BY FS_Interval
<1>4. Ints(Sizes(ms), 1 .. Len(ms))
  BY <1>2 DEF Ints
<1> QED
  BY <1>2, <1>3, <1>4

\* Bytes is what CountsExact adds up.
LEMMA BytesIs ==
  ASSUME NEW ms \in Seq(Header)
  PROVE  FoldSeq(LAMBDA m, n : m.size + n, 0, ms) = Bytes(ms)
<1>0. DOMAIN ms = 1 .. Len(ms)
  OBVIOUS
<1> DEFINE f == Sizes(ms)
           D == 1 .. Len(ms)
           G(h) == h = [s \in SUBSET D |->
                          IF s = {} THEN 0
                          ELSE ms[CHOOSE x \in s : TRUE].size + h[s \ {CHOOSE x \in s : TRUE}]]
<1>1. \A h : G(h) <=> SumFcn(f, D, h)
  <2>1. \A s \in SUBSET D : s # {} => ms[First(s)].size = f[First(s)]
    BY FirstIn, SizesInts
  <2> QED
    BY <2>1 DEF SumFcn, First
<1>2. \E h : G(h)
  <2>1. PICK h : SumFcn(f, D, h)
    BY SizesInts, SumFcnExists
  <2> HIDE DEF G, f
  <2> QED
    BY <1>1, <2>1, Zenon
<1>3. PICK h : h = CHOOSE g : G(g)
  OBVIOUS
<1>4. G(h)
  BY <1>2, <1>3
<1>5. FoldSeq(LAMBDA m, n : m.size + n, 0, ms) = h[D]
  BY <1>0, <1>3 DEF FoldSeq, FoldFunction, FoldFunctionOnSet, MapThenFoldSet
<1>6. Total(f, D) = h[D]
  BY <1>1, <1>4, SizesInts, TotalOf
<1> QED
  BY <1>5, <1>6 DEF Bytes

LEMMA BytesAppend ==
  ASSUME NEW ms \in Seq(Header), NEW m \in Header
  PROVE  Bytes(Append(ms, m)) = Bytes(ms) + m.size /\ Len(Append(ms, m)) = Len(ms) + 1
<1>1. PICK u : u = Append(ms, m)
  OBVIOUS
<1>2. PICK n : n = Len(ms)
  OBVIOUS
<1>3. /\ u \in Seq(Header) /\ Len(u) = n + 1 /\ u[n + 1] = m /\ n \in Nat
      /\ \A k \in 1 .. n : u[k] = ms[k]
  BY <1>1, <1>2
<1>4. PICK f : f = Sizes(u)
  OBVIOUS
<1>5. Ints(f, 1 .. n + 1) /\ f[n + 1] = m.size
  BY <1>3, <1>4, SizesInts
<1>6. Total(f, 1 .. n + 1) = Total(f, 1 .. n) + f[n + 1]
  BY <1>3, <1>5, TotalLast
<1>7. \A k \in 1 .. n : f[k] = Sizes(ms)[k]
  BY <1>2, <1>3, <1>4, SizesInts DEF Sizes
<1>8. Total(f, 1 .. n) = Total(Sizes(ms), 1 .. n)
  BY <1>2, <1>7, SizesInts, TotalSame
<1> QED
  BY <1>1, <1>2, <1>3, <1>4, <1>5, <1>6, <1>8 DEF Bytes

LEMMA BytesUnlinked ==
  ASSUME NEW ms \in Seq(Header), NEW m \in ToSet(ms)
  PROVE  /\ Bytes(Unlinked(ms, m)) = Bytes(ms) - m.size
         /\ Len(Unlinked(ms, m)) = Len(ms) - 1
<1>1. PICK u : u = Unlinked(ms, m)
  OBVIOUS
<1>2. PICK j \in 1 .. Len(ms) :
         /\ ms[j] = m /\ Len(u) = Len(ms) - 1 /\ u \in Seq(Header)
         /\ \A k \in 1 .. Len(ms) - 1 : u[k] = IF k < j THEN ms[k] ELSE ms[k + 1]
  BY <1>1, UnlinkedIs
<1>3. PICK n : n = Len(ms) - 1
  OBVIOUS
<1>4. n \in Nat /\ Len(ms) = n + 1 /\ Len(u) = n /\ j \in 1 .. n + 1
  BY <1>2, <1>3
<1>5. PICK f : f = Sizes(ms)
  OBVIOUS
<1>6. PICK g : g = Sizes(u)
  OBVIOUS
<1>7. Ints(f, 1 .. n + 1) /\ f[j] = m.size
  BY <1>2, <1>4, <1>5, SizesInts
<1>8. \A k \in 1 .. n : g[k] = IF k < j THEN f[k] ELSE f[k + 1]
  <2> TAKE k \in 1 .. n
  <2>1. g[k] = u[k].size /\ f[k] = ms[k].size /\ f[k + 1] = ms[k + 1].size
    BY <1>4, <1>5, <1>6 DEF Sizes
  <2> QED
    BY <1>2, <1>4, <2>1
<1>9. Total(g, 1 .. n) = Total(f, 1 .. n + 1) - f[j]
  BY <1>4, <1>7, <1>8, TotalCut
<1> QED
  BY <1>1, <1>2, <1>4, <1>5, <1>6, <1>7, <1>9 DEF Bytes

LEMMA BytesNone == Bytes(<<>>) = 0 /\ Len(<<>>) = 0
<1>1. 1 .. Len(<<>>) = {} /\ IsFiniteSet({})
  BY FS_EmptySet
<1> QED
  BY <1>1, TotalZero DEF Bytes

LEMMA CountStep ==
  ASSUME Base, NumInv, CountInv, [Next]_vars
  PROVE  CountInv'
<1> USE DEF Base
<1>1. CASE Quiet
  <2>1. \A s \in Slot : /\ Msgs(s)' = Msgs(s) /\ msgque'[s].qnum = msgque[s].qnum
                        /\ msgque'[s].cbytes = msgque[s].cbytes
    BY <1>1 DEF Quiet, SameQueue, Msgs
  <2> QED
    BY <2>1 DEF CountInv
<1>2. ASSUME NEW s \in Slot, ElseSame(s),
             msgque'[s].qnum = Len(Msgs(s)'), msgque'[s].cbytes = Bytes(Msgs(s)')
      PROVE  CountInv'
  <2>1. \A t \in Slot : t # s => msgque'[t] = msgque[t] /\ Msgs(t)' = Msgs(t)
    BY <1>2 DEF ElseSame, Msgs
  <2> QED
    BY <1>2, <2>1 DEF CountInv
<1>3. ASSUME NEW p \in Proc, msgget(p) PROVE CountInv'
  <2>1. PICK s \in Slot : /\ ~msgque[s].alloc /\ ElseSame(s) /\ Msgs(s)' = <<>>
                          /\ msgque'[s].qnum = 0 /\ msgque'[s].cbytes = msgque[s].cbytes
    BY <1>3, GetFacts DEF Msgs
  <2>2. msgque[s].cbytes = Bytes(<<>>)
    BY <2>1 DEF CountInv, NumInv
  <2> QED
    BY <1>2, <2>1, <2>2, BytesNone
<1>4. ASSUME NEW p \in Proc, msgctlRmid(p) PROVE CountInv'
  <2>1. PICK s : s = SlotOf(p)
    OBVIOUS
  <2>2. /\ s \in Slot /\ ElseSame(s) /\ Msgs(s)' = <<>>
        /\ msgque'[s].qnum = 0 /\ msgque'[s].cbytes = 0
    BY <1>4, <2>1, RmidFacts DEF Msgs
  <2> QED
    BY <1>2, <2>2, BytesNone
<1>5. ASSUME NEW p \in Proc, RcvDone(p) PROVE CountInv'
  <2>1. PICK s : s = SlotOf(p)
    OBVIOUS
  <2>2. PICK m : m = smp[p]
    OBVIOUS
  <2>3. PICK ms : ms = Msgs(s)
    OBVIOUS
  <2>4. /\ s \in Slot /\ ElseSame(s) /\ Msgs(s)' = Unlinked(ms, m) /\ pc[p] = "rcvcopy"
        /\ msgque'[s].qnum = msgque[s].qnum - 1 /\ msgque'[s].cbytes = msgque[s].cbytes - m.size
    BY <1>5, <2>1, <2>2, <2>3, RcvFacts DEF Msgs
  <2>5. m \in ToSet(ms) /\ ms \in Seq(Header)
    BY <2>1, <2>2, <2>3, <2>4, MsgsType DEF LockProtects, Holds, Queue, Msgs
  <2>6. msgque[s].qnum = Len(ms) /\ msgque[s].cbytes = Bytes(ms)
    BY <2>3, <2>4 DEF CountInv
  <2> QED
    BY <1>2, <2>4, <2>5, <2>6, BytesUnlinked
<1>6. ASSUME NEW p \in Proc, SndDone(p) PROVE CountInv'
  <2>1. PICK s : s = SlotOf(p)
    OBVIOUS
  <2>2. PICK m : m = [smp[p] EXCEPT !.num = nsent + 1]
    OBVIOUS
  <2>3. PICK ms : ms = Msgs(s)
    OBVIOUS
  <2>4. /\ s \in Slot /\ ElseSame(s) /\ Msgs(s)' = Append(ms, m) /\ m \in Header
        /\ msgque'[s].qnum = msgque[s].qnum + 1 /\ smp[p] \in Header
        /\ msgque'[s].cbytes = msgque[s].cbytes + smp[p].size
    BY <1>6, <2>1, <2>2, <2>3, SndFacts DEF Msgs
  <2>5. m.size = smp[p].size /\ ms \in Seq(Header)
    BY <2>2, <2>3, <2>4, MsgsType DEF Header
  <2>6. msgque[s].qnum = Len(ms) /\ msgque[s].cbytes = Bytes(ms)
    BY <2>3, <2>4 DEF CountInv
  <2> QED
    BY <1>2, <2>4, <2>5, <2>6, BytesAppend
<1>7. ASSUME NEW p \in Proc, GetresCopy(p) \/ SndFault(p) PROVE CountInv'
  <2>1. msgque' = msgque
    BY <1>7, CopyFacts, FaultFacts
  <2> QED
    BY <2>1 DEF CountInv, Msgs
<1> QED
  BY <1>1, <1>3, <1>4, <1>5, <1>6, <1>7, Kinds DEF Moves

LEMMA CountsMean == ASSUME Base, CountInv PROVE CountsExact
<1>1. \A s \in Slot : FoldSeq(LAMBDA m, n : m.size + n, 0, msgque[s].msgs) = Bytes(Msgs(s))
  <2> TAKE s \in Slot
  <2>1. PICK ms : ms = msgque[s].msgs
    OBVIOUS
  <2>2. ms \in Seq(Header) /\ Msgs(s) = ms
    BY <2>1, MsgsType DEF Base, Msgs
  <2>3. FoldSeq(LAMBDA m, n : m.size + n, 0, ms) = Bytes(ms)
    BY <2>2, BytesIs
  <2> QED
    BY <2>1, <2>2, <2>3
<1> QED
  BY <1>1 DEF CountsExact, CountInv, Msgs

-----------------------------------------------------------------------------
(* Headers and segments *)

Senders == {p \in Proc : pc[p] = "sndtext"}

\* Headers: one for each message on a queue or being sent.
HeadInv ==
  /\ msgfp \in Nat /\ IsFiniteSet(Queued)
  /\ msgfp + Cardinality(Queued) + Cardinality(Senders) = MSGTQL

\* Segments: each is free or of one message, on a queue or being sent by one
\* process.  Two messages being sent may look the same, for they have no
\* number yet.
TextInv ==
  /\ msgmap \subseteq Seg
  /\ \A m \in Queued : Text(m) \subseteq Seg /\ Text(m) \cap msgmap = {}
  /\ \A p \in Senders : Text(smp[p]) \subseteq Seg /\ Text(smp[p]) \cap msgmap = {}
  /\ \A m, n \in Queued : m # n => Text(m) \cap Text(n) = {}
  /\ \A m \in Queued, p \in Senders : Text(m) \cap Text(smp[p]) = {}
  /\ \A p, q \in Senders : p # q => Text(smp[p]) \cap Text(smp[q]) = {}
  /\ \A x \in Seg : \/ x \in msgmap \/ \E m \in Queued : x \in Text(m)
                    \/ \E p \in Senders : x \in Text(smp[p])

PoolInv == HeadInv /\ TextInv

SendersSame == Senders' = Senders /\ \A p \in Senders : smp'[p] = smp[p]

\* The messages M leave the queues.
LEMMA TextDrop ==
  ASSUME TextInv, NEW M \in SUBSET Queued, Queued' = Queued \ M, SendersSame,
         msgmap' = msgmap \cup UNION {Text(m) : m \in M}
  PROVE  TextInv'
<1>1. \A m \in Queued' : m \in Queued /\ m \notin M
  OBVIOUS
<1>2. \A p \in Senders' : p \in Senders /\ smp'[p] = smp[p]
  BY DEF SendersSame
<1>3. msgmap' \subseteq Seg
  BY DEF TextInv
<1>4. \A m \in Queued' : Text(m) \subseteq Seg /\ Text(m) \cap msgmap' = {}
  BY <1>1 DEF TextInv
<1>5. \A p \in Senders' : Text(smp'[p]) \subseteq Seg /\ Text(smp'[p]) \cap msgmap' = {}
  BY <1>2 DEF TextInv
<1>6. \A m, n \in Queued' : m # n => Text(m) \cap Text(n) = {}
  BY <1>1 DEF TextInv
<1>7. \A m \in Queued', p \in Senders' : Text(m) \cap Text(smp'[p]) = {}
  BY <1>1, <1>2 DEF TextInv
<1>8. \A p, q \in Senders' : p # q => Text(smp'[p]) \cap Text(smp'[q]) = {}
  BY <1>2 DEF TextInv
<1>9. \A x \in Seg : \/ x \in msgmap' \/ \E m \in Queued' : x \in Text(m)
                     \/ \E p \in Senders' : x \in Text(smp'[p])
  BY DEF TextInv, SendersSame
<1> QED
  BY <1>3, <1>4, <1>5, <1>6, <1>7, <1>8, <1>9 DEF TextInv

\* p begins to send with segments that were free.
LEMMA TextTake ==
  ASSUME TextInv, NEW p \in Proc, p \notin Senders, Senders' = Senders \cup {p},
         \A q \in Senders : smp'[q] = smp[q], Queued' = Queued,
         Text(smp'[p]) \subseteq msgmap, msgmap' = msgmap \ Text(smp'[p])
  PROVE  TextInv'
<1>1. msgmap' \subseteq Seg
  BY DEF TextInv
<1>2. \A m \in Queued' : Text(m) \subseteq Seg /\ Text(m) \cap msgmap' = {}
  BY DEF TextInv
<1>3. \A q \in Senders' : Text(smp'[q]) \subseteq Seg /\ Text(smp'[q]) \cap msgmap' = {}
  BY DEF TextInv
<1>4. \A m, n \in Queued' : m # n => Text(m) \cap Text(n) = {}
  BY DEF TextInv
<1>5. \A m \in Queued', q \in Senders' : Text(m) \cap Text(smp'[q]) = {}
  BY DEF TextInv
<1>6. \A q, r \in Senders' : q # r => Text(smp'[q]) \cap Text(smp'[r]) = {}
  BY DEF TextInv
<1>7. \A x \in Seg : \/ x \in msgmap' \/ \E m \in Queued' : x \in Text(m)
                     \/ \E q \in Senders' : x \in Text(smp'[q])
  BY DEF TextInv
<1> QED
  BY <1>1, <1>2, <1>3, <1>4, <1>5, <1>6, <1>7 DEF TextInv

\* p stops sending: the segments are free again.
LEMMA TextFault ==
  ASSUME TextInv, NEW p \in Senders, Senders' = Senders \ {p},
         \A q \in Senders' : smp'[q] = smp[q], Queued' = Queued,
         msgmap' = msgmap \cup Text(smp[p])
  PROVE  TextInv'
<1>0. \A q \in Senders' : q \in Senders /\ q # p
  OBVIOUS
<1>1. msgmap' \subseteq Seg
  BY DEF TextInv
<1>2. \A m \in Queued' : Text(m) \subseteq Seg /\ Text(m) \cap msgmap' = {}
  BY DEF TextInv
<1>3. \A q \in Senders' : Text(smp'[q]) \subseteq Seg /\ Text(smp'[q]) \cap msgmap' = {}
  BY <1>0 DEF TextInv
<1>4. \A m, n \in Queued' : m # n => Text(m) \cap Text(n) = {}
  BY DEF TextInv
<1>5. \A m \in Queued', q \in Senders' : Text(m) \cap Text(smp'[q]) = {}
  BY <1>0 DEF TextInv
<1>6. \A q, r \in Senders' : q # r => Text(smp'[q]) \cap Text(smp'[r]) = {}
  BY <1>0 DEF TextInv
<1>7. \A x \in Seg : \/ x \in msgmap' \/ \E m \in Queued' : x \in Text(m)
                     \/ \E q \in Senders' : x \in Text(smp'[q])
  BY DEF TextInv
<1> QED
  BY <1>1, <1>2, <1>3, <1>4, <1>5, <1>6, <1>7 DEF TextInv

\* The message that p sent is on a queue.
LEMMA TextSend ==
  ASSUME TextInv, NEW p \in Senders, Senders' = Senders \ {p},
         \A q \in Senders' : smp'[q] = smp[q],
         NEW m, Queued' = Queued \cup {m}, Text(m) = Text(smp[p]), msgmap' = msgmap
  PROVE  TextInv'
<1>0. \A q \in Senders' : q \in Senders /\ q # p
  OBVIOUS
<1>1. msgmap' \subseteq Seg
  BY DEF TextInv
<1>2. \A n \in Queued' : Text(n) \subseteq Seg /\ Text(n) \cap msgmap' = {}
  BY DEF TextInv
<1>3. \A q \in Senders' : Text(smp'[q]) \subseteq Seg /\ Text(smp'[q]) \cap msgmap' = {}
  BY <1>0 DEF TextInv
<1>4. \A n, o \in Queued' : n # o => Text(n) \cap Text(o) = {}
  BY DEF TextInv
<1>5. \A n \in Queued', q \in Senders' : Text(n) \cap Text(smp'[q]) = {}
  BY <1>0 DEF TextInv
<1>6. \A q, r \in Senders' : q # r => Text(smp'[q]) \cap Text(smp'[r]) = {}
  BY <1>0 DEF TextInv
<1>7. \A x \in Seg : \/ x \in msgmap' \/ \E n \in Queued' : x \in Text(n)
                     \/ \E q \in Senders' : x \in Text(smp'[q])
  BY DEF TextInv
<1> QED
  BY <1>1, <1>2, <1>3, <1>4, <1>5, <1>6, <1>7 DEF TextInv

\* A queue has as many messages as it is long.
LEMMA QueueCard ==
  ASSUME NEW ms \in Seq(Header), Rising(ms)
  PROVE  IsFiniteSet(ToSet(ms)) /\ Cardinality(ToSet(ms)) = Len(ms)
<1>1. Len(ms) \in Nat /\ DOMAIN ms = 1 .. Len(ms)
  OBVIOUS
<1>2. \A j, k \in 1 .. Len(ms) : ms[j] = ms[k] => j = k
  <2> TAKE j, k \in 1 .. Len(ms)
  <2> HAVE ms[j] = ms[k]
  <2>1. ms[j] \in Header /\ ms[k] \in Header
    OBVIOUS
  <2>2. ms[j].num \in Int
    BY <2>1 DEF Header
  <2>3. ~(j < k) /\ ~(k < j)
    BY <1>1, <2>2 DEF Rising
  <2> QED
    BY <2>3
<1>3. IsFiniteSet(1 .. Len(ms)) /\ Cardinality(1 .. Len(ms)) = Len(ms)
  BY <1>1, FS_Interval, SMTT(30)
<1>4. ms \in [1 .. Len(ms) -> ToSet(ms)] /\ \A x \in ToSet(ms) : \E j \in 1 .. Len(ms) : ms[j] = x
  BY <1>1 DEF ToSet
<1>5. ms \in Surjection(1 .. Len(ms), ToSet(ms)) /\ ms \in Injection(1 .. Len(ms), ToSet(ms))
  BY <1>1, <1>2, <1>4 DEF Surjection, Injection, IsInjective
<1> QED
  BY <1>3, <1>5, FS_Surjection

\* Equal messages have equal numbers: they are on one queue.
LEMMA QueuedApart ==
  ASSUME NumInv, NEW s \in Slot, NEW t \in Slot, s # t, NEW m \in ToSet(Msgs(s))
  PROVE  m \notin ToSet(Msgs(t))
<1>1. m.num \in Nums(s)
  BY DEF ToSet, Nums
<1>2. m \in ToSet(Msgs(t)) => m.num \in Nums(t)
  BY DEF ToSet, Nums
<1> QED
  BY <1>1, <1>2 DEF NumInv, PlaceInv

LEMMA QueuedMinus ==
  ASSUME NumInv, NEW s \in Slot, ElseSame(s), NEW M \in SUBSET ToSet(Msgs(s)),
         ToSet(Msgs(s)') = ToSet(Msgs(s)) \ M
  PROVE  Queued' = Queued \ M /\ M \subseteq Queued
<1>1. Queued = UNION {ToSet(Msgs(t)) : t \in Slot} /\ Queued' = UNION {ToSet(Msgs(t)') : t \in Slot}
  BY DEF Queued, Msgs, ToSet
<1>2. \A t \in Slot : t # s => Msgs(t)' = Msgs(t) /\ ToSet(Msgs(t)) \cap M = {}
  BY QueuedApart DEF ElseSame, Msgs
<1> QED
  BY <1>1, <1>2

LEMMA QueuedPlus ==
  ASSUME TypeInv, NumInv, NEW s \in Slot, ElseSame(s), NEW m, m.num = nsent + 1,
         ToSet(Msgs(s)') = ToSet(Msgs(s)) \cup {m}
  PROVE  Queued' = Queued \cup {m} /\ m \notin Queued
<1>1. Queued = UNION {ToSet(Msgs(t)) : t \in Slot} /\ Queued' = UNION {ToSet(Msgs(t)') : t \in Slot}
  BY DEF Queued, Msgs, ToSet
<1>2. \A t \in Slot : t # s => Msgs(t)' = Msgs(t)
  BY DEF ElseSame, Msgs
<1>3. \A t \in Slot : m \notin ToSet(Msgs(t))
  <2> TAKE t \in Slot
  <2>1. m \in ToSet(Msgs(t)) => m.num \in Nums(t)
    BY DEF ToSet, Nums
  <2>2. Nums(t) \subseteq 1 .. nsent /\ nsent \in Nat /\ nsent + 1 \notin 1 .. nsent
    BY MsgsType DEF NumInv, PlaceInv
  <2> QED
    BY <2>1, <2>2
<1> QED
  BY <1>1, <1>2, <1>3

LEMMA QueuedSame ==
  ASSUME \A s \in Slot : Msgs(s)' = Msgs(s)
  PROVE  Queued' = Queued
  BY DEF Queued, Msgs

\* Cards of what a step takes away or adds.
LEMMA SendersFinite == IsFiniteSet(Senders) /\ Cardinality(Senders) \in Nat
  BY FS_Subset, FS_CardinalityType, MsgAssumption DEF Senders

LEMMA MinusCard ==
  ASSUME NEW S, IsFiniteSet(S), NEW M \in SUBSET S
  PROVE  /\ IsFiniteSet(S \ M) /\ Cardinality(S \ M) = Cardinality(S) - Cardinality(M)
         /\ Cardinality(S) \in Nat /\ Cardinality(M) \in Nat
<1>1. IsFiniteSet(M) /\ IsFiniteSet(S \ M)
  BY FS_Subset
<1>2. M \cup (S \ M) = S /\ M \cap (S \ M) = {}
  OBVIOUS
<1>3. Cardinality(S) = Cardinality(M) + Cardinality(S \ M) - Cardinality({})
  BY <1>1, <1>2, FS_Union
<1> QED
  BY <1>1, <1>3, FS_EmptySet, FS_CardinalityType

\* p is not a sender, or stops, or becomes one.
LEMMA SendersStep ==
  ASSUME NEW p \in Proc, OthersSame(p)
  PROVE  /\ \A q \in Senders : q # p => q \in Senders' /\ smp'[q] = smp[q]
         /\ \A q \in Senders' : q # p => q \in Senders /\ smp'[q] = smp[q]
         /\ pc[p] = "sndtext" <=> p \in Senders
         /\ pc'[p] = "sndtext" <=> p \in Senders'
  BY DEF Senders, OthersSame

LEMMA PoolInvStep ==
  ASSUME Base, NumInv, PoolInv, [Next]_vars
  PROVE  PoolInv'
<1> USE DEF Base
<1>0. /\ msgfp \in Nat /\ IsFiniteSet(Queued) /\ Cardinality(Queued) \in Nat
      /\ IsFiniteSet(Senders) /\ Cardinality(Senders) \in Nat /\ TextInv
      /\ msgfp + Cardinality(Queued) + Cardinality(Senders) = MSGTQL
  BY SendersFinite, FS_CardinalityType DEF PoolInv, HeadInv
<1>a. ASSUME Queued' = Queued, SendersSame, UNCHANGED <<msgfp, msgmap>> PROVE PoolInv'
  <2>1. HeadInv'
    BY <1>0, <1>a DEF HeadInv, SendersSame
  <2>2. TextInv'
    BY <1>0, <1>a DEF TextInv, SendersSame
  <2> QED
    BY <2>1, <2>2 DEF PoolInv
<1>b. ASSUME NEW s \in Slot, ElseSame(s), NEW M \in SUBSET ToSet(Msgs(s)),
             ToSet(Msgs(s)') = ToSet(Msgs(s)) \ M, SendersSame,
             msgmap' = msgmap \cup UNION {Text(m) : m \in M},
             msgfp' = msgfp + Cardinality(M)
      PROVE  PoolInv'
  <2>1. Queued' = Queued \ M /\ M \subseteq Queued
    BY <1>b, QueuedMinus
  <2>2. /\ IsFiniteSet(Queued') /\ Cardinality(Queued') = Cardinality(Queued) - Cardinality(M)
        /\ Cardinality(M) \in Nat
    BY <1>0, <2>1, MinusCard
  <2>3. HeadInv'
    BY <1>0, <1>b, <2>2 DEF HeadInv, SendersSame
  <2>4. TextInv'
    BY <1>0, <1>b, <2>1, TextDrop
  <2> QED
    BY <2>3, <2>4 DEF PoolInv
<1>1. CASE Quiet
  <2>1. \A s \in Slot : Msgs(s)' = Msgs(s)
    BY <1>1 DEF Quiet, SameQueue, Msgs
  <2>2. SendersSame
    BY <1>1 DEF Quiet, SameCall, SendersSame, Senders
  <2> QED
    BY <1>1, <1>a, <2>1, <2>2, QueuedSame DEF Quiet
<1>2. ASSUME NEW p \in Proc, OthersSame(p), msgget(p) PROVE PoolInv'
  <2>1. PICK s \in Slot : ~msgque[s].alloc /\ ElseSame(s) /\ Msgs(s)' = <<>>
    BY <1>2, GetFacts DEF Msgs
  <2>2. \A t \in Slot : Msgs(t)' = Msgs(t)
    BY <2>1 DEF NumInv, ElseSame, Msgs
  <2>3. SendersSame /\ UNCHANGED <<msgfp, msgmap>>
    BY <1>2, GetFacts DEF SendersSame, Senders
  <2> QED
    BY <1>a, <2>2, <2>3, QueuedSame
<1>3. ASSUME NEW p \in Proc, OthersSame(p), msgctlRmid(p) PROVE PoolInv'
  <2>1. PICK s : s = SlotOf(p)
    OBVIOUS
  <2>2. PICK M : M = ToSet(Msgs(s))
    OBVIOUS
  <2>3. /\ s \in Slot /\ ElseSame(s) /\ Msgs(s)' = <<>> /\ msgfp' = msgfp + Len(Msgs(s))
        /\ msgmap' = msgmap \cup UNION {Text(Msgs(s)[j]) : j \in DOMAIN Msgs(s)}
        /\ pc[p] = "conv" /\ pc'[p] = "user"
    BY <1>3, <2>1, RmidFacts DEF Msgs
  <2>4. ToSet(Msgs(s)') = {}
    BY <2>3 DEF ToSet
  <2>5. Cardinality(M) = Len(Msgs(s))
    BY <2>2, <2>3, MsgsType, QueueCard DEF NumInv
  <2>6. msgmap' = msgmap \cup UNION {Text(m) : m \in M}
    BY <2>2, <2>3 DEF ToSet
  <2>7. SendersSame
    <3>1. p \notin Senders /\ p \notin Senders'
      BY <1>3, <2>3, SendersStep
    <3> QED
      BY <1>3, <3>1, SendersStep DEF SendersSame
  <2> QED
    BY <1>b, <2>2, <2>3, <2>4, <2>5, <2>6, <2>7
<1>4. ASSUME NEW p \in Proc, OthersSame(p), RcvDone(p) PROVE PoolInv'
  <2>1. PICK s : s = SlotOf(p)
    OBVIOUS
  <2>2. PICK m : m = smp[p]
    OBVIOUS
  <2>3. PICK ms : ms = Msgs(s)
    OBVIOUS
  <2>4. /\ s \in Slot /\ ElseSame(s) /\ Msgs(s)' = Unlinked(ms, m) /\ msgfp' = msgfp + 1
        /\ msgmap' = msgmap \cup Text(m) /\ pc[p] = "rcvcopy" /\ pc'[p] = "user"
    BY <1>4, <2>1, <2>2, <2>3, RcvFacts DEF Msgs
  <2>5. m \in ToSet(ms) /\ ms \in Seq(Header) /\ Rising(ms)
    BY <2>1, <2>2, <2>3, <2>4, MsgsType DEF LockProtects, Holds, Queue, Msgs, NumInv
  <2>6. ToSet(Unlinked(ms, m)) = ToSet(ms) \ {m}
    BY ONLY <2>5, UnlinkedNums
  <2>7. Cardinality({m}) = 1
    BY FS_Singleton
  <2>8. msgmap' = msgmap \cup UNION {Text(n) : n \in {m}}
    BY <2>4
  <2>9. SendersSame
    BY <1>4, <2>4, SendersStep DEF SendersSame
  <2> QED
    BY <1>b, <2>3, <2>4, <2>5, <2>6, <2>7, <2>8, <2>9
<1>5. ASSUME NEW p \in Proc, OthersSame(p), GetresCopy(p) PROVE PoolInv'
  <2>1. /\ msgque' = msgque /\ msgfp > 0 /\ msgfp' = msgfp - 1
        /\ pc[p] = "getres" /\ pc'[p] = "sndtext"
        /\ Text(smp'[p]) \subseteq msgmap /\ msgmap' = msgmap \ Text(smp'[p])
    BY <1>5, CopyFacts
  <2>2. Queued' = Queued
    BY <2>1 DEF Queued
  <2>3. p \notin Senders /\ Senders' = Senders \cup {p} /\ \A q \in Senders : smp'[q] = smp[q]
    BY <1>5, <2>1, SendersStep
  <2>4. Cardinality(Senders') = Cardinality(Senders) + 1
    BY <1>0, <2>3, FS_AddElement
  <2>5. HeadInv'
    BY <1>0, <2>1, <2>2, <2>4 DEF HeadInv
  <2>6. TextInv'
    BY <1>0, <2>1, <2>2, <2>3, TextTake
  <2> QED
    BY <2>5, <2>6 DEF PoolInv
<1>6. ASSUME NEW p \in Proc, OthersSame(p), SndFault(p) PROVE PoolInv'
  <2>1. /\ msgque' = msgque /\ msgfp' = msgfp + 1 /\ msgmap' = msgmap \cup Text(smp[p])
        /\ pc[p] = "sndtext" /\ pc'[p] = "user"
    BY <1>6, FaultFacts
  <2>2. Queued' = Queued
    BY <2>1 DEF Queued
  <2>3. p \in Senders /\ Senders' = Senders \ {p} /\ \A q \in Senders' : smp'[q] = smp[q]
    BY <1>6, <2>1, SendersStep
  <2>4. Cardinality(Senders') = Cardinality(Senders) - 1
    BY <1>0, <2>3, FS_RemoveElement
  <2>5. HeadInv'
    BY <1>0, <2>1, <2>2, <2>4 DEF HeadInv
  <2>6. TextInv'
    BY <1>0, <2>1, <2>2, <2>3, TextFault
  <2> QED
    BY <2>5, <2>6 DEF PoolInv
<1>7. ASSUME NEW p \in Proc, OthersSame(p), SndDone(p) PROVE PoolInv'
  <2>1. PICK s : s = SlotOf(p)
    OBVIOUS
  <2>2. PICK m : m = [smp[p] EXCEPT !.num = nsent + 1]
    OBVIOUS
  <2>3. PICK ms : ms = Msgs(s)
    OBVIOUS
  <2>4. /\ s \in Slot /\ ElseSame(s) /\ Msgs(s)' = Append(ms, m) /\ m \in Header
        /\ smp[p] \in Header /\ UNCHANGED <<msgfp, msgmap>>
        /\ pc[p] = "sndtext" /\ pc'[p] = "user"
    BY <1>7, <2>1, <2>2, <2>3, SndFacts DEF Msgs
  <2>5. /\ m.num = nsent + 1 /\ m.size = smp[p].size /\ m.spot = smp[p].spot
        /\ ms \in Seq(Header) /\ Rising(ms) /\ nsent \in Nat
        /\ NumsOf(ms) \subseteq 1 .. nsent
    BY <2>2, <2>3, <2>4, MsgsType, ZenonT(30) DEF Header, NumInv, PlaceInv, Nums, NumsOf
  <2>6. ToSet(Append(ms, m)) = ToSet(ms) \cup {m} /\ m \notin ToSet(ms)
    BY <2>4, <2>5, AppendNums
  <2>7. Queued' = Queued \cup {m} /\ m \notin Queued
    BY <2>3, <2>4, <2>5, <2>6, QueuedPlus
  <2>8. p \in Senders /\ Senders' = Senders \ {p} /\ \A q \in Senders' : smp'[q] = smp[q]
    BY <1>7, <2>4, SendersStep
  <2>9. /\ Cardinality(Senders') = Cardinality(Senders) - 1
        /\ IsFiniteSet(Queued') /\ Cardinality(Queued') = Cardinality(Queued) + 1
    BY <1>0, <2>7, <2>8, FS_RemoveElement, FS_AddElement
  <2>10. HeadInv'
    BY <1>0, <2>4, <2>9 DEF HeadInv
  <2>11. Text(m) = Text(smp[p])
    BY <2>5 DEF Text
  <2>12. TextInv'
    BY <1>0, <2>4, <2>7, <2>8, <2>11, TextSend
  <2> QED
    BY <2>10, <2>12 DEF PoolInv
<1> QED
  BY <1>1, <1>2, <1>3, <1>4, <1>5, <1>6, <1>7, Kinds DEF Moves

LEMMA PoolMeans == ASSUME PoolInv PROVE PoolExact
<1>1. Live = Queued \cup {smp[p] : p \in Senders}
  BY DEF Live, Copied, Senders
<1>2. UNION {Text(m) : m \in Live} = Seg \ msgmap
  BY <1>1 DEF PoolInv, TextInv
<1>3. \A m, n \in Live : m # n => Text(m) \cap Text(n) = {}
  BY <1>1 DEF PoolInv, TextInv
<1> QED
  BY <1>2, <1>3 DEF PoolExact, PoolInv, HeadInv, Senders

\* No queue is longer than there are headers.
LEMMA ShortQueues ==
  ASSUME Base, NumInv, PoolInv, NEW s \in Slot
  PROVE  Len(Msgs(s)) \in 0 .. MSGTQL
<1>1. Msgs(s) \in Seq(Header) /\ Rising(Msgs(s))
  BY MsgsType DEF Base, NumInv
<1>2. IsFiniteSet(ToSet(Msgs(s))) /\ Cardinality(ToSet(Msgs(s))) = Len(Msgs(s))
  BY <1>1, QueueCard
<1>3. ToSet(Msgs(s)) \in SUBSET Queued
  BY DEF Queued, Msgs
<1>4. Cardinality(ToSet(Msgs(s))) <= Cardinality(Queued) /\ Cardinality(Queued) \in Nat
  BY <1>3, FS_Subset, FS_CardinalityType DEF PoolInv, HeadInv
<1>5. Cardinality(Senders) \in Nat /\ msgfp \in Nat /\ Len(Msgs(s)) \in Nat /\ MSGTQL \in Nat
  BY <1>1, SendersFinite, MsgAssumption DEF PoolInv, HeadInv
<1>6. msgfp + Cardinality(Queued) + Cardinality(Senders) = MSGTQL
  BY DEF PoolInv, HeadInv
<1> QED
  BY <1>2, <1>4, <1>5, <1>6

LEMMA OnceMeans ==
  ASSUME Base, NumInv, PoolInv
  PROVE  ExactlyOnce
<1> SUFFICES ASSUME NEW n \in 1 .. nsent
             PROVE  Cardinality({x \in Slot \X (1 .. MSGTQL) :
                        x[2] \in DOMAIN msgque[x[1]].msgs /\ msgque[x[1]].msgs[x[2]].num = n})
                    + Cardinality({j \in DOMAIN rcvd : rcvd[j].num = n})
                    + (IF n \in gone THEN 1 ELSE 0) = 1
  BY DEF ExactlyOnce
<1> DEFINE A == {x \in Slot \X (1 .. MSGTQL) :
                   x[2] \in DOMAIN msgque[x[1]].msgs /\ msgque[x[1]].msgs[x[2]].num = n}
           B == {j \in DOMAIN rcvd : rcvd[j].num = n}
<1>0. Cardinality({}) = 0 /\ \A x : Cardinality({x}) = 1
  BY FS_EmptySet, FS_Singleton
<1>1. ASSUME \A s \in Slot : n \notin Nums(s) PROVE A = {}
  BY <1>1 DEF Nums, Msgs
<1>2. ASSUME n \notin RNums PROVE B = {}
  BY <1>2 DEF RNums
<1>3. CASE n \in gone
  <2>1. n \notin RNums /\ \A s \in Slot : n \notin Nums(s)
    BY <1>3 DEF NumInv, PlaceInv
  <2>2. A = {} /\ B = {}
    BY <1>1, <1>2, <2>1
  <2>3. Cardinality(A) = 0 /\ Cardinality(B) = 0
    BY <1>0, <2>2
  <2> QED
    BY <1>3, <2>3
<1>4. CASE n \in RNums
  <2>1. n \notin gone /\ \A s \in Slot : n \notin Nums(s)
    BY <1>4 DEF NumInv, PlaceInv
  <2>2. PICK j \in DOMAIN rcvd : rcvd[j].num = n
    BY <1>4 DEF RNums
  <2>3. A = {} /\ B = {j}
    BY <1>1, <2>1, <2>2 DEF NumInv
  <2>4. Cardinality(A) = 0 /\ Cardinality(B) = 1
    BY <1>0, <2>3
  <2> QED
    BY <2>1, <2>4
<1>5. ASSUME NEW s \in Slot, n \in Nums(s)
      PROVE  Cardinality(A) + Cardinality(B) + (IF n \in gone THEN 1 ELSE 0) = 1
  <2>1. n \notin gone /\ n \notin RNums /\ \A t \in Slot : t # s => n \notin Nums(t)
    BY <1>5 DEF NumInv, PlaceInv
  <2>2. PICK k \in DOMAIN Msgs(s) : Msgs(s)[k].num = n
    BY <1>5 DEF Nums
  <2>3. Msgs(s) \in Seq(Header) /\ Rising(Msgs(s)) /\ Len(Msgs(s)) \in 0 .. MSGTQL
    BY ShortQueues, MsgsType DEF Base, NumInv
  <2>4. k \in 1 .. MSGTQL
    BY <2>2, <2>3, MsgAssumption
  <2>5. \A i \in DOMAIN Msgs(s) : Msgs(s)[i].num = n => i = k
    <3> TAKE i \in DOMAIN Msgs(s)
    <3> HAVE Msgs(s)[i].num = n
    <3>1. i \in Int /\ k \in Int /\ n \in Int
      BY <2>2, <2>3
    <3>2. ~(i < k) /\ ~(k < i)
      BY <2>2, <2>3, <3>1 DEF Rising
    <3> QED
      BY <3>1, <3>2
  <2>6. A = {<<s, k>>}
    <3>1. <<s, k>> \in A
      BY <2>2, <2>4 DEF Msgs
    <3>2. ASSUME NEW x \in A PROVE x = <<s, k>>
      <4>1. x \in Slot \X (1 .. MSGTQL) /\ x[2] \in DOMAIN Msgs(x[1]) /\ Msgs(x[1])[x[2]].num = n
        BY <3>2 DEF Msgs
      <4>2. x[1] \in Slot /\ x = <<x[1], x[2]>>
        BY <4>1
      <4>3. x[1] = s
        BY <2>1, <4>1, <4>2 DEF Nums
      <4>4. x[2] = k
        BY <2>5, <4>1, <4>3
      <4> QED
        BY <4>2, <4>3, <4>4
    <3> HIDE DEF A
    <3> QED
      BY <3>1, <3>2
  <2>7. B = {}
    BY <1>2, <2>1
  <2>8. Cardinality(A) = 1 /\ Cardinality(B) = 0
    BY <1>0, <2>6, <2>7
  <2> HIDE DEF A, B
  <2> QED
    BY <2>1, <2>8
<1> QED
  BY <1>3, <1>4, <1>5 DEF NumInv, PlaceInv

MsgInv == Base /\ NumInv /\ OrderInv /\ CountInv /\ PoolInv

\* The five parts together are inductive.
THEOREM MsgCorrect == Spec => []MsgInv
<1>1. Init => MsgInv
  <2> SUFFICES ASSUME Init PROVE MsgInv
    OBVIOUS
  <2>1. rcvd = <<>> /\ gone = {} /\ nsent = 0 /\ \A s \in Slot : Msgs(s) = <<>>
    BY DEF Init, Msgs
  <2>2. RNums = {} /\ \A s \in Slot : Nums(s) = {}
    BY <2>1 DEF RNums, Nums
  <2>3. NumInv
    BY <2>1, <2>2 DEF NumInv, PlaceInv, Rising
  <2>4. OrderInv
    BY <2>1 DEF OrderInv, InOrder, Before, CopyFirst, Init
  <2>5. CountInv
    BY <2>1, BytesNone DEF CountInv, Init
  <2>6. Queued = {} /\ Senders = {}
    BY <2>1 DEF Queued, Msgs, ToSet, Senders, Init
  <2>7. msgfp = MSGTQL /\ msgmap = Seg
    BY DEF Init
  <2>8. PoolInv
    BY <2>6, <2>7, FS_EmptySet, MsgAssumption DEF PoolInv, HeadInv, TextInv
  <2> QED
    BY <2>3, <2>4, <2>5, <2>8, BaseInit DEF MsgInv
<1>2. MsgInv /\ [Next]_vars => MsgInv'
  BY BaseStep, NumStep, OrderStep, CountStep, PoolInvStep DEF MsgInv, Base
<1> QED
  BY <1>1, <1>2, PTL DEF Spec

\* Messages of one type are received from a queue in the order in which they
\* were sent, whatever msgtyp the receivers ask for.
THEOREM ReceivedInOrder == Spec => []InOrder
<1>1. MsgInv => InOrder
  BY DEF MsgInv, OrderInv
<1> QED
  BY <1>1, MsgCorrect, PTL

\* msg_qnum and msg_cbytes count the messages and the bytes of every queue,
\* also of one made from a removed queue: msgget() does not reset msg_cbytes,
\* and need not.
THEOREM CountsAlways == Spec => []CountsExact
<1>1. MsgInv => CountsExact
  BY CountsMean DEF MsgInv
<1> QED
  BY <1>1, MsgCorrect, PTL

\* No header or segment is lost or used twice, on any path through msgsnd(),
\* msgrcv() and IPC_RMID.
THEOREM NoLeak == Spec => []PoolExact
<1>1. MsgInv => PoolExact
  BY PoolMeans DEF MsgInv
<1> QED
  BY <1>1, MsgCorrect, PTL

\* Every message sent is on one queue, was received once or was destroyed with
\* its queue.
THEOREM DeliveredOnce == Spec => []ExactlyOnce
<1>1. MsgInv => ExactlyOnce
  BY OnceMeans DEF MsgInv
<1> QED
  BY <1>1, MsgCorrect, PTL

-----------------------------------------------------------------------------
(* The arguments of the calls and the bounds of the behaviour *)

Types == {a.typ : a \in SndArgs}

\* Where only msgsnd() is.
SndLoc == {"sndtype", "getres", "wsleep", "fsleep", "intr", "wintr", "sndtext"}

\* What a step of p does to its call.
Flow(p) ==
  /\ cpu' \in {p, None} /\ sig' \subseteq sig
  /\ \/ uap'[p] = uap[p]
     \/ uap'[p] = NoCall /\ pc'[p] = "user"
  /\ pc'[p] \in SndLoc => uap'[p] = uap[p] /\ (pc[p] \in SndLoc \/ uap[p].op = "msgsnd")
  /\ smp'[p] \in {smp[p], None} \/ FindCopy(p) \/ GetresCopy(p)
  /\ pc'[p] \in {"rcvcopy", "sndtext"} => FindCopy(p) \/ GetresCopy(p)
  /\ nrm' = nrm \/ msgctlRmid(p)
  /\ nfault' = nfault \/ (nfault < MaxFault /\ nfault' = nfault + 1)

\* A step that ends the call.
LEMMA ReturnFlow ==
  ASSUME TypeInv, NEW p \in Proc, Return(p),
         nrm' = nrm \/ msgctlRmid(p),
         nfault' = nfault \/ (nfault < MaxFault /\ nfault' = nfault + 1)
  PROVE  Flow(p)
  BY DEF TypeInv, MsgType, Return, Leave, Flow, SndLoc

\* A step within the call.
LEMMA InnerFlow ==
  ASSUME TypeInv, NEW p \in Proc, uap' = uap, smp' = smp, sig' = sig, cpu' \in {p, None},
         pc'[p] \in SndLoc => pc[p] \in SndLoc \/ uap[p].op = "msgsnd",
         pc'[p] \notin {"rcvcopy", "sndtext"}, UNCHANGED <<nrm, nfault>>
  PROVE  Flow(p)
  BY DEF Flow

LEMMA StepFlow ==
  ASSUME TypeInv, NEW p \in Proc, Step(p)
  PROVE  Flow(p)
<1> USE DEF hist, SndLoc
<1>1. CASE LockSleep(p)
  <2>1. pc'[p] = pc[p] /\ pc[p] \in LockLoc
    BY <1>1 DEF LockSleep, At
  <2> QED
    BY <1>1, <2>1, InnerFlow DEF LockSleep, LockLoc
<1>2. CASE LockAbort(p) \/ ConvFail(p) \/ msgctlRmid(p) \/ CtlDone(p) \/ FindFail(p) \/ RcvIntr(p)
  BY <1>2, ReturnFlow DEF LockAbort, ConvFail, msgctlRmid, CtlDone, FindFail, RcvIntr
<1>3. CASE RcvDone(p) \/ RcvFault(p) \/ GetresFail(p) \/ SndDone(p) \/ SndFault(p) \/ SndIntr(p)
  BY <1>3, ReturnFlow DEF RcvDone, RcvFault, GetresFail, SndDone, SndFault, SndIntr
<1>4. CASE CtlCopy(p)
  <2>1. pc'[p] = "ctlcopy" /\ cpu' = None
    BY <1>4 DEF CtlCopy, Leave, TypeInv, MsgType
  <2> QED
    BY <1>4, <2>1, InnerFlow DEF CtlCopy
<1>5. CASE RcvBegin(p)
  <2>1. pc'[p] = "find" /\ cpu' = p
    BY <1>5 DEF RcvBegin, Goto, TypeInv, MsgType
  <2> QED
    BY <1>5, <2>1, InnerFlow DEF RcvBegin
<1>6. CASE FindCopy(p)
  <2>1. pc'[p] = "rcvcopy" /\ cpu' = None
    BY <1>6 DEF FindCopy, Leave, TypeInv, MsgType
  <2> QED
    BY <1>6, <2>1 DEF FindCopy, Flow
<1>7. CASE FindSleep(p)
  <2>1. pc'[p] \in {"rsleep", "rintr"} /\ cpu' \in {p, None}
    BY <1>7 DEF FindSleep, UnlockSleep, Leave, Goto, TypeInv, MsgType
  <2> QED
    BY <1>7, <2>1, InnerFlow DEF FindSleep
<1>8. CASE RcvAgain(p)
  <2>1. pc'[p] \in {"find", "rintr"} /\ cpu' = p
    BY <1>8 DEF RcvAgain, Goto, TypeInv, MsgType
  <2> QED
    BY <1>8, <2>1, InnerFlow DEF RcvAgain
<1>9. CASE SndBegin(p)
  <2>1. uap[p].op = "msgsnd" /\ cpu' = None /\ pc'[p] = "sndtype"
    BY <1>9 DEF SndBegin, Leave, TypeInv, MsgType
  <2> QED
    BY <1>9, <2>1, InnerFlow DEF SndBegin
<1>10. CASE SndType(p)
  <2>1. CASE Goto(p, "getres") /\ UNCHANGED <<uap, smp, sig, nfault>>
    <3>1. pc[p] = "sndtype" /\ cpu' = p /\ pc'[p] = "getres"
      BY <1>10, <2>1 DEF SndType, At, Goto, TypeInv, MsgType
    <3> QED
      BY <1>10, <2>1, <3>1, InnerFlow DEF SndType
  <2>2. CASE nfault < MaxFault /\ nfault' = nfault + 1 /\ Return(p)
    BY <1>10, <2>2, ReturnFlow DEF SndType
  <2> QED
    BY <1>10, <2>1, <2>2 DEF SndType
<1>11. CASE GetresFull(p) \/ GetresNoHeader(p) \/ GetresNoText(p)
  <2>1. /\ pc[p] = "getres" /\ cpu' \in {p, None}
        /\ pc'[p] \in {"wsleep", "wintr", "fsleep", "intr"}
    BY <1>11 DEF GetresFull, GetresNoHeader, GetresNoText, msgconv, Locks, At,
                 UnlockSleep, Leave, Goto, TypeInv, MsgType
  <2> QED
    BY <1>11, <2>1, InnerFlow DEF GetresFull, GetresNoHeader, GetresNoText
<1>12. CASE GetresCopy(p)
  <2>1. pc[p] = "getres" /\ cpu' \in {p, None}
    BY <1>12 DEF GetresCopy, msgconv, Locks, At
  <2> QED
    BY <1>12, <2>1 DEF GetresCopy, Flow
<1>13. CASE SndAgain(p)
  <2>1. /\ pc[p] \in {"wsleep", "fsleep"} /\ cpu' = p
        /\ pc'[p] \in {"wintr", "intr", "getres"}
    BY <1>13 DEF SndAgain, At, Goto, TypeInv, MsgType
  <2> QED
    BY <1>13, <2>1, InnerFlow DEF SndAgain
<1> QED
  BY ONLY Step(p), <1>1, <1>2, <1>3, <1>4, <1>5, <1>6, <1>7, <1>8, <1>9, <1>10, <1>11, <1>12, <1>13
     DEF Step

\* A message made from the arguments of msgsnd().
GoodMsg(m) == m.type \in Types /\ m.size \in 0 .. MSGMAX /\ m.spot \in Seg \cup {0}

Copy(m) == m \in Header /\ GoodMsg(m) /\ m.num \in 0 .. nsent

CallOK(p) ==
  /\ uap[p].id \in Id
  /\ uap[p].op = "msgsnd" => uap[p].typ \in Types /\ uap[p].size \in 0 .. MSGMAX
  /\ pc[p] \in SndLoc => uap[p].op = "msgsnd"
  /\ pc[p] \in {"rcvcopy", "sndtext"} => Copy(smp[p])
  /\ smp[p] = None \/ Copy(smp[p])

ArgInv ==
  /\ cpu \in Proc \cup {None} /\ sig \subseteq Proc
  /\ \A p \in Proc : CallOK(p)
  /\ \A s \in Slot : /\ msgque[s].seq \in 0 .. ID_MAX /\ msgque[s].qbytes \in Nat
                     /\ \A k \in DOMAIN Msgs(s) : GoodMsg(Msgs(s)[k])
  /\ \A j \in DOMAIN rcvd : rcvd[j].id \in Id /\ rcvd[j].type \in Types

\* Calls in progress are counted against the bounds of the behaviour.
BoundInv ==
  /\ nrm \in Nat /\ nrm + Active("rmid") <= MaxRmid
  /\ nfault \in 0 .. MaxFault
  /\ nsent + Active("msgsnd") <= MaxSend

Callers(op) == {p \in Proc : uap[p].op = op}

LEMMA CallersFinite ==
  ASSUME NEW op
  PROVE  /\ IsFiniteSet(Callers(op)) /\ IsFiniteSet(Callers(op)')
         /\ Active(op) = Cardinality(Callers(op)) /\ Active(op)' = Cardinality(Callers(op)')
         /\ Active(op) \in Nat /\ Active(op)' \in Nat
<1>1. Callers(op) \in SUBSET Proc /\ Callers(op)' \in SUBSET Proc
  BY DEF Callers
<1>2. IsFiniteSet(Callers(op)) /\ IsFiniteSet(Callers(op)')
  BY <1>1, FS_Subset, MsgAssumption
<1>3. Active(op) = Cardinality(Callers(op)) /\ Active(op)' = Cardinality(Callers(op)')
  BY DEF Active, Callers
<1> QED
  BY <1>2, <1>3, FS_CardinalityType

LEMMA ActiveDown ==
  ASSUME NEW op, \A q \in Proc : uap'[q].op = op => uap[q].op = op
  PROVE  Active(op)' <= Active(op)
<1>1. Callers(op)' \in SUBSET Callers(op)
  BY DEF Callers
<1> QED
  BY <1>1, CallersFinite, FS_Subset

LEMMA ActiveLess ==
  ASSUME NEW op, NEW p \in Proc, uap[p].op = op, uap'[p].op # op,
         \A q \in Proc \ {p} : uap'[q] = uap[q]
  PROVE  Active(op)' = Active(op) - 1
<1>1. p \in Callers(op) /\ Callers(op)' = Callers(op) \ {p}
  BY DEF Callers
<1> QED
  BY <1>1, CallersFinite, FS_RemoveElement

LEMMA ActiveMore ==
  ASSUME NEW op, NEW p \in Proc, \A q \in Proc \ {p} : uap'[q] = uap[q]
  PROVE  Active(op)' <= Active(op) + 1
<1>1. CASE uap'[p].op = op
  <2>1. Callers(op)' = Callers(op) \cup {p}
    BY <1>1 DEF Callers
  <2>2. Cardinality(Callers(op)') <= Cardinality(Callers(op)) + 1
    BY <2>1, CallersFinite, FS_AddElement
  <2> QED
    BY <2>2, CallersFinite
<1>2. CASE uap'[p].op # op
  BY <1>2, CallersFinite, ActiveDown
<1> QED
  BY <1>1, <1>2

LEMMA BoundStep ==
  ASSUME TypeInv, ArgInv, BoundInv, [Next]_vars
  PROVE  BoundInv'
<1>0. /\ {MaxRmid, MaxSend, MaxFault} \subseteq Nat /\ nsent \in Nat /\ nrm \in Nat
      /\ \A op : Active(op) \in Nat /\ Active(op)' \in Nat
  BY MsgAssumption, CallersFinite DEF TypeInv, MsgType, BoundInv
<1>a. ASSUME UNCHANGED <<nrm, nfault, nsent>>, \A q \in Proc : uap'[q] = uap[q] PROVE BoundInv'
  <2>1. Active("rmid")' <= Active("rmid") /\ Active("msgsnd")' <= Active("msgsnd")
    BY <1>a, ActiveDown
  <2> QED
    BY <1>0, <1>a, <2>1 DEF BoundInv
<1>1. CASE UNCHANGED vars
  BY <1>1, <1>a DEF vars, proc, hist
<1>2. ASSUME NEW p \in Proc, Request(p) PROVE BoundInv'
  <2>1. CASE msgget(p)
    BY <1>a, <2>1 DEF msgget, proc, hist
  <2>2. ASSUME NEW c \in CallRec, Call(p, c),
               c.op = "rmid" => nrm + Active("rmid") < MaxRmid,
               c.op = "msgsnd" => nsent + Active("msgsnd") < MaxSend
        PROVE  BoundInv'
    <3>1. /\ uap'[p] = c /\ (\A q \in Proc \ {p} : uap'[q] = uap[q])
          /\ UNCHANGED <<nrm, nfault, nsent>>
      BY <2>2 DEF Call, hist, TypeInv, MsgType
    <3>2. nrm + Active("rmid")' <= MaxRmid
      <4>1. CASE c.op = "rmid"
        BY <1>0, <2>2, <3>1, <4>1, ActiveMore
      <4>2. CASE c.op # "rmid"
        <5>1. Active("rmid")' <= Active("rmid")
          BY <3>1, <4>2, ActiveDown
        <5> QED
          BY <1>0, <5>1 DEF BoundInv
      <4> QED
        BY <4>1, <4>2
    <3>3. nsent + Active("msgsnd")' <= MaxSend
      <4>1. CASE c.op = "msgsnd"
        BY <1>0, <2>2, <3>1, <4>1, ActiveMore
      <4>2. CASE c.op # "msgsnd"
        <5>1. Active("msgsnd")' <= Active("msgsnd")
          BY <3>1, <4>2, ActiveDown
        <5> QED
          BY <1>0, <5>1 DEF BoundInv
      <4> QED
        BY <4>1, <4>2
    <3> QED
      BY <3>1, <3>2, <3>3 DEF BoundInv
  <2>3. Id \subseteq Int \X Slot
    BY MsgAssumption DEF Id
  <2>4. ASSUME NEW id \in Id, NEW op \in {"rmid", "set", "stat"}, msgctl(p, op, id),
               op = "rmid" => nrm + Active("rmid") < MaxRmid
        PROVE  BoundInv'
    <3>1. [op |-> op, id |-> id, size |-> 0, typ |-> 0, nowait |-> FALSE, noerror |-> FALSE]
            \in CallRec
      BY <2>3 DEF CallRec
    <3> QED
      BY <2>2, <2>4, <3>1 DEF msgctl
  <2>5. ASSUME NEW id \in Id, NEW a \in RcvArgs, msgrcv(p, id, a) PROVE BoundInv'
    <3>1. [op |-> "msgrcv", id |-> id, size |-> a.size, typ |-> a.typ,
           nowait |-> a.nowait, noerror |-> a.noerror] \in CallRec
      BY <2>3, MsgAssumption DEF CallRec
    <3> QED
      BY <2>2, <2>5, <3>1 DEF msgrcv
  <2>6. ASSUME NEW id \in Id, NEW a \in SndArgs, msgsnd(p, id, a),
               nsent + Active("msgsnd") < MaxSend
        PROVE BoundInv'
    <3>1. a.size \in Nat /\ a.typ \in Int /\ a.nowait \in BOOLEAN
      BY MsgAssumption
    <3>2. [op |-> "msgsnd", id |-> id, size |-> a.size, typ |-> a.typ,
           nowait |-> a.nowait, noerror |-> FALSE] \in CallRec
      BY <2>3, <3>1 DEF CallRec
    <3> QED
      BY <2>2, <2>6, <3>2 DEF msgsnd
  <2> QED
    BY <1>2, <2>1, <2>4, <2>5, <2>6 DEF Request
<1>3. ASSUME NEW p \in Proc, psignal(p) PROVE BoundInv'
  BY <1>3, <1>a DEF psignal, proc, hist
<1>4. ASSUME NEW p \in Proc, Step(p) PROVE BoundInv'
  <2>1. Flow(p) /\ OthersSame(p) /\ (Quiet \/ Moves(p))
    BY <1>4, StepFlow, StepKinds
  <2>2. \A q \in Proc \ {p} : uap'[q] = uap[q]
    BY <2>1 DEF OthersSame
  <2>3. uap'[p] = uap[p] \/ uap'[p].op = "none"
    BY <2>1 DEF Flow, NoCall
  <2>4. Active("rmid")' <= Active("rmid") /\ Active("msgsnd")' <= Active("msgsnd")
    <3>1. \A op \in {"rmid", "msgsnd"} : \A q \in Proc : uap'[q].op = op => uap[q].op = op
      BY <2>2, <2>3
    <3> QED
      BY <3>1, ActiveDown
  <2>5. nfault' \in 0 .. MaxFault
    BY <1>0, <2>1 DEF Flow, BoundInv
  <2>6. nrm' \in Nat /\ nrm' + Active("rmid")' <= MaxRmid
    <3>1. CASE nrm' = nrm
      BY <1>0, <2>4, <3>1 DEF BoundInv
    <3>2. CASE msgctlRmid(p)
      <4>1. nrm' = nrm + 1 /\ uap[p].op = "rmid" /\ uap'[p] = NoCall
        BY <3>2 DEF msgctlRmid, Return, TypeInv, MsgType
      <4>2. Active("rmid")' = Active("rmid") - 1
        BY <2>2, <4>1, ActiveLess DEF NoCall
      <4> QED
        BY <1>0, <4>1, <4>2 DEF BoundInv
    <3> QED
      BY <2>1, <3>1, <3>2 DEF Flow
  <2>7. nsent' + Active("msgsnd")' <= MaxSend
    <3>1. CASE nsent' = nsent
      BY <1>0, <2>4, <3>1 DEF BoundInv
    <3>2. CASE SndDone(p)
      <4>1. nsent' = nsent + 1 /\ pc[p] = "sndtext" /\ uap'[p] = NoCall
        BY <3>2 DEF SndDone, At, Return, TypeInv, MsgType
      <4>2. uap[p].op = "msgsnd"
        BY <4>1 DEF ArgInv, CallOK, SndLoc
      <4>3. Active("msgsnd")' = Active("msgsnd") - 1
        BY <2>2, <4>1, <4>2, ActiveLess DEF NoCall
      <4> QED
        BY <1>0, <4>1, <4>3 DEF BoundInv
    <3>3. Quiet => nsent' = nsent
      BY DEF Quiet
    <3>4. CASE msgget(p) \/ msgctlRmid(p) \/ RcvDone(p) \/ GetresCopy(p) \/ SndFault(p)
      <4>1. nsent' = nsent
        BY <3>4, GetFacts, RmidFacts, RcvFacts, CopyFacts, FaultFacts
      <4> QED
        BY <3>1, <4>1
    <3> QED
      BY <2>1, <3>1, <3>2, <3>3, <3>4 DEF Moves
  <2> QED
    BY <2>5, <2>6, <2>7 DEF BoundInv
<1> QED
  BY <1>1, <1>2, <1>3, <1>4 DEF Next

LEMMA NextSeqOK ==
  ASSUME NEW id \in Id
  PROVE  NextSeq(id) \in 0 .. ID_MAX
<1>1. PICK a \in 0 .. ID_MAX, b \in Slot : id = <<a, b>>
  BY DEF Id
<1>2. ID_MAX \in Nat /\ MSGMNI \in Nat \ {0} /\ a \in Nat /\ b \in Nat
  BY <1>1, MsgAssumption DEF Slot
<1>3. CASE a * MSGMNI + b + MSGMNI > ID_MAX
  BY <1>1, <1>2, <1>3 DEF NextSeq
<1>4. CASE ~(a * MSGMNI + b + MSGMNI > ID_MAX)
  <2>1. a * MSGMNI >= a /\ a * MSGMNI \in Nat
    <3>1. \A i \in Nat, n \in Nat \ {0} : i * n >= i /\ i * n \in Nat
      OBVIOUS
    <3> QED
      BY <1>2, <3>1
  <2>2. a + 1 <= ID_MAX
    BY <1>2, <1>4, <2>1
  <2> QED
    BY <1>1, <1>2, <1>4, <2>2 DEF NextSeq
<1> QED
  BY <1>3, <1>4

SlotOK(s) == msgque[s].seq \in 0 .. ID_MAX /\ msgque[s].qbytes \in Nat

LEMMA SlotStep ==
  ASSUME TypeInv, ArgInv, [Next]_vars, NEW s \in Slot
  PROVE  SlotOK(s)'
<1>0. SlotOK(s) /\ msgque \in [Slot -> QueueRec]
  BY DEF ArgInv, SlotOK, TypeInv, MsgType
<1>1. CASE msgque' = msgque
  BY <1>0, <1>1 DEF SlotOK
<1>2. ASSUME NEW p \in Proc, msgget(p) PROVE SlotOK(s)'
  <2>1. PICK t \in Slot : msgque' = [msgque EXCEPT ![t] =
            [alloc |-> TRUE, rwait |-> FALSE, wwait |-> FALSE, seq |-> @.seq,
             cbytes |-> @.cbytes, qnum |-> 0, qbytes |-> MSGMNB, msgs |-> <<>>]]
    BY <1>2 DEF msgget
  <2>2. MSGMNB \in Nat
    BY MsgAssumption
  <2> QED
    BY <1>0, <2>1, <2>2 DEF SlotOK
<1>3. ASSUME NEW p \in Proc, Step(p) PROVE SlotOK(s)'
  <2>0. SlotOf(p) \in Slot /\ uap[p].id \in Id /\ Queue(p).qbytes \in Nat /\ Queue(p).seq \in 0 .. ID_MAX
    BY QueueType DEF TypeInv, ArgInv, CallOK, Queue
  <2>1. CASE msgctlRmid(p)
    <3>1. msgque' = [msgque EXCEPT ![SlotOf(p)] = Removed(Queue(p), uap[p].id)]
      BY <2>1 DEF msgctlRmid
    <3>2. NextSeq(uap[p].id) \in 0 .. ID_MAX
      BY <2>0, NextSeqOK
    <3> QED
      BY <1>0, <2>0, <3>1, <3>2 DEF SlotOK, Removed
  <2>2. CASE RcvDone(p) \/ SndDone(p)
    <3>1. CASE s = SlotOf(p)
      <4>1. msgque'[s].seq = Queue(p).seq /\ msgque'[s].qbytes = Queue(p).qbytes
        BY <1>0, <2>0, <2>2, <3>1 DEF RcvDone, SndDone
      <4> QED
        BY <2>0, <4>1 DEF SlotOK
    <3>2. CASE s # SlotOf(p)
      BY <1>0, <2>2, <3>2, RcvFacts, SndFacts DEF ElseSame, SlotOK
    <3> QED
      BY <3>1, <3>2
  <2>3. CASE CtlDone(p)
    <3>1. CASE \E n \in QBytes : msgque' = [msgque EXCEPT ![SlotOf(p)].qbytes = n]
      <4>1. PICK n \in QBytes : msgque' = [msgque EXCEPT ![SlotOf(p)].qbytes = n]
        BY <3>1
      <4>2. n \in Nat
        BY MsgAssumption
      <4> QED
        BY <1>0, <2>0, <4>1, <4>2 DEF SlotOK, QueueRec
    <3> QED
      BY <1>1, <2>3, <3>1 DEF CtlDone
  <2>4. CASE FindSleep(p)
    BY <1>0, <2>0, <2>4 DEF FindSleep, SlotOK, QueueRec
  <2>5. CASE GetresFull(p)
    BY <1>0, <2>0, <2>5 DEF GetresFull, SlotOK, QueueRec
  <2>6. CASE msgque' = [msgque EXCEPT ![SlotOf(p)].wwait = FALSE]
    BY <1>0, <2>0, <2>6 DEF SlotOK, QueueRec
  <2>7. CASE SndIntr(p)
    BY <1>1, <2>6, <2>7 DEF SndIntr
  <2> QED
    BY <1>1, <1>3, <2>1, <2>2, <2>3, <2>4, <2>5, <2>7, QueueSteps
<1> QED
  BY <1>1, <1>2, <1>3 DEF Next, Request, Call, msgctl, msgrcv, msgsnd, psignal, vars

GoodMsgs(s) == \A k \in DOMAIN Msgs(s) : GoodMsg(Msgs(s)[k])
GoodRcvd == \A j \in DOMAIN rcvd : rcvd[j].id \in Id /\ rcvd[j].type \in Types

LEMMA GoodStep ==
  ASSUME Base, NumInv, ArgInv, [Next]_vars
  PROVE  GoodRcvd' /\ \A s \in Slot : GoodMsgs(s)'
<1>0. GoodRcvd /\ \A s \in Slot : GoodMsgs(s)
  BY DEF ArgInv, GoodRcvd, GoodMsgs
<1> USE DEF Base
<1>a. ASSUME rcvd' = rcvd, NEW s \in Slot, ElseSame(s), GoodMsgs(s)'
      PROVE  GoodRcvd' /\ \A t \in Slot : GoodMsgs(t)'
  <2>1. \A t \in Slot : t # s => Msgs(t)' = Msgs(t)
    BY <1>a DEF ElseSame, Msgs
  <2> QED
    BY <1>0, <1>a, <2>1 DEF GoodRcvd, GoodMsgs
<1>b. ASSUME NEW s \in Slot, Msgs(s)' = <<>> PROVE GoodMsgs(s)'
  BY <1>b DEF GoodMsgs
<1>1. CASE rcvd' = rcvd /\ \A s \in Slot : Msgs(s)' = Msgs(s)
  BY <1>0, <1>1 DEF GoodRcvd, GoodMsgs
<1>2. ASSUME NEW p \in Proc, msgget(p) PROVE GoodRcvd' /\ \A s \in Slot : GoodMsgs(s)'
  <2>1. PICK s \in Slot : ElseSame(s) /\ Msgs(s)' = <<>>
    BY <1>2, GetFacts DEF Msgs
  <2> QED
    BY <1>2, <1>a, <1>b, <2>1, GetFacts
<1>3. ASSUME NEW p \in Proc, msgctlRmid(p) PROVE GoodRcvd' /\ \A s \in Slot : GoodMsgs(s)'
  <2>1. PICK s \in Slot : s = SlotOf(p)
    BY QueueType DEF TypeInv
  <2>2. ElseSame(s) /\ Msgs(s)' = <<>> /\ rcvd' = rcvd
    BY <1>3, <2>1, RmidFacts DEF Msgs
  <2> QED
    BY <1>a, <1>b, <2>2
<1>4. ASSUME NEW p \in Proc, SndDone(p) PROVE GoodRcvd' /\ \A s \in Slot : GoodMsgs(s)'
  <2>1. PICK s \in Slot : s = SlotOf(p)
    BY QueueType DEF TypeInv
  <2>2. PICK m : m = [smp[p] EXCEPT !.num = nsent + 1]
    OBVIOUS
  <2>3. PICK ms : ms = Msgs(s)
    OBVIOUS
  <2>4. /\ ElseSame(s) /\ rcvd' = rcvd /\ Msgs(s)' = Append(ms, m)
        /\ m \in Header /\ smp[p] \in Header /\ pc[p] = "sndtext"
    BY <1>4, <2>1, <2>2, <2>3, SndFacts DEF Msgs
  <2>5. m.type = smp[p].type /\ m.size = smp[p].size /\ m.spot = smp[p].spot
    BY <2>2, <2>4 DEF Header
  <2>7. GoodMsg(m)
    BY <2>4, <2>5 DEF ArgInv, CallOK, Copy, GoodMsg
  <2>8. ms \in Seq(Header) /\ \A k \in DOMAIN ms : GoodMsg(ms[k])
    BY <2>3, <1>0, MsgsType DEF GoodMsgs
  <2>9. \A k \in DOMAIN Append(ms, m) : GoodMsg(Append(ms, m)[k])
    <3> TAKE k \in DOMAIN Append(ms, m)
    <3>1. Append(ms, m)[k] = m \/ (k \in DOMAIN ms /\ Append(ms, m)[k] = ms[k])
      BY <2>8
    <3> QED
      BY <2>7, <2>8, <3>1
  <2>10. GoodMsgs(s)'
    BY <2>4, <2>9 DEF GoodMsgs
  <2> QED
    BY <1>a, <2>4, <2>10
<1>5. ASSUME NEW p \in Proc, RcvDone(p) PROVE GoodRcvd' /\ \A s \in Slot : GoodMsgs(s)'
  <2>1. PICK s \in Slot : s = SlotOf(p)
    BY QueueType DEF TypeInv
  <2>2. PICK m : m = smp[p]
    OBVIOUS
  <2>3. PICK ms : ms = Msgs(s)
    OBVIOUS
  <2>4. PICK r : r = [id |-> uap[p].id, type |-> m.type, num |-> m.num]
    OBVIOUS
  <2>5. /\ ElseSame(s) /\ rcvd' = Append(rcvd, r) /\ Msgs(s)' = Unlinked(ms, m)
        /\ m \in Header /\ pc[p] = "rcvcopy"
    BY <1>5, <2>1, <2>2, <2>3, <2>4, RcvFacts DEF Msgs
  <2>6. m.type \in Types /\ uap[p].id \in Id
    BY <2>2, <2>5 DEF ArgInv, CallOK, Copy, GoodMsg
  <2>7. rcvd \in Seq(RcvRec) /\ r \in RcvRec /\ r.id \in Id /\ r.type \in Types
    BY <2>4, <2>5, <2>6 DEF NumInv, RcvRec, TypeInv, MsgType, CallRec, Header
  <2>8. GoodRcvd'
    <3>1. /\ DOMAIN rcvd' = DOMAIN rcvd \cup {Len(rcvd) + 1} /\ rcvd'[Len(rcvd) + 1] = r
          /\ \A j \in DOMAIN rcvd : rcvd'[j] = rcvd[j]
      BY <2>5, <2>7, RcvdNums
    <3> QED
      BY <1>0, <2>7, <3>1 DEF GoodRcvd
  <2>9. ms \in Seq(Header) /\ \A x \in ToSet(ms) : GoodMsg(x)
    BY <1>0, <2>3, MsgsType DEF GoodMsgs, ToSet
  <2>10. ToSet(Unlinked(ms, m)) \subseteq ToSet(ms)
    BY <2>9, UnlinkedType
  <2>11. GoodMsgs(s)'
    BY <2>5, <2>9, <2>10 DEF GoodMsgs, ToSet
  <2>12. \A t \in Slot : t # s => Msgs(t)' = Msgs(t)
    BY <2>5 DEF ElseSame, Msgs
  <2> QED
    BY <1>0, <2>8, <2>11, <2>12 DEF GoodMsgs
<1>6. CASE Quiet
  BY <1>1, <1>6 DEF Quiet, SameQueue, Msgs
<1>7. ASSUME NEW p \in Proc, GetresCopy(p) \/ SndFault(p)
      PROVE  GoodRcvd' /\ \A s \in Slot : GoodMsgs(s)'
  BY <1>1, <1>7, CopyFacts, FaultFacts DEF Msgs
<1> QED
  BY <1>2, <1>3, <1>4, <1>5, <1>6, <1>7, Kinds DEF Moves

LEMMA CallStep ==
  ASSUME Base, NumInv, ArgInv, [Next]_vars, NEW q \in Proc
  PROVE  CallOK(q)'
<1> USE DEF Base
<1>0. CallOK(q) /\ nsent \in Nat /\ nsent' \in Nat /\ nsent' >= nsent /\ <<0, 0>> \in Id
  <2>1. CallOK(q) /\ nsent \in Nat /\ <<0, 0>> \in Id
    BY MsgAssumption DEF ArgInv, TypeInv, MsgType, Id, Slot
  <2>2. nsent' = nsent \/ nsent' = nsent + 1
    BY Kinds, GetFacts, RmidFacts, RcvFacts, CopyFacts, SndFacts, FaultFacts DEF Quiet, Moves
  <2> QED
    BY <2>1, <2>2
<1>a. ASSUME NEW m, Copy(m) PROVE m \in Header /\ GoodMsg(m) /\ m.num \in 0 .. nsent'
  BY <1>0, <1>a DEF Copy
<1>b. ASSUME NEW m, m \in Header, GoodMsg(m), m.num \in 0 .. nsent', smp'[q] = m PROVE Copy(smp[q])'
  BY <1>b DEF Copy
<1>1. CASE SameCall(q)
  <2>1. Copy(smp[q]) => Copy(smp[q])'
    BY <1>1, <1>a, <1>b DEF SameCall
  <2> QED
    BY <1>0, <1>1, <2>1 DEF CallOK, SameCall
<1>2. CASE Step(q)
  <2>1. Flow(q)
    BY <1>2, StepFlow
  <2>2. /\ uap'[q].id \in Id
        /\ uap'[q].op = "msgsnd" => uap'[q].typ \in Types /\ uap'[q].size \in 0 .. MSGMAX
        /\ pc'[q] \in SndLoc => uap'[q].op = "msgsnd"
    <3>1. CASE uap'[q] = uap[q]
      BY <1>0, <2>1, <3>1 DEF Flow, CallOK
    <3>2. CASE uap'[q] = NoCall /\ pc'[q] = "user"
      BY <1>0, <3>2 DEF NoCall, SndLoc
    <3> QED
      BY <2>1, <3>1, <3>2 DEF Flow
  <2>3. CASE FindCopy(q)
    <3>1. PICK m \in Best(Queue(q).msgs, uap[q].typ) : smp' = [smp EXCEPT ![q] = m]
      BY <2>3 DEF FindCopy
    <3>2. PICK k \in DOMAIN Msgs(SlotOf(q)) : m = Msgs(SlotOf(q))[k]
      BY DEF Best, Queue, Msgs
    <3>3. SlotOf(q) \in Slot /\ Msgs(SlotOf(q)) \in Seq(Header)
      BY QueueType DEF TypeInv, Queue, Msgs
    <3>4. GoodMsg(m) /\ m \in Header
      BY <3>2, <3>3 DEF ArgInv
    <3>5. m.num \in 1 .. nsent
      BY <3>2, <3>3 DEF NumInv, PlaceInv, Nums
    <3>6. m.num \in 0 .. nsent' /\ smp'[q] = m
      BY <1>0, <3>1, <3>5 DEF TypeInv, MsgType
    <3> QED
      BY <1>b, <2>2, <3>4, <3>6 DEF CallOK
  <2>4. CASE GetresCopy(q)
    <3>1. PICK a \in Seg \cup {0} :
            smp' = [smp EXCEPT ![q] = [type |-> uap[q].typ, size |-> uap[q].size,
                                       spot |-> a, num |-> 0]]
      BY <2>4 DEF GetresCopy
    <3>2. PICK m : m = [type |-> uap[q].typ, size |-> uap[q].size, spot |-> a, num |-> 0]
      OBVIOUS
    <3>3. smp'[q] = m /\ pc[q] = "getres" /\ m \in Header
      BY <2>4, <3>1, <3>2, CopyFacts DEF TypeInv, MsgType
    <3>4. uap[q].typ \in Types /\ uap[q].size \in 0 .. MSGMAX
      BY <1>0, <3>3 DEF CallOK, SndLoc
    <3>5. GoodMsg(m) /\ m.num \in 0 .. nsent'
      BY <1>0, <3>2, <3>4 DEF GoodMsg
    <3> QED
      BY <1>b, <2>2, <3>3, <3>5 DEF CallOK
  <2>5. CASE ~FindCopy(q) /\ ~GetresCopy(q)
    <3>1. smp'[q] \in {smp[q], None} /\ pc'[q] \notin {"rcvcopy", "sndtext"}
      BY <2>1, <2>5 DEF Flow
    <3>2. smp'[q] = None \/ Copy(smp[q])'
      BY <1>0, <1>a, <1>b, <3>1 DEF CallOK
    <3> QED
      BY <2>2, <3>1, <3>2 DEF CallOK
  <2> QED
    BY <2>3, <2>4, <2>5
<1>3. ASSUME NEW c, Call(q, c), c.id \in Id,
             c.op = "msgsnd" => c.typ \in Types /\ c.size \in 0 .. MSGMAX
      PROVE  CallOK(q)'
  <2>1. uap'[q] = c /\ pc'[q] = "conv" /\ smp'[q] = smp[q]
    BY <1>3 DEF Call, Goto, TypeInv, MsgType
  <2>2. smp'[q] = None \/ Copy(smp[q])'
    BY <1>0, <1>a, <1>b, <2>1 DEF CallOK
  <2> QED
    BY <1>3, <2>1, <2>2 DEF CallOK, SndLoc
<1>4. CASE Request(q)
  <2>1. CASE msgget(q)
    BY <1>1, <2>1, GetFacts DEF SameCall
  <2>2. ASSUME NEW id \in Id, NEW op \in {"rmid", "set", "stat"}, msgctl(q, op, id) PROVE CallOK(q)'
    BY <1>3, <2>2 DEF msgctl
  <2>3. ASSUME NEW id \in Id, NEW a \in RcvArgs, msgrcv(q, id, a) PROVE CallOK(q)'
    BY <1>3, <2>3 DEF msgrcv
  <2>4. ASSUME NEW id \in Id, NEW a \in SndArgs, msgsnd(q, id, a) PROVE CallOK(q)'
    <3>1. a.typ \in Types /\ a.size \in 0 .. MSGMAX
      BY MsgAssumption DEF Types
    <3> QED
      BY <1>3, <2>4, <3>1 DEF msgsnd
  <2> QED
    BY <1>4, <2>1, <2>2, <2>3, <2>4 DEF Request
<1>5. CASE UNCHANGED vars \/ psignal(q)
  BY <1>1, <1>5 DEF vars, proc, psignal, SameCall
<1>6. ASSUME NEW p \in Proc, p # q, Request(p) \/ Step(p) \/ psignal(p) PROVE SameCall(q)
  <2>1. CASE Step(p)
    BY <1>6, <2>1, StepKinds DEF OthersSame, SameCall
  <2>2. CASE psignal(p)
    BY <2>2 DEF psignal, proc, SameCall
  <2>3. ASSUME NEW c, Call(p, c) PROVE SameCall(q)
    BY <1>6, <2>3 DEF Call, Goto, SameCall, TypeInv, MsgType
  <2>4. CASE msgget(p)
    BY <2>4, GetFacts DEF SameCall
  <2> QED
    BY <1>6, <2>1, <2>2, <2>3, <2>4 DEF Request, msgctl, msgrcv, msgsnd
<1> QED
  BY <1>1, <1>2, <1>4, <1>5, <1>6 DEF Next

LEMMA ArgStep ==
  ASSUME Base, NumInv, ArgInv, [Next]_vars
  PROVE  ArgInv'
<1>1. cpu' \in Proc \cup {None} /\ sig' \subseteq Proc
  <2>0. cpu \in Proc \cup {None} /\ sig \subseteq Proc
    BY DEF ArgInv
  <2>1. CASE UNCHANGED vars
    BY <2>0, <2>1 DEF vars, proc
  <2>2. ASSUME NEW p \in Proc, Step(p) PROVE cpu' \in Proc \cup {None} /\ sig' \subseteq Proc
    BY <2>0, <2>2, StepFlow DEF Base, Flow
  <2>3. ASSUME NEW p \in Proc, Request(p) \/ psignal(p)
        PROVE  cpu' \in Proc \cup {None} /\ sig' \subseteq Proc
    BY <2>0, <2>3 DEF Request, msgget, msgctl, msgrcv, msgsnd, Call, Goto, psignal, proc
  <2> QED
    BY <2>1, <2>2, <2>3 DEF Next
<1>2. \A p \in Proc : CallOK(p)'
  BY CallStep
<1>3. \A s \in Slot : SlotOK(s)'
  BY SlotStep DEF Base
<1>4. GoodRcvd' /\ \A s \in Slot : GoodMsgs(s)'
  BY GoodStep
<1> QED
  BY <1>1, <1>2, <1>3, <1>4 DEF ArgInv, SlotOK, GoodRcvd, GoodMsgs

LEMMA TypeMeans ==
  ASSUME MsgInv, ArgInv, BoundInv
  PROVE  TypeOK
<1>0. TypeInv /\ NumInv /\ CountInv /\ PoolInv /\ Base
  BY DEF MsgInv, Base
<1>1. nsent \in 0 .. MaxSend /\ nrm \in 0 .. MaxRmid /\ nfault \in 0 .. MaxFault
  <2>1. Active("rmid") \in Nat /\ Active("msgsnd") \in Nat
    BY CallersFinite
  <2>2. nsent \in Nat /\ {MaxRmid, MaxSend} \subseteq Nat
    BY <1>0, MsgAssumption DEF TypeInv, MsgType
  <2> QED
    BY <2>1, <2>2 DEF BoundInv
<1>2. ASSUME NEW m, m \in Header, GoodMsg(m), m.num \in 0 .. nsent PROVE m \in Message
  <2>1. m.num \in 0 .. MaxSend /\ m.type \in Types /\ m.size \in 0 .. MSGMAX /\ m.spot \in Seg \cup {0}
    BY <1>1, <1>2, MsgAssumption DEF GoodMsg
  <2>2. m = [type |-> m.type, size |-> m.size, spot |-> m.spot, num |-> m.num]
    BY <1>2 DEF Header
  <2> QED
    BY <2>1, <2>2 DEF Message, Types
<1>3. msgque \in [Slot -> [alloc : BOOLEAN, rwait : BOOLEAN, wwait : BOOLEAN,
                           seq : 0 .. ID_MAX, cbytes : Nat, qnum : Nat, qbytes : Nat,
                           msgs : Seq(Message)]]
  <2>1. ASSUME NEW s \in Slot
        PROVE  msgque[s] \in [alloc : BOOLEAN, rwait : BOOLEAN, wwait : BOOLEAN,
                              seq : 0 .. ID_MAX, cbytes : Nat, qnum : Nat, qbytes : Nat,
                              msgs : Seq(Message)]
    <3>1. PICK ms : ms = Msgs(s)
      OBVIOUS
    <3>2. ms \in Seq(Header) /\ Len(ms) \in Nat
      BY <1>0, <3>1, MsgsType
    <3>3. ms \in Seq(Message)
      <4>1. \A k \in 1 .. Len(ms) : ms[k] \in Message
        <5> TAKE k \in 1 .. Len(ms)
        <5>1. k \in DOMAIN ms /\ ms[k] \in Header
          BY <3>2
        <5>2. GoodMsg(ms[k])
          BY <3>1, <5>1 DEF ArgInv
        <5>3. ms[k].num \in 1 .. nsent /\ nsent \in Nat
          BY <1>0, <1>1, <3>1, <5>1, MsgAssumption DEF NumInv, PlaceInv, Nums, TypeInv, MsgType
        <5>4. ms[k].num \in 0 .. nsent
          BY <5>3
        <5> QED
          BY <1>2, <5>1, <5>2, <5>4
      <4>2. ms = [k \in 1 .. Len(ms) |-> ms[k]]
        BY <3>2
      <4> QED
        BY <3>2, <4>1, <4>2, IsASeq
    <3>4. Bytes(ms) \in Nat
      BY <3>2, SizesInts, TotalNat DEF Bytes
    <3>5. msgque[s].qnum \in Nat /\ msgque[s].cbytes \in Nat
      BY <1>0, <3>1, <3>2, <3>4 DEF CountInv
    <3>6. msgque[s].seq \in 0 .. ID_MAX /\ msgque[s].qbytes \in Nat
      BY DEF ArgInv
    <3>7. msgque[s] \in QueueRec
      BY <1>0 DEF TypeInv, MsgType
    <3>8. msgque[s].msgs \in Seq(Message)
      BY <3>1, <3>3 DEF Msgs
    <3> QED
      BY <3>5, <3>6, <3>7, <3>8 DEF QueueRec
  <2>2. msgque = [s \in Slot |-> msgque[s]]
    BY <1>0 DEF TypeInv, MsgType
  <2> QED
    BY <2>1, <2>2
<1>4. uap \in [Proc -> [op : {"none", "rmid", "set", "stat", "msgrcv", "msgsnd"},
                        id : Id, size : Nat, typ : Int, nowait : BOOLEAN, noerror : BOOLEAN]]
  <2>1. uap \in [Proc -> CallRec] /\ \A p \in Proc : uap[p].id \in Id
    BY <1>0 DEF TypeInv, MsgType, ArgInv, CallOK
  <2> QED
    BY <2>1 DEF CallRec
<1>5. smp \in [Proc -> Message \cup {None}]
  <2>1. smp \in [Proc -> Header \cup {None}] /\ \A p \in Proc : smp[p] = None \/ Copy(smp[p])
    BY <1>0 DEF TypeInv, MsgType, ArgInv, CallOK
  <2>2. \A p \in Proc : smp[p] \in Message \cup {None}
    BY <1>2, <2>1 DEF Copy
  <2> QED
    BY <2>1, <2>2
<1>6. rcvd \in Seq([id : Id, type : Nat, num : 1 .. MaxSend])
  <2>1. rcvd \in Seq(RcvRec)
    BY <1>0 DEF NumInv
  <2>2. \A j \in DOMAIN rcvd : rcvd[j] \in [id : Id, type : Nat, num : 1 .. MaxSend]
    <3> TAKE j \in DOMAIN rcvd
    <3>1. rcvd[j] \in RcvRec
      BY <2>1
    <3>2. rcvd[j].num \in 1 .. nsent
      BY <1>0 DEF NumInv, PlaceInv, RNums
    <3>3. rcvd[j].num \in 1 .. MaxSend
      BY <1>1, <3>2, MsgAssumption
    <3>4. rcvd[j].id \in Id /\ rcvd[j].type \in Types
      BY DEF ArgInv
    <3>5. Types \subseteq Nat
      BY MsgAssumption DEF Types
    <3> QED
      BY <3>1, <3>3, <3>4, <3>5 DEF RcvRec
  <2>3. rcvd = [j \in 1 .. Len(rcvd) |-> rcvd[j]] /\ Len(rcvd) \in Nat /\ DOMAIN rcvd = 1 .. Len(rcvd)
    BY <2>1
  <2>4. \A j \in 1 .. Len(rcvd) : rcvd[j] \in [id : Id, type : Nat, num : 1 .. MaxSend]
    BY <2>2, <2>3
  <2>5. PICK r : r = rcvd
    OBVIOUS
  <2>6. PICK R : R = [id : Id, type : Nat, num : 1 .. MaxSend]
    OBVIOUS
  <2>7. /\ r = [j \in 1 .. Len(r) |-> r[j]] /\ Len(r) \in Nat
        /\ \A j \in 1 .. Len(r) : r[j] \in R
    BY <2>3, <2>4, <2>5, <2>6
  <2>8. r \in Seq(R)
    BY ONLY <2>7, IsASeq
  <2> QED
    BY <2>5, <2>6, <2>8
<1>7. gone \subseteq 1 .. MaxSend
  BY <1>0, <1>1, MsgAssumption, SMTT(30) DEF NumInv, PlaceInv
<1>8. msgfp \in Nat /\ msgmap \subseteq Seg
  BY <1>0 DEF PoolInv, HeadInv, TextInv
<1> QED
  BY <1>0, <1>1, <1>3, <1>4, <1>5, <1>6, <1>7, <1>8 DEF TypeOK, TypeInv, MsgType, ArgInv

\* The state of msg.c keeps its types: msg_cbytes and msg_qnum do not go below
\* zero, and msgsnd() takes no header when there is none.
THEOREM TypeCorrect == Spec => []TypeOK
<1> DEFINE Inv == MsgInv /\ ArgInv /\ BoundInv
<1>1. Init => ArgInv /\ BoundInv
  <2> SUFFICES ASSUME Init PROVE ArgInv /\ BoundInv
    OBVIOUS
  <2>1. <<0, 0>> \in Id /\ 0 \in 0 .. ID_MAX
    BY MsgAssumption DEF Id, Slot
  <2>2. ArgInv
    <3>1. cpu \in Proc \cup {None} /\ sig \subseteq Proc
      BY DEF Init
    <3>2. ASSUME NEW p \in Proc PROVE CallOK(p)
      <4>1. uap[p] = NoCall /\ pc[p] = "user" /\ smp[p] = None
        BY DEF Init
      <4>2. NoCall.id = <<0, 0>> /\ NoCall.op = "none"
        BY DEF NoCall
      <4>3. uap[p].id \in Id
        BY <2>1, <4>1, <4>2
      <4>4. uap[p].op # "msgsnd" /\ pc[p] \notin SndLoc /\ pc[p] \notin {"rcvcopy", "sndtext"}
        BY <4>1, <4>2 DEF SndLoc
      <4> QED
        BY <4>1, <4>3, <4>4 DEF CallOK
    <3>3. ASSUME NEW s \in Slot
          PROVE  /\ msgque[s].seq \in 0 .. ID_MAX /\ msgque[s].qbytes \in Nat
                 /\ \A k \in DOMAIN Msgs(s) : GoodMsg(Msgs(s)[k])
      <4>1. msgque[s].seq = 0 /\ msgque[s].qbytes = 0 /\ Msgs(s) = <<>>
        BY DEF Init, Msgs
      <4> QED
        BY <2>1, <4>1
    <3>4. DOMAIN rcvd = {}
      BY DEF Init
    <3> QED
      BY <3>1, <3>2, <3>3, <3>4 DEF ArgInv
  <2>3. Callers("rmid") = {} /\ Callers("msgsnd") = {}
    BY DEF Callers, Init, NoCall
  <2>4. Active("rmid") = 0 /\ Active("msgsnd") = 0
    BY <2>3, CallersFinite, FS_EmptySet
  <2>5. BoundInv
    BY <2>4, MsgAssumption DEF BoundInv, Init
  <2> QED
    BY <2>2, <2>5
<1>2. MsgInv /\ ArgInv /\ BoundInv /\ [Next]_vars => ArgInv' /\ BoundInv'
  BY ArgStep, BoundStep DEF MsgInv, Base
<1>3. MsgInv /\ ArgInv /\ BoundInv => TypeOK
  BY TypeMeans
<1> QED
  BY <1>1, <1>2, <1>3, MsgCorrect, PTL DEF Spec
=============================================================================
