----------------------------- MODULE RecordLock -----------------------------
(***************************************************************************)
(* File and record locking, os/flock.c: the ordered list of locks of one   *)
(* file, the algorithm that splits, shrinks and merges an owner's locks,   *)
(* and the processes that sleep until another owner's lock goes away, with *)
(* the deadlock detection over the list of sleeping requests.              *)
(*                                                                         *)
(* The kernel is not preempted, so what a call does between two sleeps is  *)
(* one action.  Lock owners are local processes, which sleep in reclock(), *)
(* and processes of other machines, whose lock daemon asks again (F_RSETLKW*)
(* never sleeps) until it gets the lock or cancels the request; a remote   *)
(* process has one request outstanding.  Offsets are already relative to   *)
(* the beginning of the file; access checks and the XENIX variants are     *)
(* left out.                                                               *)
(***************************************************************************)
EXTENDS Integers, Sequences, SequencesExt, FiniteSets

CONSTANTS
  Proc,      \* local processes
  Remote,    \* processes of other machines (l_sysid # 0)
  None,      \* no process, no request, no channel
  LastByte,  \* MAXEND
  FLCKREC,   \* tune.t_flckrec, how many records there may be
  Region,    \* the regions <<l_start, l_end>> that are asked for
  Locking,   \* the types of lock that are asked for
  SetFlck    \* whether SETFLCK is given: TRUE by fcntl(), FALSE by chklock()

ASSUME NotAProcess == None \notin Proc \cup Remote /\ Proc \cap Remote = {}
ASSUME FiniteAssumption == IsFiniteSet(Proc \cup Remote)
ASSUME SizeAssumption == LastByte \in Nat /\ FLCKREC \in Nat
ASSUME RequestAssumption ==
  /\ Region \subseteq (0..LastByte) \X (0..LastByte)
  /\ Locking \subseteq {"F_RDLCK", "F_WRLCK"}
  /\ SetFlck \subseteq BOOLEAN

VARIABLES
  v_filocks,  \* the locks of the file, ordered by l_start
  reccnt,     \* flckinfo.reccnt: records in use, for locks and for sleepers
  sleeplcks,  \* sleeplcks[p]: the requests of p listed as blocked, newest first
  lckdat,     \* lckdat[p]: the request p waits to have granted, or None
  wchan,      \* wchan[p]: the lock p sleeps on, or None
  sig         \* sig[p]: p has a signal to take in its call

vars == <<v_filocks, reccnt, sleeplcks, lckdat, wchan, sig>>

Owner == Proc \cup Remote
Byte == 0..LastByte

(* A request for a region that is not empty (EINVAL); without SETFLCK the  *)
(* caller, chklock(), only waits for the locks that an I/O must obey.      *)
Request(p, type, set) ==
  {[pid |-> p, type |-> t, start |-> r[1], end |-> r[2], set |-> b] :
     t \in type, r \in {x \in Region : x[1] <= x[2]}, b \in set}

ASSUME NotARequest == \A p \in Proc : None \notin Request(p, Locking, SetFlck)

Init ==
  /\ v_filocks = <<>>
  /\ reccnt = 0
  /\ sleeplcks = [p \in Owner |-> <<>>]
  /\ lckdat = [p \in Proc |-> None]
  /\ wchan = [p \in Proc |-> None]
  /\ sig = [p \in Proc |-> FALSE]

-----------------------------------------------------------------------------
(* The lock list.  A lock's address is its owner and start: an owner's     *)
(* locks do not overlap, and the start of a lock on the list never changes.*)

Lock(p, t, s, e) == [pid |-> p, type |-> t, start |-> s, end |-> e, wakeflg |-> FALSE]
Address(f) == <<f.pid, f.start>>
Waiters(f) == IF f.wakeflg THEN {Address(f)} ELSE {}

\* Mutant: a writer is let in beside readers.
ConflictsWrite(ld, f) ==
  f.pid # ld.pid /\ ld.start <= f.end /\ f.start <= ld.end /\ f.type = "F_WRLCK"

(* blocked(): the first lock of another owner that excludes the request.   *)
Conflicts(ld, f) ==
  /\ f.pid # ld.pid
  /\ ld.start <= f.end /\ f.start <= ld.end
  /\ "F_WRLCK" \in {f.type, ld.type}

Blockers(ld) == {i \in DOMAIN v_filocks : Conflicts(ld, v_filocks[i])}
Found(ld) == v_filocks[CHOOSE i \in Blockers(ld) : \A j \in Blockers(ld) : i <= j]

(* blocked(): where flckadj() starts, the owner's first lock that begins   *)
(* before the request and reaches it, else the last lock that begins before*)
InsertPoint(ld) ==
  LET before == {i \in DOMAIN v_filocks : v_filocks[i].start < ld.start}
      own == {i \in before : v_filocks[i].pid = ld.pid /\ ld.start - 1 <= v_filocks[i].end}
  IN  IF own # {} THEN Min(own) ELSE Max(before \cup {0})

regflck(ld, f) ==
  CASE ld.start > f.start /\ ld.start - 1 = f.end -> <<"S_END", "E_AFTER">>
    [] ld.start > f.start /\ ld.start - 1 > f.end -> <<"S_AFTER", "E_AFTER">>
    [] OTHER ->
         << IF ld.start > f.start THEN "S_MIDDLE"
            ELSE IF ld.start = f.start THEN "S_START" ELSE "S_BEFORE",
            IF ld.end < f.end
              THEN IF ld.end = f.start - 1 THEN "E_START"
                   ELSE IF ld.end < f.start THEN "E_BEFORE" ELSE "E_MIDDLE"
              ELSE IF ld.end = f.end THEN "E_END" ELSE "E_AFTER" >>

(***************************************************************************)
(* The state of flckadj(): the list and record count so far, the request   *)
(* ld (which grows as it is merged), flp and insrtp as positions in the    *)
(* list (0 for NULL), how many records kmem_zalloc() will still give, the  *)
(* addresses awakened, and the result ("" while it runs).                  *)
(***************************************************************************)
(* What is left of a list when those at the positions in gone are deleted. *)
Without(list, gone) ==
  LET left[n \in 0..Len(list)] ==
        IF n = 0 THEN <<>>
        ELSE IF n \in gone THEN left[n - 1] ELSE Append(left[n - 1], list[n])
  IN  left[Len(list)]

delflck(s, i) ==
  [s EXCEPT !.list = RemoveAt(@, i), !.reccnt = @ - 1,
            !.woken = @ \cup Waiters(s.list[i])]

insflck(s, lck, i) ==
  IF s.reccnt >= FLCKREC \/ s.mem = 0
    THEN [s EXCEPT !.ret = "ENOLCK"]
    ELSE [s EXCEPT !.list = InsertAt(@, i + 1, Lock(lck.pid, lck.type, lck.start, lck.end)),
                   !.reccnt = @ + 1, !.mem = @ - 1]

\* Mutant: the scan stops at once.
AfterFirst(list, i, start) == i

(* The last of the locks from i on that begin before start, or i itself.   *)
After(list, i, start) ==
  IF i = 0 THEN 0
  ELSE Max({i} \cup {j \in i..Len(list) : \A k \in i..j : list[k].start < start})

\* Mutant: nobody is awakened.
ShrinkQuiet(s) == [s EXCEPT !.list[s.flp].end = s.ld.start - 1, !.insrtp = s.flp]

(* The lock at s.flp keeps only what lies before the request.              *)
Shrink(s) ==
  [s EXCEPT !.list[s.flp] = [@ EXCEPT !.end = s.ld.start - 1, !.wakeflg = FALSE],
            !.woken = @ \cup Waiters(s.list[s.flp]), !.insrtp = s.flp]

\* Mutant: the rest begins at the last byte of the request.
SplitEarly(s) ==
  LET f == s.list[s.flp] IN
  insflck(s, [f EXCEPT !.start = s.ld.end], After(s.list, s.flp, s.ld.end))

(* The rest of the lock at s.flp, after the request, becomes a new lock.   *)
Split(s) ==
  LET f == s.list[s.flp] IN
  insflck(s, [f EXCEPT !.start = s.ld.end + 1], After(s.list, s.flp, s.ld.end + 1))

(* What a turn of the loop does: it ends the loop, goes on to the next     *)
(* lock, has the request inserted before the lock at flp, deletes that     *)
(* lock, or extends the request to its end or start in its place.          *)
Stop(s) == [s EXCEPT !.flp = 0]
Skip(s) == [s EXCEPT !.flp = @ + 1]
Prev(s) == [s EXCEPT !.insrtp = s.flp - 1]
Delete(s) == delflck(s, s.flp)
MergeEnd(s) == Delete([s EXCEPT !.ld.end = s.list[s.flp].end])
MergeStart(s) == Delete(Prev([s EXCEPT !.ld.start = s.list[s.flp].start]))

(* The request, which begins at "begin" of the lock at flp, is cut out of  *)
(* it: the rest after it becomes a lock, unless there is no record for it. *)
Carve(s, begin) ==
  LET t == Split(s) IN
  IF t.ret # "" THEN t
  ELSE Stop(IF begin = "S_MIDDLE" THEN Shrink(t)
            ELSE Delete(IF begin = "S_START" THEN Prev(t) ELSE t))

Spans(S, E) == S \X E

(* One turn of the loop of flckadj(): what becomes of the lock at s.flp.   *)
AdjustOne(s) ==
  LET f == s.list[s.flp]
      reg == regflck(s.ld, f)
      same == s.ld.type = f.type
  IN
  IF f.pid # s.ld.pid THEN Skip(s) ELSE
  CASE reg = <<"S_BEFORE", "E_BEFORE">> -> Stop(s)
    [] reg = <<"S_BEFORE", "E_START">> -> Stop(IF same THEN MergeEnd(s) ELSE s)
    [] same /\ reg \in Spans({"S_START", "S_MIDDLE"}, {"E_MIDDLE", "E_END"}) ->
         [s EXCEPT !.ret = "0"]
    [] reg = <<"S_START", "E_AFTER">> \/ (~same /\ reg = <<"S_START", "E_END">>) ->
         Delete(Prev(s))
    [] reg = <<"S_BEFORE", "E_END">> -> IF same THEN Stop(Delete(s)) ELSE Delete(s)
    [] reg = <<"S_BEFORE", "E_AFTER">> -> Delete(s)
    [] same /\ reg = <<"S_BEFORE", "E_MIDDLE">> -> Stop(MergeEnd(s))
    [] ~same /\ reg[2] = "E_MIDDLE" -> Carve(s, reg[1])
    [] ~same /\ reg \in Spans({"S_MIDDLE"}, {"E_END", "E_AFTER"}) -> Skip(Shrink(s))
    [] same /\ reg \in Spans({"S_MIDDLE", "S_END"}, {"E_AFTER"}) -> MergeStart(s)
    [] ~same /\ reg = <<"S_END", "E_AFTER">> -> Skip(s)
    [] reg = <<"S_AFTER", "E_AFTER">> -> Skip([s EXCEPT !.insrtp = s.flp])

(* The loop ends with a result, at Stop or at the end of the list.          *)
Turn(s) ==
  IF s.ret # "" \/ s.flp = 0 \/ s.flp > Len(s.list) THEN s ELSE AdjustOne(s)

Scan(s0, turns) ==
  LET scan[n \in 0..turns] == IF n = 0 THEN s0 ELSE Turn(scan[n - 1])
  IN  scan[turns]

(* The scan, and then the insertion of what the request has become.        *)
flckadj(ld, insrtp, cnt, mem) ==
  LET s0 == [list |-> v_filocks, reccnt |-> cnt, ld |-> ld, insrtp |-> insrtp,
             flp |-> IF insrtp = 0 THEN 1 ELSE insrtp, mem |-> mem,
             woken |-> {}, ret |-> ""]
      s == Scan(s0, Len(v_filocks))
      t == IF s.ret # "" \/ ld.type = "F_UNLCK" THEN s
           ELSE insflck(s, s.ld, After(s.list, s.insrtp, s.ld.start))
  IN  [list |-> t.list, reccnt |-> t.reccnt, ld |-> t.ld, woken |-> t.woken,
       ret |-> IF t.ret = "" THEN "0" ELSE t.ret]

-----------------------------------------------------------------------------
(* The requests on sleeplcks.  insflck() puts a new one at the head, and   *)
(* the search of deadflck() stops at the first that it finds of a process. *)

Entry(ld, q) == [type |-> ld.type, start |-> ld.start, end |-> ld.end, blk |-> q]

(* Who the newest entry of p says it waits for.                            *)
WaitsFor(p) == IF sleeplcks[p] = <<>> THEN {} ELSE {Head(sleeplcks[p]).blk}

(* The owners deadflck() meets, from the owner q of the blocking lock on.  *)
Chain(q) ==
  {r \in Owner : \A S \in SUBSET Owner :
     q \in S /\ (\A p \in S : WaitsFor(p) \subseteq S) => r \in S}

\* Mutant: the chain is not followed.
deadflckFirst(q, p) == q = p \/ p \in WaitsFor(q)

deadflck(q, p) == p \in Chain(q)

(* cleanslp: the entries of its owner that lie within the request go.      *)
Cleaned(ld) ==
  LET list == sleeplcks[ld.pid] IN
  Without(list, {i \in DOMAIN list : ld.start <= list[i].start /\ list[i].end <= ld.end})

(* WAKEUP(): those who sleep on the locks with these addresses are made    *)
(* runnable.                                                               *)
Wake(addresses) ==
  wchan' = [p \in Proc |-> IF wchan[p] \in addresses THEN None ELSE wchan[p]]

-----------------------------------------------------------------------------
(* The ends of an attempt to lock.  cnt is the record count at that point; *)
(* kmem_zalloc(KM_NOSLEEP) may give all the records that flckadj() wants   *)
(* (at most two), one, or none.                                            *)

Mem == 0..2

Adjusted(t) ==
  /\ v_filocks' = t.list
  /\ Wake(t.woken)

Adjustments(ld, cnt) == {flckadj(ld, InsertPoint(ld), cnt, mem) : mem \in Mem}
Unlockings(ld) ==
  {flckadj(ld, IF v_filocks = <<>> THEN 0 ELSE 1, reccnt, mem) : mem \in Mem}

Granted(ld, cnt) ==
  /\ ld.set
  /\ Blockers(ld) = {}
  /\ \E t \in Adjustments(ld, cnt) : Adjusted(t) /\ reccnt' = t.reccnt

(* Without SETFLCK the answer is all that is wanted.                       *)
Tested(ld, cnt) ==
  /\ ~ld.set
  /\ Blockers(ld) = {}
  /\ reccnt' = cnt
  /\ UNCHANGED <<v_filocks, wchan>>

(* EAGAIN without SLPFLCK; with it EDEADLK, or ENOLCK when there is no     *)
(* record to wait with, as there may be at any time.                       *)
Refused(ld, cnt) ==
  /\ Blockers(ld) # {}
  /\ reccnt' = cnt
  /\ UNCHANGED <<v_filocks, wchan>>

(* p is put on sleeplcks and goes to sleep on the lock that blocks it.     *)
Sleep(p, ld, cnt) ==
  /\ Blockers(ld) # {}
  /\ ~deadflck(Found(ld).pid, p)
  /\ cnt < FLCKREC
  /\ reccnt' = cnt + 1
  /\ v_filocks' = [i \in DOMAIN v_filocks |->
       IF v_filocks[i] = Found(ld) THEN [v_filocks[i] EXCEPT !.wakeflg = TRUE]
       ELSE v_filocks[i]]
  /\ sleeplcks' = [sleeplcks EXCEPT ![p] = <<Entry(ld, Found(ld).pid)>>]
  /\ lckdat' = [lckdat EXCEPT ![p] = ld]
  /\ wchan' = [wchan EXCEPT ![p] = Address(Found(ld))]

(* The call of p returns; its entry, if it had one, is deleted.            *)
Return(p) ==
  /\ lckdat' = [lckdat EXCEPT ![p] = None]
  /\ sleeplcks' = [sleeplcks EXCEPT ![p] = <<>>]

Attempt(p, ld, cnt) ==
  \/ /\ \/ Granted(ld, cnt)
        \/ Tested(ld, cnt)
        \/ Refused(ld, cnt)
     /\ Return(p)
  \/ Sleep(p, ld, cnt)

-----------------------------------------------------------------------------
(* Local processes.                                                        *)

(* fcntl(F_SETLK, F_SETLKW) and chklock(), up to the first sleep.          *)
reclock(p) ==
  /\ lckdat[p] = None
  /\ \E ld \in Request(p, Locking, SetFlck) : Attempt(p, ld, reccnt)
  /\ UNCHANGED sig

(* The sleep is over without a signal: contflg, the entry goes and the     *)
(* whole is tried again.                                                   *)
reclockAgain(p) ==
  /\ lckdat[p] # None /\ wchan[p] = None /\ ~sig[p]
  /\ Attempt(p, lckdat[p], reccnt - 1)
  /\ UNCHANGED sig

(* SLEEP() returned 1: EINTR.                                              *)
reclockIntr(p) ==
  /\ lckdat[p] # None /\ sig[p]
  /\ Return(p)
  /\ reccnt' = reccnt - 1
  /\ sig' = [sig EXCEPT ![p] = FALSE]
  /\ UNCHANGED <<v_filocks, wchan>>

(* A signal for a process in its call: sleeping, or awakened and not yet   *)
(* running.                                                                *)
psignal(p) ==
  /\ lckdat[p] # None /\ ~sig[p]
  /\ sig' = [sig EXCEPT ![p] = TRUE]
  /\ wchan' = [wchan EXCEPT ![p] = None]
  /\ UNCHANGED <<v_filocks, reccnt, sleeplcks, lckdat>>

(* fcntl(F_SETLK) with F_UNLCK.                                            *)
unlock(p) ==
  /\ lckdat[p] = None
  /\ \E ld \in Request(p, {"F_UNLCK"}, {TRUE}) :
       \E t \in Unlockings(ld) : Adjusted(t) /\ reccnt' = t.reccnt
  /\ UNCHANGED <<sleeplcks, lckdat, sig>>

(* close(), and so exit(): whatever p has locked in the file is released.  *)
cleanlocks(p) ==
  /\ lckdat[p] = None
  /\ LET own == {i \in DOMAIN v_filocks : v_filocks[i].pid = p} IN
       /\ own # {}
       /\ v_filocks' = Without(v_filocks, own)
       /\ reccnt' = reccnt - Cardinality(own)
       /\ Wake(UNION {Waiters(v_filocks[i]) : i \in own})
  /\ UNCHANGED <<sleeplcks, lckdat, sig>>

-----------------------------------------------------------------------------
(* Processes of other machines, through the lock daemon.                   *)

Clean(r, ld, cnt) ==
  /\ sleeplcks' = [sleeplcks EXCEPT ![r] = Cleaned(ld)]
  /\ reccnt' = cnt - (Len(sleeplcks[r]) - Len(Cleaned(ld)))

(* F_RSETLKW is not granted: the daemon is told EINTR, and the request is  *)
(* listed for deadlock detection unless it is there already.               *)
Listed(r, ld) ==
  /\ Blockers(ld) # {}
  /\ ~deadflck(Found(ld).pid, r)
  /\ LET e == Entry(ld, Found(ld).pid)
         old == Range(sleeplcks[r])
     IN  \/ /\ e \in old
            /\ UNCHANGED <<sleeplcks, reccnt>>
         \/ /\ e \notin old /\ reccnt < FLCKREC
            /\ sleeplcks' = [sleeplcks EXCEPT ![r] = <<e>> \o @]
            /\ reccnt' = reccnt + 1
  /\ UNCHANGED <<v_filocks, wchan>>

(* F_RSETLK and F_RSETLKW, for a new request, one asked again, or one made *)
(* after an earlier one was given up: local_cancel() of the daemon does not*)
(* tell the kernel.                                                        *)
rreclock(r) ==
  /\ \E ld \in Request(r, Locking, {TRUE}) :
       /\ \/ Granted(ld, reccnt) /\ UNCHANGED sleeplcks
          \/ /\ Blockers(ld) = {}
             /\ \E t \in Adjustments(ld, reccnt) :
                  Adjusted(t) /\ Clean(r, t.ld, t.reccnt)
          \/ Refused(ld, reccnt) /\ UNCHANGED sleeplcks
          \/ Listed(r, ld)
  /\ UNCHANGED <<lckdat, sig>>

(* F_RSETLK with F_UNLCK.                                                  *)
runlock(r) ==
  /\ \E ld \in Request(r, {"F_UNLCK"}, {TRUE}) :
       \E t \in Unlockings(ld) : Adjusted(t) /\ Clean(r, t.ld, t.reccnt)
  /\ UNCHANGED <<lckdat, sig>>

Next ==
  \/ \E p \in Proc :
       \/ reclock(p) \/ reclockAgain(p) \/ reclockIntr(p)
       \/ psignal(p) \/ unlock(p) \/ cleanlocks(p)
  \/ \E r \in Remote : rreclock(r) \/ runlock(r)

Spec == Init /\ [][Next]_vars

-----------------------------------------------------------------------------
(* Who has which lock on which byte, according to a lock list.             *)
Held(list) ==
  UNION {{list[i].pid} \X (list[i].start..list[i].end) \X {list[i].type} : i \in DOMAIN list}

Locks == INSTANCE FileLocks WITH held <- Held(v_filocks)

(* The list of locks implements byte-by-byte locking: whatever is split,   *)
(* shrunk, merged or inserted, a step changes the bytes of one owner only, *)
(* gives one type of lock to all it grants, never against another owner's  *)
(* lock, and takes nothing away in doing so.                               *)
LocksSpec == Locks!Spec

(* "All record lock lists are ordered by starting position": and the locks *)
(* of one owner do not overlap, and do not adjoin when of the same type    *)
(* (they have been coalesced); and flckinfo.reccnt is the number of        *)
(* records there are, so that none leaks.                                  *)
Canonical(list) ==
  \A i, j \in DOMAIN list : i < j =>
    /\ list[i].start <= list[j].start
    /\ list[i].pid = list[j].pid =>
         /\ list[i].end < list[j].start
         /\ list[i].type = list[j].type => list[i].end + 1 < list[j].start

Entries == FoldFunction(+, 0, [p \in Owner |-> Len(sleeplcks[p])])

ListCanonical ==
  /\ Canonical(v_filocks)
  /\ \A i \in DOMAIN v_filocks : v_filocks[i].start <= v_filocks[i].end
  /\ reccnt = Len(v_filocks) + Entries

(* flckadj() against its definition, for every request that could be made  *)
(* of the list and however many records there are for it: a success gives  *)
(* the requested bytes the requested type and leaves the others alone, and *)
(* a failure takes nothing but bytes of the requester.  It depends on the  *)
(* list alone, so it is evaluated where no request waits.                  *)
AdjustedTo(t, ld) ==
  LET asked == {x \in Held(v_filocks) : x[1] = ld.pid /\ x[2] \in ld.start..ld.end}
      others == {x \in Held(v_filocks) : x[1] # ld.pid}
      given == {ld.pid} \X (ld.start..ld.end) \X ({ld.type} \ {"F_UNLCK"})
  IN  /\ Canonical(t.list)
      /\ IF t.ret = "0" THEN Held(t.list) = (Held(v_filocks) \ asked) \cup given
         ELSE others \subseteq Held(t.list) /\ Held(t.list) \subseteq Held(v_filocks)

AdjustExact ==
  (\A p \in Owner : sleeplcks[p] = <<>>) =>
    \A o \in Owner :
      /\ \A ld \in Request(o, Locking, {TRUE}) :
           Blockers(ld) = {} => \A t \in Adjustments(ld, reccnt) : AdjustedTo(t, ld)
      /\ \A ld \in Request(o, {"F_UNLCK"}, {TRUE}) :
           \A t \in Unlockings(ld) : AdjustedTo(t, ld)

(* A process asleep in reclock() sleeps on a lock that is on the list, will*)
(* wake it (wakeflg) and does exclude its request; and sleeplcks says that *)
(* it waits for the owner of that lock.                                    *)
SleeperBlocked ==
  \A p \in Proc : wchan[p] # None =>
    /\ lckdat[p] # None
    /\ \E i \in DOMAIN v_filocks :
         LET f == v_filocks[i] IN
         /\ Address(f) = wchan[p]
         /\ f.wakeflg
         /\ Conflicts(lckdat[p], f)
         /\ WaitsFor(p) = {f.pid}

(* Each of these owners waits for one of them.                             *)
Cycle(S) == S # {} /\ \A p \in S : WaitsFor(p) # {} /\ WaitsFor(p) \subseteq S

(* Deadlock detection works: no local processes ever wait for each other   *)
(* in a circle, whatever they and remote processes ask for, and in what    *)
(* order those who are awakened try again.                                 *)
NoWaitCycle == \A S \in SUBSET Proc : ~Cycle(S)

(* deadflck() follows sleeplcks until it meets the requester or a process  *)
(* that does not wait: on a cycle of which the requester is not a part it  *)
(* would go round for ever.                                                *)
DeadflckEnds == \A S \in SUBSET Owner : ~Cycle(S)
=============================================================================
