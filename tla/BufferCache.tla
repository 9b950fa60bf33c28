---------------------------- MODULE BufferCache ----------------------------
(***************************************************************************)
(* The block buffer cache: uts/i386/os/bio.c.                              *)
(*                                                                         *)
(* Processes read and write blocks of one device through a bounded number  *)
(* of buffers; the device completes requests from interrupt level.  The    *)
(* kernel is not preempted: cpu names the process that is between two      *)
(* sleeps, and only interrupts come in between its steps.  What the code   *)
(* does at spl6 is one step, or (getfreeblk's loop) masks the interrupt.   *)
(*                                                                         *)
(* All buffers have the same size, so "bfreelist.b_bufsize < bsize" says   *)
(* that every buffer has its memory: bhdrlist is empty.  The data of a     *)
(* block is the number of the write that it comes from.                    *)
(*                                                                         *)
(* The device is external: it completes requests in any order, but those   *)
(* for the same block in the order in which they were made.                *)
(***************************************************************************)
EXTENDS Integers, Sequences, FiniteSets, SequencesExt

CONSTANTS
  Proc,        \* processes
  Buf,         \* buffers that the memory limit v.v_bufhwm allows
  Block,       \* blocks of the device
  AsyncFree,   \* bawrite() is asynchronous with more free buffers (4)
  MaxWrite,    \* bound: writes of one block
  MaxError,    \* bound: I/O errors of a behaviour
  FreeList,    \* the sleep channel &bfreelist
  None

ASSUME BufAssumption ==
  /\ IsFiniteSet(Proc) /\ IsFiniteSet(Buf)
  /\ AsyncFree \in Nat /\ MaxWrite \in Nat /\ MaxError \in Nat
  /\ FreeList \notin Buf
  /\ None \notin Proc \cup Buf \cup Block \cup {FreeList}

Flag == {"BUSY", "DONE", "DELWRI", "ASYNC", "STALE", "AGE", "ERROR", "READ", "WANTED"}

VARIABLES
  b_flags,    \* flags of each buffer
  b_blkno,    \* its block, None when it is on no hash queue
  b_addr,     \* its data, None if of no block
  avail,      \* the free list, bfreelist.av_forw first
  flwanted,   \* B_WANTED of bfreelist
  bhdrlist,   \* buffers without memory
  basyncnt,   \* asynchronous writes
  queue,      \* requests at the device, oldest first
  disk,       \* data of each block on the device
  errs,       \* I/O errors so far
  cpu,        \* the process that is between two sleeps, or None
  pc,         \* where each process is
  call,       \* the operation it performs, its block and its read-ahead block
  bp,         \* the buffer it holds
  nbp,        \* the buffer getblk() works on or has returned
  hit,        \* the buffer it found on the hash queue, before spl6()
  wchan,      \* the channel it sleeps on
  \* history variables
  latest,     \* number of the last write to each block
  lost,       \* blocks of which the last write failed
  astray      \* blocks of which getblk() has handed out a stale buffer

bufs  == <<b_flags, b_blkno, b_addr>>
lists == <<avail, flwanted, bhdrlist>>
dev   == <<queue, disk, errs>>
proc  == <<cpu, pc, call, bp, nbp, hit>>
hist  == <<latest, lost, astray>>
vars  == <<bufs, lists, basyncnt, dev, proc, wchan, hist>>

NoCall == [op |-> "none", blk |-> None, ra |-> None]

Init ==
  /\ b_flags = [b \in Buf |-> {}]
  /\ b_blkno = [b \in Buf |-> None]
  /\ b_addr = [b \in Buf |-> None]
  /\ avail = <<>> /\ flwanted = FALSE /\ bhdrlist = Buf
  /\ basyncnt = 0
  /\ queue = <<>> /\ errs = 0
  /\ disk = [k \in Block |-> <<k, 0>>]
  /\ cpu = None
  /\ pc = [p \in Proc |-> "user"]
  /\ call = [p \in Proc |-> NoCall]
  /\ bp = [p \in Proc |-> None]
  /\ nbp = [p \in Proc |-> None]
  /\ hit = [p \in Proc |-> None]
  /\ wchan = [p \in Proc |-> None]
  /\ latest = [k \in Block |-> 0]
  /\ lost = {}
  /\ astray = {}

Has(b, f) == f \in b_flags[b]

\* The buffer that getblk(), blkflush() and incore() find on the hash queue.
Hashed(k) == {b \in Buf : b_blkno[b] = k /\ ~Has(b, "STALE")}

incore(k) == Hashed(k) # {}

(***************************************************************************)
(* Scheduling.                                                             *)
(***************************************************************************)
\* p can take its next step at location l.
At(p, l) == pc[p] = l /\ cpu \in {None, p} /\ wchan[p] = None

\* p goes on to l without giving up the processor; it leaves for l and the
\* others may run; it sleeps on chan, and resumes at l.
Goto(p, l) == pc' = [pc EXCEPT ![p] = l] /\ cpu' = p
Leave(p, l) == pc' = [pc EXCEPT ![p] = l] /\ cpu' = None
Sleep(p, chan, l) == Leave(p, l) /\ wchan' = [wchan EXCEPT ![p] = chan]

Awake(chans) == [p \in Proc |-> IF wchan[p] \in chans THEN None ELSE wchan[p]]

(***************************************************************************)
(* brelse, notavail and the start of a request.                            *)
(***************************************************************************)
\* Mutant of Released: a buffer whose I/O failed stays valid.
ReleasedValid(flags) ==
  (IF "ERROR" \in flags THEN (flags \ {"ERROR", "DELWRI"}) \cup {"AGE"}
                        ELSE flags) \ {"WANTED", "BUSY", "ASYNC"}

\* Flags of a buffer after brelse().
Released(flags) ==
  (IF "ERROR" \in flags THEN (flags \ {"ERROR", "DELWRI"}) \cup {"STALE", "AGE"}
                        ELSE flags) \ {"WANTED", "BUSY", "ASYNC"}

\* Where brelse() puts a buffer on the free list.
Freed(list, b, flags) ==
  IF "AGE" \in Released(flags) THEN <<b>> \o list ELSE Append(list, b)

\* Mutant of brelse: "else if" in front of the test of bfreelist.
brelseElse(b, fl, list) ==
  /\ wchan' = Awake(IF "WANTED" \in fl[b] THEN {b}
                      ELSE IF flwanted THEN {FreeList} ELSE {})
  /\ flwanted' = FALSE
  /\ avail' = Freed(list, b, fl[b])
  /\ b_flags' = [fl EXCEPT ![b] = Released(@)]

\* brelse(b) when the flags and the free list are fl and list.
brelse(b, fl, list) ==
  /\ wchan' = Awake((IF "WANTED" \in fl[b] THEN {b} ELSE {})
                      \cup (IF flwanted THEN {FreeList} ELSE {}))
  /\ flwanted' = FALSE
  /\ avail' = Freed(list, b, fl[b])
  /\ b_flags' = [fl EXCEPT ![b] = Released(@)]

\* The list without b, which is on it.
Unlinked(list, b) == RemoveAt(list, CHOOSE i \in DOMAIN list : list[i] = b)

notavail(b) == avail' = Unlinked(avail, b)

\* Flags with which bwrite() calls the driver.
WriteFlags(flags) == flags \ {"READ", "DONE", "ERROR", "DELWRI"}

strategy(b) == queue' = Append(queue, b)

(***************************************************************************)
(* System calls and file systems call the cache.                           *)
(***************************************************************************)
Call(p, o, k, r, l) ==
  /\ At(p, "user")
  /\ call' = [call EXCEPT ![p] = [op |-> o, blk |-> k, ra |-> r]]
  /\ Goto(p, l)
  /\ UNCHANGED <<bufs, lists, basyncnt, dev, bp, nbp, wchan, hit, hist>>

bread(p, k) == Call(p, "bread", k, None, "getblk")

\* getblk() by a caller that will overwrite the whole block.
getblk(p, k) == Call(p, "getblk", k, None, "getblk")

ngeteblk(p) == Call(p, "ngeteblk", None, None, "getfree")

breada(p, k, r) == Call(p, "breada", k, r, IF incore(k) THEN "ahead" ELSE "getblk")

bflush(p) == Call(p, "bflush", None, None, "bflush")

blkflush(p, k) == Call(p, "blkflush", k, None, "blkflush")

bdwait(p) == Call(p, "bdwait", None, None, "bdwait")

\* Last close of the device: nobody else is using it.
close(p) ==
  /\ \A q \in Proc : pc[q] = "user"
  /\ Call(p, "close", None, None, "bflush")

\* p returns from the cache.
Return(p) ==
  /\ Leave(p, "user")
  /\ call' = [call EXCEPT ![p] = NoCall]

(***************************************************************************)
(* getfreeblk: reuse the oldest buffer, or allocate one.  The loop runs at *)
(* spl6.                                                                   *)
(***************************************************************************)
\* The loop takes the head of the free list.
TakesHead == avail # <<>> /\ (bhdrlist = {} \/ Has(Head(avail), "AGE"))

\* A delayed write goes out first, and the loop goes on.
GetfreeWrite(p) ==
  /\ At(p, "getfree") /\ TakesHead
  /\ LET b == Head(avail) IN
     /\ Has(b, "DELWRI")
     /\ b_flags' = [b_flags EXCEPT ![b] = WriteFlags(@ \cup {"BUSY", "ASYNC", "AGE"})]
     /\ strategy(b)
  /\ avail' = Tail(avail)
  /\ basyncnt' = basyncnt + 1
  /\ Goto(p, "getfree")
  /\ UNCHANGED <<b_blkno, b_addr, flwanted, bhdrlist, disk, errs, call, bp, nbp, wchan, hit, hist>>

\* The buffer that getfreeblk() returns: ngeteblk() has its buffer, getblk()
\* looks again, and has slept if cpus allows it.
GotFree(p, b, cpus) ==
  IF call[p].op = "ngeteblk"
    THEN /\ b_flags' = [b_flags EXCEPT ![b] = {"BUSY", "AGE"}]
         /\ bp' = [bp EXCEPT ![p] = b]
         /\ nbp' = nbp
         /\ Leave(p, "hold")
    ELSE /\ b_flags' = [b_flags EXCEPT ![b] = @ \cup {"BUSY"}]
         /\ nbp' = [nbp EXCEPT ![p] = b]
         /\ bp' = bp
         /\ pc' = [pc EXCEPT ![p] = "getblk"]
         /\ cpu' \in cpus

\* Mutant of GetfreeReuse: a delayed write is forgotten.
GetfreeReuseDirty(p) ==
  /\ At(p, "getfree") /\ TakesHead
  /\ LET b == Head(avail) IN
     /\ b_blkno' = [b_blkno EXCEPT ![b] = None]
     /\ b_addr' = [b_addr EXCEPT ![b] = None]
     /\ GotFree(p, b, {p})
  /\ avail' = Tail(avail)
  /\ UNCHANGED <<flwanted, bhdrlist, basyncnt, dev, call, wchan, hit, hist>>

GetfreeReuse(p) ==
  /\ At(p, "getfree") /\ TakesHead
  /\ LET b == Head(avail) IN
     /\ ~Has(b, "DELWRI")
     /\ b_blkno' = [b_blkno EXCEPT ![b] = None]
     /\ b_addr' = [b_addr EXCEPT ![b] = None]
     /\ GotFree(p, b, {p})
  /\ avail' = Tail(avail)
  /\ UNCHANGED <<flwanted, bhdrlist, basyncnt, dev, call, wchan, hit, hist>>

\* No memory left: sleep until a buffer is released, then start over.
GetfreeSleep(p) ==
  /\ At(p, "getfree") /\ avail = <<>> /\ bhdrlist = {}
  /\ flwanted' = TRUE
  /\ Sleep(p, FreeList, IF call[p].op = "ngeteblk" THEN "getfree" ELSE "getblk")
  /\ UNCHANGED <<bufs, avail, bhdrlist, basyncnt, dev, call, bp, nbp, hit, hist>>

\* Allocate memory; kmem_zalloc() may sleep.
GetfreeAlloc(p) ==
  /\ At(p, "getfree") /\ ~TakesHead /\ bhdrlist # {}
  /\ \E b \in bhdrlist :
       /\ bhdrlist' = bhdrlist \ {b}
       /\ GotFree(p, b, {None, p})
  /\ UNCHANGED <<b_blkno, b_addr, avail, flwanted, basyncnt, dev, call, wchan, hit, hist>>

(***************************************************************************)
(* getblk.                                                                 *)
(***************************************************************************)
\* The search of the hash queue, at spl0: a request may fail before spl6().
GetblkFind(p) ==
  /\ At(p, "getblk")
  /\ \E b \in Hashed(call[p].blk) : hit' = [hit EXCEPT ![p] = b]
  /\ Goto(p, "found")
  /\ UNCHANGED <<bufs, lists, basyncnt, dev, call, bp, nbp, wchan, hist>>

\* p has b before it and finds it busy, then looks again from l: getblk(),
\* and blkflush(), to which a buffer that went stale is one with no write
\* to wait for.
Busy(p, b, l) ==
  /\ \/ At(p, "found") /\ l = "getblk" /\ b = hit[p]
     \/ At(p, "blkflush") /\ l = "blkflush" /\ b \in Hashed(call[p].blk)
  /\ Has(b, "BUSY")

\* Mutant of BusySleep: B_WANTED is not set.
BusySleepQuiet(p) ==
  /\ \E b \in Buf, l \in {"getblk", "blkflush"} : Busy(p, b, l) /\ Sleep(p, b, l)
  /\ hit' = [hit EXCEPT ![p] = None]
  /\ UNCHANGED <<bufs, lists, basyncnt, dev, call, bp, nbp, hist>>

\* Sleep on a busy buffer.
BusySleep(p) ==
  /\ \E b \in Buf, l \in {"getblk", "blkflush"} :
       /\ Busy(p, b, l)
       /\ b_flags' = [b_flags EXCEPT ![b] = @ \cup {"WANTED"}]
       /\ Sleep(p, b, l)
  /\ hit' = [hit EXCEPT ![p] = None]
  /\ UNCHANGED <<b_blkno, b_addr, lists, basyncnt, dev, call, bp, nbp, hist>>

\* The block has a buffer: take it, and give back the spare one.  B_STALE is
\* not tested again.
GetblkHit(p) ==
  /\ At(p, "found") /\ ~Has(hit[p], "BUSY")
  /\ LET b == hit[p]
         taken == [b_flags EXCEPT ![b] = (@ \ {"AGE"}) \cup {"BUSY"}] IN
     /\ IF nbp[p] = None
          THEN b_flags' = taken /\ notavail(b) /\ UNCHANGED <<wchan, flwanted>>
          ELSE brelse(nbp[p], [taken EXCEPT ![nbp[p]] = {"BUSY"}], Unlinked(avail, b))
     /\ nbp' = [nbp EXCEPT ![p] = b]
     /\ astray' = IF Has(b, "STALE") THEN astray \cup {call[p].blk} ELSE astray
  /\ hit' = [hit EXCEPT ![p] = None]
  /\ Goto(p, "got")
  /\ UNCHANGED <<b_blkno, b_addr, bhdrlist, basyncnt, dev, call, bp, latest, lost>>

GetblkMiss(p) ==
  /\ At(p, "getblk") /\ ~incore(call[p].blk) /\ nbp[p] = None
  /\ Goto(p, "getfree")
  /\ UNCHANGED <<bufs, lists, basyncnt, dev, call, bp, nbp, wchan, hit, hist>>

\* Mutant of GetblkNew: the hash queue is not searched again.
GetblkNewBlind(p) ==
  /\ At(p, "getblk") /\ nbp[p] # None
  /\ b_flags' = [b_flags EXCEPT ![nbp[p]] = {"BUSY"}]
  /\ b_blkno' = [b_blkno EXCEPT ![nbp[p]] = call[p].blk]
  /\ Goto(p, "got")
  /\ UNCHANGED <<b_addr, lists, basyncnt, dev, call, bp, nbp, wchan, hit, hist>>

\* Give the spare buffer to the block.
GetblkNew(p) ==
  /\ At(p, "getblk") /\ ~incore(call[p].blk) /\ nbp[p] # None
  /\ b_flags' = [b_flags EXCEPT ![nbp[p]] = {"BUSY"}]
  /\ b_blkno' = [b_blkno EXCEPT ![nbp[p]] = call[p].blk]
  /\ Goto(p, "got")
  /\ UNCHANGED <<b_addr, lists, basyncnt, dev, call, bp, nbp, wchan, hit, hist>>

(***************************************************************************)
(* bread and breada, from the return of getblk().                          *)
(***************************************************************************)
\* The buffer is valid, or its contents do not matter.
GotReady(p) ==
  /\ At(p, "got")
  /\ call[p].op = "getblk" \/ (call[p].op = "bread" /\ Has(nbp[p], "DONE"))
  /\ bp' = [bp EXCEPT ![p] = nbp[p]]
  /\ nbp' = [nbp EXCEPT ![p] = None]
  /\ Leave(p, "hold")
  /\ call' = [call EXCEPT ![p] = NoCall]
  /\ UNCHANGED <<bufs, lists, basyncnt, dev, wchan, hit, hist>>

\* Start the read; breada() goes on with the read-ahead block.
GotRead(p) ==
  /\ At(p, "got") /\ call[p].op \in {"bread", "breada"} /\ ~Has(nbp[p], "DONE")
  /\ b_flags' = [b_flags EXCEPT ![nbp[p]] = @ \cup {"READ"}]
  /\ strategy(nbp[p])
  /\ bp' = [bp EXCEPT ![p] = nbp[p]]
  /\ nbp' = [nbp EXCEPT ![p] = None]
  /\ Goto(p, IF call[p].op = "bread" THEN "biowait" ELSE "ahead")
  /\ UNCHANGED <<b_blkno, b_addr, lists, basyncnt, disk, errs, call, wchan, hit, hist>>

\* breada()'s getblk() slept and found a valid buffer.
GotAhead(p) ==
  /\ At(p, "got") /\ call[p].op = "breada" /\ Has(nbp[p], "DONE")
  /\ bp' = [bp EXCEPT ![p] = nbp[p]]
  /\ nbp' = [nbp EXCEPT ![p] = None]
  /\ Goto(p, "ahead")
  /\ UNCHANGED <<bufs, lists, basyncnt, dev, call, wchan, hit, hist>>

\* breada(), when the read-ahead is started or not needed: wait for the
\* first block k, or bread() it.
AheadDone(p, k) ==
  /\ Goto(p, IF bp[p] = None THEN "getblk" ELSE "biowait")
  /\ call' = [call EXCEPT ![p] = [op |-> "bread", blk |-> k, ra |-> None]]

AheadBegin(p) ==
  /\ At(p, "ahead") /\ Len(avail) > 1 /\ ~incore(call[p].ra)
  /\ call' = [call EXCEPT ![p] = [op |-> "ahead", blk |-> call[p].ra, ra |-> call[p].blk]]
  /\ Goto(p, "getblk")
  /\ UNCHANGED <<bufs, lists, basyncnt, dev, bp, nbp, wchan, hit, hist>>

AheadSkip(p) ==
  /\ At(p, "ahead") /\ (Len(avail) <= 1 \/ incore(call[p].ra))
  /\ AheadDone(p, call[p].blk)
  /\ UNCHANGED <<bufs, lists, basyncnt, dev, bp, nbp, wchan, hit, hist>>

AheadRead(p) ==
  /\ At(p, "got") /\ call[p].op = "ahead" /\ ~Has(nbp[p], "DONE")
  /\ b_flags' = [b_flags EXCEPT ![nbp[p]] = @ \cup {"READ", "ASYNC"}]
  /\ strategy(nbp[p])
  /\ nbp' = [nbp EXCEPT ![p] = None]
  /\ AheadDone(p, call[p].ra)
  /\ UNCHANGED <<b_blkno, b_addr, lists, basyncnt, disk, errs, bp, wchan, hit, hist>>

AheadValid(p) ==
  /\ At(p, "got") /\ call[p].op = "ahead" /\ Has(nbp[p], "DONE")
  /\ brelse(nbp[p], b_flags, avail)
  /\ nbp' = [nbp EXCEPT ![p] = None]
  /\ AheadDone(p, call[p].ra)
  /\ UNCHANGED <<b_blkno, b_addr, bhdrlist, basyncnt, dev, bp, hit, hist>>

(***************************************************************************)
(* biowait and biodone.                                                    *)
(***************************************************************************)
BiowaitSleep(p) ==
  /\ At(p, "biowait") /\ ~Has(bp[p], "DONE")
  /\ b_flags' = [b_flags EXCEPT ![bp[p]] = @ \cup {"WANTED"}]
  /\ Sleep(p, bp[p], "biowait")
  /\ UNCHANGED <<b_blkno, b_addr, lists, basyncnt, dev, call, bp, nbp, hit, hist>>

\* The read is done: the caller has the buffer.
BiowaitRead(p) ==
  /\ At(p, "biowait") /\ Has(bp[p], "DONE") /\ call[p].op = "bread"
  /\ Leave(p, "hold")
  /\ call' = [call EXCEPT ![p] = NoCall]
  /\ UNCHANGED <<bufs, lists, basyncnt, dev, bp, nbp, wchan, hit, hist>>

\* The write is done: bwrite() releases the buffer.
BiowaitWritten(p) ==
  /\ At(p, "biowait") /\ Has(bp[p], "DONE") /\ call[p].op \in {"bwrite", "blkflush"}
  /\ brelse(bp[p], b_flags, avail)
  /\ bp' = [bp EXCEPT ![p] = None]
  /\ IF call[p].op = "bwrite"
       THEN Return(p)
       ELSE Goto(p, "blkflush") /\ UNCHANGED call
  /\ UNCHANGED <<b_blkno, b_addr, bhdrlist, basyncnt, dev, nbp, hit, hist>>

\* The interrupt is masked in getfreeblk().
Masked == cpu # None /\ pc[cpu] = "getfree"

\* b is the oldest request for its block.
Oldest(b) ==
  \E i \in DOMAIN queue :
    queue[i] = b /\ \A j \in 1..(i - 1) : b_blkno[queue[j]] # b_blkno[b]

\* Mutant of biodone: asynchronous reads are counted down, too.
biodoneAll(b, flags) ==
  /\ queue' = Unlinked(queue, b)
  /\ LET fl == [b_flags EXCEPT ![b] = flags] IN
     IF "ASYNC" \in flags
       THEN /\ basyncnt' = basyncnt - 1
            /\ brelse(b, fl, avail)
       ELSE /\ b_flags' = [fl EXCEPT ![b] = @ \ {"WANTED"}]
            /\ wchan' = Awake({b})
            /\ UNCHANGED <<basyncnt, avail, flwanted>>
  /\ UNCHANGED <<b_blkno, bhdrlist, proc>>

\* The interrupt that completes the request for b; the driver sets B_ERROR.
biodone(b, flags) ==
  /\ queue' = Unlinked(queue, b)
  /\ LET fl == [b_flags EXCEPT ![b] = flags] IN
     IF "ASYNC" \in flags
       THEN /\ basyncnt' = IF "READ" \in flags THEN basyncnt ELSE basyncnt - 1
            /\ brelse(b, fl, avail)
       ELSE /\ b_flags' = [fl EXCEPT ![b] = @ \ {"WANTED"}]
            /\ wchan' = Awake({b})
            /\ UNCHANGED <<basyncnt, avail, flwanted>>
  /\ UNCHANGED <<b_blkno, bhdrlist, proc>>

ReadDone(b) ==
  /\ ~Masked /\ Oldest(b) /\ Has(b, "READ")
  /\ biodone(b, b_flags[b] \cup {"DONE"})
  /\ b_addr' = [b_addr EXCEPT ![b] = disk[b_blkno[b]]]
  /\ UNCHANGED <<disk, errs, hist>>

WriteDone(b) ==
  /\ ~Masked /\ Oldest(b) /\ ~Has(b, "READ")
  /\ biodone(b, b_flags[b] \cup {"DONE"})
  /\ disk' = [disk EXCEPT ![b_blkno[b]] = b_addr[b]]
  /\ UNCHANGED <<b_addr, errs, hist>>

\* The device fails.
IOError(b) ==
  /\ ~Masked /\ Oldest(b) /\ errs < MaxError
  /\ errs' = errs + 1
  /\ biodone(b, b_flags[b] \cup {"DONE", "ERROR"})
  /\ lost' = IF ~Has(b, "READ") /\ b_addr[b] = <<b_blkno[b], latest[b_blkno[b]]>>
               THEN lost \cup {b_blkno[b]} ELSE lost
  /\ UNCHANGED <<b_addr, disk, latest, astray>>

(***************************************************************************)
(* The holder of a buffer releases it, unchanged or with new data.         *)
(***************************************************************************)
Release(p) ==
  /\ At(p, "hold")
  /\ brelse(bp[p], b_flags, avail)
  /\ bp' = [bp EXCEPT ![p] = None]
  /\ Return(p)
  /\ UNCHANGED <<b_blkno, b_addr, bhdrlist, basyncnt, dev, nbp, hit, hist>>

\* New data for the block of a valid buffer, or for a block that is
\* overwritten as a whole.
NewData(p) ==
  LET b == bp[p] k == b_blkno[bp[p]] IN
  /\ At(p, "hold") /\ call[p].op # "ngeteblk" /\ ~Has(b, "ERROR")
  /\ latest[k] < MaxWrite
  /\ latest' = [latest EXCEPT ![k] = @ + 1]
  /\ b_addr' = [b_addr EXCEPT ![b] = <<k, latest[k] + 1>>]
  /\ lost' = lost \ {k}
  /\ UNCHANGED astray

bdwrite(p) ==
  /\ NewData(p)
  /\ brelse(bp[p], [b_flags EXCEPT ![bp[p]] = @ \cup {"DELWRI", "DONE"}], avail)
  /\ bp' = [bp EXCEPT ![p] = None]
  /\ Return(p)
  /\ UNCHANGED <<b_blkno, bhdrlist, basyncnt, dev, nbp, hit>>

\* bwrite() up to the driver's return, when the flags are flags.
StartWrite(p, flags) ==
  /\ NewData(p)
  /\ b_flags' = [b_flags EXCEPT ![bp[p]] = WriteFlags(flags)]
  /\ strategy(bp[p])
  /\ Goto(p, "bwrote")
  /\ call' = [call EXCEPT ![p] = [op |-> IF "ASYNC" \in flags THEN "bawrite" ELSE "bwrite",
                                  blk |-> None, ra |-> None]]
  /\ UNCHANGED <<b_blkno, lists, basyncnt, disk, errs, bp, nbp, wchan, hit>>

bwrite(p) == StartWrite(p, b_flags[bp[p]])

bawrite(p) ==
  StartWrite(p, IF Len(avail) > AsyncFree THEN b_flags[bp[p]] \cup {"ASYNC"}
                                          ELSE b_flags[bp[p]])

\* The rest of bwrite(): by the flags it was called with, not by the flags
\* of the buffer, which may have been released by now.
BwriteAsync(p) ==
  /\ At(p, "bwrote") /\ call[p].op = "bawrite"
  /\ basyncnt' = basyncnt + 1
  /\ bp' = [bp EXCEPT ![p] = None]
  /\ Return(p)
  /\ UNCHANGED <<bufs, lists, dev, nbp, wchan, hit, hist>>

\* Mutant of BwriteSync: B_ASYNC is tested after the driver was called.
BwriteSyncLate(p) ==
  /\ At(p, "bwrote") /\ ~Has(bp[p], "ASYNC")
  /\ call' = [call EXCEPT ![p].op = "bwrite"]
  /\ Goto(p, "biowait")
  /\ UNCHANGED <<bufs, lists, basyncnt, dev, bp, nbp, wchan, hit, hist>>

BwriteSync(p) ==
  /\ At(p, "bwrote") /\ call[p].op \in {"bwrite", "blkflush"}
  /\ Goto(p, "biowait")
  /\ UNCHANGED <<bufs, lists, basyncnt, dev, call, bp, nbp, wchan, hit, hist>>

(***************************************************************************)
(* bflush, blkflush, bdwait and binval.                                    *)
(***************************************************************************)
\* The delayed writes on the free list, of which bflush() finds the first.
Delayed == {i \in DOMAIN avail : Has(avail[i], "DELWRI")}

BflushWrite(p) ==
  /\ At(p, "bflush")
  /\ \E i \in Delayed :
       /\ \A j \in Delayed : i <= j
       /\ b_flags' = [b_flags EXCEPT ![avail[i]] = WriteFlags(@ \cup {"BUSY", "ASYNC"})]
       /\ notavail(avail[i])
       /\ strategy(avail[i])
  /\ basyncnt' = basyncnt + 1
  /\ Goto(p, "bflush")
  /\ UNCHANGED <<b_blkno, b_addr, flwanted, bhdrlist, disk, errs, call, bp, nbp, wchan, hit, hist>>

BflushReturn(p) ==
  /\ At(p, "bflush") /\ Delayed = {} /\ call[p].op = "bflush"
  /\ Return(p)
  /\ UNCHANGED <<bufs, lists, basyncnt, dev, bp, nbp, wchan, hit, hist>>

\* Mutant of binval: it does not wait for the end of bflush().
binvalEarly(p) ==
  /\ At(p, "bflush") /\ call[p].op = "close"
  /\ b_flags' = [b \in Buf |-> IF b_blkno[b] # None THEN b_flags[b] \cup {"STALE", "AGE"}
                                                   ELSE b_flags[b]]
  /\ Return(p)
  /\ UNCHANGED <<b_blkno, b_addr, lists, basyncnt, dev, bp, nbp, wchan, hit, hist>>

\* The last close invalidates the blocks of the device.
binval(p) ==
  /\ At(p, "bflush") /\ Delayed = {} /\ call[p].op = "close"
  /\ b_flags' = [b \in Buf |-> IF b_blkno[b] # None THEN b_flags[b] \cup {"STALE", "AGE"}
                                                   ELSE b_flags[b]]
  /\ Return(p)
  /\ UNCHANGED <<b_blkno, b_addr, lists, basyncnt, dev, bp, nbp, wchan, hit, hist>>

\* blkflush() writes the block and looks again; a busy buffer is BusySleep's.
BlkflushWrite(p) ==
  /\ At(p, "blkflush")
  /\ \E b \in Hashed(call[p].blk) :
       /\ ~Has(b, "BUSY") /\ Has(b, "DELWRI")
       /\ b_flags' = [b_flags EXCEPT ![b] = WriteFlags(@ \cup {"BUSY"})]
       /\ notavail(b)
       /\ strategy(b)
       /\ bp' = [bp EXCEPT ![p] = b]
  /\ Goto(p, "bwrote")
  /\ UNCHANGED <<b_blkno, b_addr, flwanted, bhdrlist, basyncnt, disk, errs, call, nbp, wchan, hit, hist>>

BlkflushReturn(p) ==
  /\ At(p, "blkflush")
  /\ \A b \in Hashed(call[p].blk) : ~Has(b, "BUSY") /\ ~Has(b, "DELWRI")
  /\ Return(p)
  /\ UNCHANGED <<bufs, lists, basyncnt, dev, bp, nbp, wchan, hit, hist>>

\* bdwait() sleeps once, for a fixed time.
BdwaitDelay(p) ==
  /\ At(p, "bdwait") /\ basyncnt # 0
  /\ Leave(p, "delay")
  /\ UNCHANGED <<bufs, lists, basyncnt, dev, call, bp, nbp, wchan, hit, hist>>

BdwaitReturn(p) ==
  /\ At(p, "delay") \/ (At(p, "bdwait") /\ basyncnt = 0)
  /\ Return(p)
  /\ UNCHANGED <<bufs, lists, basyncnt, dev, bp, nbp, wchan, hit, hist>>

\* A process calls the cache.
Request(p) ==
  \/ \E k \in Block : bread(p, k) \/ getblk(p, k) \/ blkflush(p, k)
  \/ \E k, r \in Block : k # r /\ breada(p, k, r)
  \/ ngeteblk(p) \/ bflush(p) \/ bdwait(p) \/ close(p)

\* A process goes on in the cache, or gives back the buffer it holds.
Step(p) ==
  \/ GetblkFind(p) \/ GetblkHit(p) \/ GetblkMiss(p) \/ GetblkNew(p) \/ BusySleep(p)
  \/ GetfreeWrite(p) \/ GetfreeReuse(p) \/ GetfreeSleep(p) \/ GetfreeAlloc(p)
  \/ GotReady(p) \/ GotRead(p) \/ GotAhead(p)
  \/ AheadBegin(p) \/ AheadSkip(p) \/ AheadRead(p) \/ AheadValid(p)
  \/ BiowaitSleep(p) \/ BiowaitRead(p) \/ BiowaitWritten(p)
  \/ Release(p) \/ bdwrite(p) \/ bwrite(p) \/ bawrite(p) \/ BwriteAsync(p) \/ BwriteSync(p)
  \/ BflushWrite(p) \/ BflushReturn(p) \/ binval(p)
  \/ BlkflushWrite(p) \/ BlkflushReturn(p) \/ BdwaitDelay(p) \/ BdwaitReturn(p)

Interrupt(b) == ReadDone(b) \/ WriteDone(b) \/ IOError(b)

Next == (\E p \in Proc : Request(p) \/ Step(p)) \/ (\E b \in Buf : Interrupt(b))

Spec == Init /\ [][Next]_vars

\* The dispatcher serves every process that is often runnable, the device
\* completes every request (its interrupt stays pending while it is masked),
\* and the users of the cache release their buffers.
FairSpec ==
  /\ Spec
  /\ \A p \in Proc : SF_vars(Step(p))
  /\ \A b \in Buf : SF_vars(Interrupt(b))

(***************************************************************************)
(* Properties.                                                             *)
(***************************************************************************)
\* getblk() never leaves two buffers for the same block, although it may
\* sleep between the search of the hash queue and the use of a new buffer.
OneBuffer == \A k \in Block : Cardinality(Hashed(k)) <= 1

\* p's buffers: the one it holds (until an asynchronous write of it starts),
\* and the one getblk() works on.
Owned(p) ==
  (IF pc[p] = "bwrote" /\ call[p].op = "bawrite" THEN {} ELSE {bp[p]} \ {None})
    \cup ({nbp[p]} \ {None})

\* A buffer has exactly one owner: the free list (once, and only if it is not
\* busy), the list of headers, one process, or an asynchronous request.
OwnedOnce ==
  /\ \A i, j \in DOMAIN avail : i # j => avail[i] # avail[j]
  /\ \A b \in Buf :
       LET free == b \in ToSet(avail)
           async == b \in ToSet(queue) /\ Has(b, "ASYNC")
           holders == {p \in Proc : b \in Owned(p)} IN
       /\ Has(b, "BUSY") <=> ~free /\ b \notin bhdrlist
       /\ Cardinality(holders) + (IF free THEN 1 ELSE 0)
            + (IF b \in bhdrlist THEN 1 ELSE 0) + (IF async THEN 1 ELSE 0) = 1

\* Whoever sleeps on a buffer or on the free list will be awakened: brelse()
\* and biodone() are still to come and see the wanted flag.
NoLostWakeup ==
  \A p \in Proc :
    /\ wchan[p] \in Buf => Has(wchan[p], "BUSY") /\ Has(wchan[p], "WANTED")
    /\ wchan[p] = FreeList => flwanted /\ avail = <<>>

\* A valid buffer holds the last data written to its block, whatever was
\* flushed, invalidated, reused and read ahead in the meantime; until a
\* stale buffer of the block is handed out.
Coherent ==
  \A b \in Buf :
    b_blkno[b] \in Block \ (lost \cup astray) /\ Has(b, "DONE") /\ ~Has(b, "ERROR") /\ ~Has(b, "STALE")
      => b_addr[b] = <<b_blkno[b], latest[b_blkno[b]]>>

\* Data accepted by bdwrite(), bwrite() or bawrite() is on the disk, waits in
\* a delayed-write buffer that can still be found, or is on its way, unless
\* the device reported an error or a stale buffer was handed out.
NothingLost ==
  \A k \in Block \ (lost \cup astray) :
    \/ disk[k] = <<k, latest[k]>>
    \/ \E b \in Buf :
         /\ b_blkno[b] = k /\ b_addr[b] = <<k, latest[k]>>
         /\ \/ Has(b, "DELWRI") /\ ~Has(b, "STALE")
            \/ b \in ToSet(queue) /\ ~Has(b, "READ")

\* A write never puts older data over newer data, but for the delayed write
\* of a stale buffer.
DiskMonotonic == [][\A k \in Block \ astray : disk'[k][2] >= disk[k][2]]_vars

\* basyncnt is the number of asynchronous writes at the device, up to the
\* increment that bwrite() does after the driver has returned.
AsyncCount ==
  basyncnt + Cardinality({p \in Proc : pc[p] = "bwrote" /\ call[p].op = "bawrite"})
    = Cardinality({b \in ToSet(queue) : Has(b, "ASYNC") /\ ~Has(b, "READ")})

\* Every sleep in the cache ends, if the users of the cache release the
\* buffers they hold and the device answers.
SleepEnds == \A p \in Proc : wchan[p] # None ~> wchan[p] = None
=============================================================================
