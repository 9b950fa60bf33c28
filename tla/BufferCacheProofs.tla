-------------------------- MODULE BufferCacheProofs --------------------------
(***************************************************************************)
(* The invariants of the buffer cache, for any number of processes,        *)
(* buffers and blocks.                                                     *)
(*                                                                         *)
(* None of them is inductive alone.  Where a buffer is, and what its flags *)
(* say, go together (BufOK), and so do the place a process has got to and  *)
(* the buffers it has (ProcOK): a buffer is released by the one who holds  *)
(* it, and is not at the device then.  Nobody sleeps on a buffer that has  *)
(* no block (SleepOK), which is why its flags may be set anew.  The last   *)
(* close has the cache to itself (CloseOK).                                *)
(*                                                                         *)
(* What a buffer and the disk hold (DataInv), for each block of which no   *)
(* stale buffer was handed out: a buffer that is not stale is the only one *)
(* of its block, and whoever has a buffer of it has that one; those that   *)
(* are stale, and still on their way to the disk, stand before it in the   *)
(* queue and have older data.                                              *)
(***************************************************************************)
EXTENDS BufferCache, FiniteSetTheorems, SequenceTheorems, TLAPS

Ops == {"none", "bread", "getblk", "ngeteblk", "breada", "ahead", "bflush", "blkflush",
        "bdwait", "close", "bwrite", "bawrite"}
Locs == {"user", "getblk", "found", "getfree", "got", "ahead", "biowait", "hold", "bwrote",
         "bflush", "blkflush", "bdwait", "delay"}
Data == Block \X Nat

TypeInv ==
  /\ b_flags \in [Buf -> SUBSET Flag]
  /\ b_blkno \in [Buf -> Block \cup {None}]
  /\ b_addr \in [Buf -> Data \cup {None}]
  /\ avail \in Seq(Buf) /\ flwanted \in BOOLEAN /\ bhdrlist \in SUBSET Buf
  /\ basyncnt \in Int
  /\ queue \in Seq(Buf) /\ disk \in [Block -> Data \cup {None}] /\ errs \in Nat
  /\ cpu \in Proc \cup {None}
  /\ pc \in [Proc -> Locs]
  /\ call \in [Proc -> [op : Ops, blk : Block \cup {None}, ra : Block \cup {None}]]
  /\ bp \in [Proc -> Buf \cup {None}]
  /\ nbp \in [Proc -> Buf \cup {None}]
  /\ hit \in [Proc -> Buf \cup {None}]
  /\ wchan \in [Proc -> Buf \cup {FreeList, None}]
  /\ latest \in [Block -> Nat] /\ lost \in SUBSET Block /\ astray \in SUBSET Block

Distinct(s) == \A i, j \in DOMAIN s : s[i] = s[j] => i = j

Free(b) == b \in ToSet(avail)
AtDevice(b) == b \in ToSet(queue)

(* The buffer p has, or that getblk() works on for it; an asynchronous     *)
(* write is nobody's as soon as it has started.                            *)
Holds(p, b) == nbp[p] = b \/ (bp[p] = b /\ ~(pc[p] = "bwrote" /\ call[p].op = "bawrite"))

(* Where a buffer is, and what its flags say.                              *)
BufOK(b) ==
  /\ Free(b) => ~Has(b, "BUSY") /\ b \notin bhdrlist
  /\ b \in bhdrlist => ~Has(b, "BUSY") /\ b_blkno[b] = None
  /\ ~Has(b, "BUSY") => Free(b) \/ b \in bhdrlist
  /\ Has(b, "BUSY") => Has(b, "ASYNC") \/ \E p \in Proc : Holds(p, b)
  /\ \A p \in Proc : Holds(p, b) => Has(b, "BUSY") /\ ~Has(b, "ASYNC")
  /\ \A p, q \in Proc : Holds(p, b) /\ Holds(q, b) => p = q
  /\ Has(b, "ASYNC") => AtDevice(b)
  /\ AtDevice(b) => /\ Has(b, "BUSY") /\ ~Has(b, "DONE") /\ ~Has(b, "DELWRI") /\ ~Has(b, "ERROR")
                    /\ b_blkno[b] # None
  /\ Has(b, "ERROR") => Has(b, "DONE")
  /\ Has(b, "DELWRI") => Has(b, "DONE") /\ ~Has(b, "ERROR") /\ b_blkno[b] # None

(* The block of a buffer that is in use, and not given up.                 *)
InUse(b) == b_blkno[b] # None /\ ~Has(b, "STALE")

None2(p) == bp[p] = None /\ nbp[p] = None

Getblk == {"bread", "getblk", "breada", "ahead"}

(* Where a process is, what it has, and for what.                          *)
ProcOK(p) ==
  LET op == call[p].op IN
  /\ pc[p] = "user" => None2(p)
  /\ pc[p] \in {"getblk", "found"} => op \in Getblk
  /\ pc[p] = "found" => cpu = p /\ hit[p] \in Buf /\ b_blkno[hit[p]] = call[p].blk
  /\ pc[p] = "getfree" => op \in Getblk \cup {"ngeteblk"} /\ nbp[p] = None
  /\ pc[p] = "got" => op \in Getblk /\ nbp[p] # None
  /\ pc[p] \in {"getblk", "found", "getfree", "got"} /\ op # "ahead" => bp[p] = None
  /\ pc[p] \in {"getblk", "found", "got"} \/ (pc[p] = "getfree" /\ op # "ngeteblk")
       => call[p].blk # None
  /\ pc[p] = "ahead" => op = "breada" /\ nbp[p] = None /\ call[p].blk # None /\ call[p].ra # None
  /\ op \in {"breada", "ahead"} => call[p].ra # None
  /\ op = "blkflush" => call[p].blk # None
  /\ pc[p] = "biowait" => op \in {"bread", "bwrite", "blkflush"} /\ bp[p] # None /\ nbp[p] = None
  /\ pc[p] = "hold" => /\ op \in {"none", "ngeteblk"}
                       /\ bp[p] # None /\ nbp[p] = None /\ ~AtDevice(bp[p])
  /\ pc[p] = "bwrote" => op \in {"bwrite", "bawrite", "blkflush"} /\ bp[p] # None /\ nbp[p] = None
  /\ pc[p] = "bflush" => op \in {"bflush", "close"} /\ None2(p)
  /\ pc[p] = "blkflush" => op = "blkflush" /\ None2(p)
  /\ pc[p] \in {"bdwait", "delay"} => None2(p)
  /\ nbp[p] # None => /\ nbp[p] # bp[p] /\ ~AtDevice(nbp[p])
                      /\ pc[p] \in {"getblk", "found", "got"}
                      /\ b_blkno[nbp[p]] = None <=> pc[p] # "got"
  /\ bp[p] # None /\ ~(pc[p] = "hold" /\ op = "ngeteblk") /\ ~(pc[p] = "bwrote" /\ op = "bawrite")
       => b_blkno[bp[p]] # None

(* Those who sleep can be awakened.                                        *)
SleepOK(p) ==
  /\ wchan[p] \in Buf => /\ Has(wchan[p], "BUSY") /\ Has(wchan[p], "WANTED")
                         /\ b_blkno[wchan[p]] # None
  /\ wchan[p] = FreeList => flwanted /\ avail = <<>>

(* The last close has the cache to itself.                                 *)
CloseOK ==
  \A p \in Proc : pc[p] = "bflush" /\ call[p].op = "close" =>
    cpu = p /\ \A q \in Proc \ {p} : pc[q] = "user"

(* One buffer at most is in use for a block.                               *)
HashOK == \A b, c \in Buf : b_blkno[b] = b_blkno[c] /\ InUse(b) /\ InUse(c) => b = c

PlaceInv ==
  /\ TypeInv
  /\ Distinct(avail) /\ Distinct(queue)
  /\ \A b \in Buf : BufOK(b)
  /\ \A p \in Proc : ProcOK(p)
  /\ CloseOK
  /\ HashOK

WakeInv == \A p \in Proc : SleepOK(p)

-----------------------------------------------------------------------------
(* What the buffers and the disk hold.                                     *)
Current(k) == <<k, latest[k]>>
Writing(b) == AtDevice(b) /\ ~Has(b, "READ")
Before(s, b, c) == \E i, j \in DOMAIN s : i < j /\ s[i] = b /\ s[j] = c

(* Somebody has it, who may write it.                                      *)
Kept(b) == Has(b, "BUSY") /\ ~Has(b, "ASYNC")

(* Data that is delayed, valid, or on its way to the disk.                 *)
ContentOK(b) ==
  /\ Kept(b) \/ Has(b, "DELWRI") => ~Has(b, "STALE")
  /\ Has(b, "DELWRI") => b_blkno[b] \notin lost /\ b_addr[b] = Current(b_blkno[b])
  /\ InUse(b) /\ Has(b, "DONE") /\ ~Has(b, "ERROR") /\ b_blkno[b] \notin lost
       => b_addr[b] = Current(b_blkno[b])
  /\ Writing(b) =>
       /\ b_addr[b] \in Data /\ b_addr[b] = <<b_blkno[b], b_addr[b][2]>>
       /\ disk[b_blkno[b]][2] <= b_addr[b][2] /\ b_addr[b][2] <= latest[b_blkno[b]]
       /\ ~Has(b, "STALE") => b_addr[b] = Current(b_blkno[b]) /\ b_blkno[b] \notin lost

(* The requests for one block.                                             *)
Ordered(b, c) ==
  /\ Before(queue, b, c) =>
       Has(b, "STALE") /\ (Writing(b) /\ Writing(c) => b_addr[b][2] < b_addr[c][2])
  /\ Writing(b) /\ Has(c, "DELWRI") => b_addr[b][2] < b_addr[c][2]

DiskOK(k) ==
  /\ disk[k] \in Data /\ disk[k] = <<k, disk[k][2]>> /\ disk[k][2] <= latest[k]
  /\ k \notin lost =>
       \/ disk[k] = Current(k)
       \/ \E b \in Buf : /\ b_blkno[b] = k /\ b_addr[b] = Current(k)
                         /\ Has(b, "DELWRI") \/ Writing(b)

(* A block of which no stale buffer was handed out.                        *)
BlockInv(k) ==
  /\ \A b \in Buf : b_blkno[b] = k => ContentOK(b)
  /\ \A b, c \in Buf : b_blkno[b] = k /\ b_blkno[c] = k => Ordered(b, c)
  /\ DiskOK(k)

DataInv == \A k \in Block \ astray : BlockInv(k)

-----------------------------------------------------------------------------
(* Lists of buffers.                                                       *)

(* The members of a list.                                                  *)
LEMMA Members ==
  ASSUME NEW S, NEW s \in Seq(S)
  PROVE  \A x : x \in ToSet(s) <=> \E i \in 1 .. Len(s) : s[i] = x
BY DEF ToSet

(* A buffer put at the end.                                                *)
LEMMA AppendList ==
  ASSUME NEW s \in Seq(Buf), Distinct(s), NEW b \in Buf, b \notin ToSet(s)
  PROVE  /\ Append(s, b) \in Seq(Buf) /\ Distinct(Append(s, b))
         /\ ToSet(Append(s, b)) = ToSet(s) \cup {b}
         /\ \A x, y : Before(Append(s, b), x, y) => Before(s, x, y) \/ (y = b /\ x \in ToSet(s))
<1> DEFINE t == Append(s, b)
<1>1. /\ t \in Seq(Buf) /\ Len(t) = Len(s) + 1 /\ Len(s) \in Nat
      /\ \A i \in 1 .. Len(s) : t[i] = s[i]
      /\ t[Len(s) + 1] = b
      /\ DOMAIN t = 1 .. Len(s) + 1 /\ DOMAIN s = 1 .. Len(s)
  OBVIOUS
<1> HIDE DEF t
<1>2. \A i \in 1 .. Len(s) : s[i] # b
  BY Members
<1>3. Distinct(t)
  BY <1>1, <1>2 DEF Distinct
<1>4. \A x : x \in ToSet(t) <=> x \in ToSet(s) \/ x = b
  <2>1. \A x : x \in ToSet(t) <=> \E i \in 1 .. Len(s) + 1 : t[i] = x
    BY <1>1, Members
  <2> QED
    BY <1>1, <2>1, Members
<1>5. ASSUME NEW x, NEW y, Before(t, x, y)
      PROVE  Before(s, x, y) \/ (y = b /\ x \in ToSet(s))
  <2>1. PICK i \in 1 .. Len(s) + 1, j \in 1 .. Len(s) + 1 : i < j /\ t[i] = x /\ t[j] = y
    BY <1>1, <1>5 DEF Before
  <2>2. i \in 1 .. Len(s) /\ s[i] = x
    BY <1>1, <2>1
  <2>3. CASE j = Len(s) + 1
    BY <1>1, <2>1, <2>2, <2>3, Members
  <2>4. CASE j # Len(s) + 1
    BY <1>1, <2>1, <2>2, <2>4 DEF Before
  <2> QED
    BY <2>3, <2>4
<1> QED
  BY <1>1, <1>3, <1>4, <1>5 DEF t

(* A buffer put in front.                                                  *)
LEMMA ConsList ==
  ASSUME NEW s \in Seq(Buf), Distinct(s), NEW b \in Buf, b \notin ToSet(s)
  PROVE  /\ <<b>> \o s \in Seq(Buf) /\ Distinct(<<b>> \o s)
         /\ ToSet(<<b>> \o s) = ToSet(s) \cup {b}
<1> DEFINE t == <<b>> \o s
<1>1. /\ t \in Seq(Buf) /\ Len(t) = Len(s) + 1 /\ Len(s) \in Nat
      /\ \A i \in 1 .. Len(s) : t[i + 1] = s[i]
      /\ t[1] = b
      /\ DOMAIN t = 1 .. Len(s) + 1 /\ DOMAIN s = 1 .. Len(s)
  OBVIOUS
<1> HIDE DEF t
<1>2. \A i \in 2 .. Len(s) + 1 : i - 1 \in 1 .. Len(s) /\ t[i] = s[i - 1]
  BY <1>1
<1>3. \A i \in 1 .. Len(s) : s[i] # b
  BY Members
<1>4. Distinct(t)
  <2> SUFFICES ASSUME NEW i \in 1 .. Len(s) + 1, NEW j \in 1 .. Len(s) + 1, t[i] = t[j]
               PROVE  i = j
    BY <1>1 DEF Distinct
  <2>1. CASE i = 1 \/ j = 1
    BY <1>1, <1>2, <1>3, <2>1
  <2>2. CASE i # 1 /\ j # 1
    <3>1. i - 1 \in 1 .. Len(s) /\ j - 1 \in 1 .. Len(s) /\ s[i - 1] = s[j - 1]
      BY <1>1, <1>2, <2>2
    <3> QED
      BY <1>1, <3>1, SMTT(30) DEF Distinct
  <2> QED
    BY <2>1, <2>2
<1>5. \A x : x \in ToSet(t) <=> x \in ToSet(s) \/ x = b
  <2>1. \A x : x \in ToSet(t) <=> \E i \in 1 .. Len(s) + 1 : t[i] = x
    BY <1>1, Members
  <2>2. ASSUME NEW x, x \in ToSet(s) PROVE x \in ToSet(t)
    <3>1. PICK i \in 1 .. Len(s) : s[i] = x
      BY <2>2, Members
    <3>2. i + 1 \in 1 .. Len(s) + 1 /\ t[i + 1] = x
      BY <1>1, <3>1
    <3> QED
      BY <2>1, <3>2
  <2>3. ASSUME NEW x, x \in ToSet(t) PROVE x \in ToSet(s) \/ x = b
    <3>1. PICK i \in 1 .. Len(s) + 1 : t[i] = x
      BY <2>1, <2>3
    <3>2. i = 1 \/ (i - 1 \in 1 .. Len(s) /\ t[i] = s[i - 1])
      BY <1>1, <1>2
    <3> QED
      BY <1>1, <3>1, <3>2, Members
  <2>4. b \in ToSet(t)
    BY <1>1, <2>1
  <2> QED
    BY <2>2, <2>3, <2>4
<1> QED
  BY <1>1, <1>4, <1>5 DEF t

(* The list without the element at i.                                      *)
LEMMA RemovedAt ==
  ASSUME NEW S, NEW s \in Seq(S), NEW i \in 1 .. Len(s)
  PROVE  /\ RemoveAt(s, i) \in Seq(S) /\ Len(RemoveAt(s, i)) = Len(s) - 1
         /\ \A j \in 1 .. Len(s) - 1 : RemoveAt(s, i)[j] = IF j < i THEN s[j] ELSE s[j + 1]
<1> DEFINE a == SubSeq(s, 1, i - 1)
           c == SubSeq(s, i + 1, Len(s))
<1>1. /\ a \in Seq(S) /\ Len(a) = i - 1 /\ \A j \in 1 .. i - 1 : a[j] = s[j]
  <2>1. 1 - 1 <= i - 1 /\ i - 1 <= Len(s) /\ 1 >= 1
    OBVIOUS
  <2>2. \A j \in 1 .. i - 1 : s[j] \in S
    OBVIOUS
  <2> QED
    BY <2>1, <2>2, SubSeqProperties
<1>2. /\ c \in Seq(S) /\ Len(c) = Len(s) - i /\ \A j \in 1 .. Len(s) - i : c[j] = s[i + j]
  BY SubSeqProperties
<1> HIDE DEF a, c
<1>3. /\ a \o c \in Seq(S) /\ Len(a \o c) = Len(s) - 1
      /\ \A j \in 1 .. Len(s) - 1 : (a \o c)[j] = IF j <= i - 1 THEN a[j] ELSE c[j - (i - 1)]
  <2>1. a \o c \in Seq(S) /\ Len(a \o c) = Len(s) - 1
    <3>1. a \o c \in Seq(S) /\ Len(a \o c) = Len(a) + Len(c)
      BY <1>1, <1>2, ConcatProperties
    <3> QED
      BY <1>1, <1>2, <3>1
  <2>2. \A j \in 1 .. Len(a) + Len(c) : (a \o c)[j] = IF j <= Len(a) THEN a[j] ELSE c[j - Len(a)]
    BY <1>1, <1>2, ConcatProperties
  <2> QED
    BY <1>1, <1>2, <2>1, <2>2
<1>4. \A j \in 1 .. Len(s) - 1 : (a \o c)[j] = IF j < i THEN s[j] ELSE s[j + 1]
  <2> SUFFICES ASSUME NEW j \in 1 .. Len(s) - 1
               PROVE  (a \o c)[j] = IF j < i THEN s[j] ELSE s[j + 1]
    OBVIOUS
  <2>1. CASE j < i
    BY <1>1, <1>3, <2>1
  <2>2. CASE ~(j < i)
    <3>1. j - (i - 1) \in 1 .. Len(s) - i /\ i + (j - (i - 1)) = j + 1
      BY <2>2
    <3> QED
      BY <1>2, <1>3, <2>2, <3>1
  <2> QED
    BY <2>1, <2>2
<1> QED
  BY <1>3, <1>4 DEF RemoveAt, a, c

(* A list without a buffer that was on it.                                 *)
LEMMA UnlinkedList ==
  ASSUME NEW s \in Seq(Buf), Distinct(s), NEW b \in ToSet(s)
  PROVE  /\ Unlinked(s, b) \in Seq(Buf) /\ Distinct(Unlinked(s, b))
         /\ ToSet(Unlinked(s, b)) = ToSet(s) \ {b}
         /\ \A x, y : Before(Unlinked(s, b), x, y) => Before(s, x, y)
<1> DEFINE i == CHOOSE i \in DOMAIN s : s[i] = b
           t == RemoveAt(s, i)
           o(j) == IF j < i THEN j ELSE j + 1
<1>1. i \in 1 .. Len(s) /\ s[i] = b
  BY Members
<1> HIDE DEF i
<1>2. /\ t \in Seq(Buf) /\ Len(t) = Len(s) - 1
      /\ \A j \in 1 .. Len(s) - 1 : t[j] = IF j < i THEN s[j] ELSE s[j + 1]
  BY <1>1, RemovedAt
<1> HIDE DEF t
<1>3. /\ DOMAIN t = 1 .. Len(s) - 1 /\ DOMAIN s = 1 .. Len(s)
      /\ \A j \in 1 .. Len(s) - 1 : o(j) \in 1 .. Len(s) /\ o(j) # i /\ t[j] = s[o(j)]
      /\ \A j, k \in 1 .. Len(s) - 1 : j < k => o(j) < o(k)
  BY <1>1, <1>2
<1>4. \A k \in 1 .. Len(s) : k # i => \E j \in 1 .. Len(s) - 1 : o(j) = k
  <2> SUFFICES ASSUME NEW k \in 1 .. Len(s), k # i
               PROVE  \E j \in 1 .. Len(s) - 1 : o(j) = k
    OBVIOUS
  <2>1. CASE k < i
    BY <1>1, <2>1
  <2>2. CASE k > i
    <3>1. k - 1 \in 1 .. Len(s) - 1 /\ o(k - 1) = k
      BY <1>1, <2>2
    <3> QED
      BY <3>1
  <2> QED
    BY <1>1, <2>1, <2>2
<1> HIDE DEF o
<1>5. Distinct(t)
  <2> SUFFICES ASSUME NEW j \in 1 .. Len(s) - 1, NEW k \in 1 .. Len(s) - 1, t[j] = t[k], j < k
               PROVE  FALSE
    BY <1>3 DEF Distinct
  <2>1. o(j) = o(k) /\ o(j) < o(k) /\ o(j) \in 1 .. Len(s)
    BY <1>3 DEF Distinct
  <2> QED
    BY <2>1
<1>6. \A x : x \in ToSet(t) <=> x \in ToSet(s) /\ x # b
  <2>1. \A x : x \in ToSet(t) <=> \E j \in 1 .. Len(s) - 1 : t[j] = x
    BY <1>2, Members
  <2>2. ASSUME NEW x, x \in ToSet(t) PROVE x \in ToSet(s) /\ x # b
    <3>1. PICK j \in 1 .. Len(s) - 1 : t[j] = x
      BY <2>1, <2>2
    <3>2. o(j) \in 1 .. Len(s) /\ o(j) # i /\ s[o(j)] = x
      BY <1>3, <3>1
    <3> QED
      BY <1>1, <1>3, <3>2, Members DEF Distinct
  <2>3. ASSUME NEW x, x \in ToSet(s), x # b PROVE x \in ToSet(t)
    <3>1. PICK k \in 1 .. Len(s) : s[k] = x
      BY <2>3, Members
    <3>2. PICK j \in 1 .. Len(s) - 1 : o(j) = k
      BY <1>1, <1>4, <2>3, <3>1
    <3> QED
      BY <1>3, <2>1, <3>1, <3>2
  <2> QED
    BY <2>2, <2>3
<1>7. ASSUME NEW x, NEW y, Before(t, x, y) PROVE Before(s, x, y)
  <2>1. PICK j \in 1 .. Len(s) - 1, k \in 1 .. Len(s) - 1 : j < k /\ t[j] = x /\ t[k] = y
    BY <1>3, <1>7 DEF Before
  <2>2. /\ o(j) \in 1 .. Len(s) /\ o(k) \in 1 .. Len(s) /\ o(j) < o(k)
        /\ s[o(j)] = x /\ s[o(k)] = y
    BY <1>3, <2>1
  <2> QED
    BY <1>3, <2>2 DEF Before
<1> QED
  BY <1>2, <1>5, <1>6, <1>7 DEF Unlinked, t, i

(* The head of a list, and the rest.                                       *)
LEMMA TailList ==
  ASSUME NEW s \in Seq(Buf), Distinct(s), s # <<>>
  PROVE  /\ Head(s) \in Buf /\ Head(s) \in ToSet(s)
         /\ Tail(s) \in Seq(Buf) /\ Distinct(Tail(s))
         /\ ToSet(Tail(s)) = ToSet(s) \ {Head(s)}
<1>1. /\ Len(s) \in Nat /\ Len(s) # 0 /\ Head(s) = s[1] /\ Head(s) \in Buf
      /\ Tail(s) \in Seq(Buf) /\ Len(Tail(s)) = Len(s) - 1
      /\ \A i \in 1 .. Len(s) - 1 : Tail(s)[i] = s[i + 1]
  OBVIOUS
<1>2. Head(s) \in ToSet(s)
  BY <1>1, Members
<1> DEFINE t == Tail(s)
<1> HIDE DEF t
<1>3. /\ t \in Seq(Buf) /\ Len(t) = Len(s) - 1
      /\ DOMAIN t = 1 .. Len(s) - 1 /\ DOMAIN s = 1 .. Len(s)
  BY <1>1 DEF t
<1>4. \A i \in 1 .. Len(s) - 1 : t[i] = s[i + 1]
  BY <1>1 DEF t
<1>5. Distinct(t)
  <2> SUFFICES ASSUME NEW i \in 1 .. Len(s) - 1, NEW j \in 1 .. Len(s) - 1, t[i] = t[j]
               PROVE  i = j
    BY <1>3 DEF Distinct
  <2>1. i + 1 \in 1 .. Len(s) /\ j + 1 \in 1 .. Len(s) /\ s[i + 1] = s[j + 1]
    BY <1>1, <1>4
  <2> QED
    BY <1>3, <2>1 DEF Distinct
<1>6. \A x : x \in ToSet(t) <=> x \in ToSet(s) /\ x # s[1]
  <2>1. \A x : x \in ToSet(t) <=> \E j \in 1 .. Len(s) - 1 : t[j] = x
    BY <1>3, Members
  <2>2. ASSUME NEW x, x \in ToSet(t) PROVE x \in ToSet(s) /\ x # s[1]
    <3>1. PICK j \in 1 .. Len(s) - 1 : t[j] = x
      BY <2>1, <2>2
    <3>2. j + 1 \in 1 .. Len(s) /\ s[j + 1] = x /\ 1 \in 1 .. Len(s) /\ j + 1 # 1
      BY <1>1, <1>4, <3>1
    <3> QED
      BY <1>3, <3>2, Members DEF Distinct
  <2>3. ASSUME NEW x, x \in ToSet(s), x # s[1] PROVE x \in ToSet(t)
    <3>1. PICK k \in 1 .. Len(s) : s[k] = x
      BY <2>3, Members
    <3>2. k - 1 \in 1 .. Len(s) - 1 /\ t[k - 1] = x
      BY <1>1, <1>4, <2>3, <3>1
    <3> QED
      BY <2>1, <3>2
  <2> QED
    BY <2>2, <2>3
<1> QED
  BY <1>1, <1>2, <1>5, <1>6 DEF t

-----------------------------------------------------------------------------
(* Where the buffers are.                                                  *)

Others(p) == \A q \in Proc \ {p} :
  pc'[q] = pc[q] /\ call'[q] = call[q] /\ bp'[q] = bp[q] /\ nbp'[q] = nbp[q]

(* A buffer that is where it was, with the same flags as far as they tell. *)
Telling == Flag \ {"WANTED", "AGE"}
Stays(b) ==
  /\ \A f \in Telling : Has(b, f)' <=> Has(b, f)
  /\ b_blkno'[b] = b_blkno[b]
  /\ Free(b)' <=> Free(b)
  /\ AtDevice(b)' <=> AtDevice(b)
  /\ b \in bhdrlist' <=> b \in bhdrlist

(* p, which may run, may begin the last close if the others are outside.   *)
Closes(p) ==
  /\ cpu \in {None, p}
  /\ pc'[p] = "bflush" /\ call'[p].op = "close" =>
       cpu' = p /\ \A q \in Proc \ {p} : pc[q] = "user"

(* A step of p moves the buffers in X, which the others do not hold.       *)
LEMMA Frame ==
  ASSUME PlaceInv, TypeInv', Distinct(avail)', Distinct(queue)',
         NEW p \in Proc, NEW X \in SUBSET Buf, Others(p), Closes(p),
         \A b \in X : \A q \in Proc \ {p} : ~Holds(q, b),
         \A b \in Buf \ X : Stays(b) /\ (Holds(p, b)' <=> Holds(p, b)),
         \A b \in X : BufOK(b)', ProcOK(p)', HashOK'
  PROVE  PlaceInv'
<1> USE BufAssumption
<1>1. \A q \in Proc \ {p}, b \in Buf : Holds(q, b)' <=> Holds(q, b)
  BY DEF Others, Holds
<1>2. ASSUME NEW b \in Buf \ X PROVE BufOK(b)'
  <2>1. \A q \in Proc : Holds(q, b)' <=> Holds(q, b)
    BY <1>1
  <2>2. /\ \A f \in Telling : Has(b, f)' <=> Has(b, f)
        /\ b_blkno'[b] = b_blkno[b]
        /\ Free(b)' <=> Free(b)
        /\ AtDevice(b)' <=> AtDevice(b)
        /\ b \in bhdrlist' <=> b \in bhdrlist
    BY DEF Stays
  <2>3. {"BUSY", "ASYNC", "DONE", "DELWRI", "ERROR"} \subseteq Telling
    BY DEF Telling, Flag
  <2>4. BufOK(b)
    BY DEF PlaceInv
  <2> HIDE DEF Has, Free, AtDevice, Holds
  <2> QED
    BY <2>1, <2>2, <2>3, <2>4 DEF BufOK
<1>3. ASSUME NEW q \in Proc \ {p} PROVE ProcOK(q)'
  <2>1. ProcOK(q) /\ pc'[q] = pc[q] /\ call'[q] = call[q] /\ bp'[q] = bp[q] /\ nbp'[q] = nbp[q]
    BY DEF PlaceInv, Others
  <2>2. ASSUME NEW b \in Buf, Holds(q, b)
        PROVE  (AtDevice(b)' <=> AtDevice(b)) /\ b_blkno'[b] = b_blkno[b]
    BY <2>2 DEF Stays
  <2>3. bp[q] \in Buf \cup {None} /\ nbp[q] \in Buf \cup {None} /\ None \notin Buf
    BY DEF PlaceInv, TypeInv
  <2>4. /\ nbp[q] # None => Holds(q, nbp[q])
        /\ bp[q] # None /\ ~(pc[q] = "bwrote" /\ call[q].op = "bawrite") => Holds(q, bp[q])
    BY DEF Holds
  <2>5. nbp[q] # None => /\ AtDevice(nbp[q])' <=> AtDevice(nbp[q])
                         /\ b_blkno'[nbp[q]] = b_blkno[nbp[q]]
    BY <2>1, <2>2, <2>3, <2>4 DEF AtDevice
  <2>6. bp[q] # None /\ ~(pc[q] = "bwrote" /\ call[q].op = "bawrite") =>
          (AtDevice(bp[q])' <=> AtDevice(bp[q])) /\ b_blkno'[bp[q]] = b_blkno[bp[q]]
    BY <2>1, <2>2, <2>3, <2>4 DEF AtDevice
  <2>7. pc[q] # "found"
    BY <2>1 DEF Closes, ProcOK
  <2> QED
    BY <2>1, <2>5, <2>6, <2>7 DEF ProcOK, None2
<1>4. CloseOK'
  <2>1. CloseOK
    BY DEF PlaceInv
  <2> QED
    BY <2>1 DEF CloseOK, Closes, Others
<1> QED
  BY <1>2, <1>3, <1>4 DEF PlaceInv

(* No buffer is put to use for another block.                              *)
LEMMA HashKept ==
  ASSUME PlaceInv, \A b \in Buf : InUse(b)' => InUse(b) /\ b_blkno'[b] = b_blkno[b]
  PROVE  HashOK'
BY DEF PlaceInv, HashOK

(* A step of p that moves no buffer.                                       *)
LEMMA QuietKeeps ==
  ASSUME PlaceInv, TypeInv', NEW p \in Proc, Others(p), Closes(p),
         UNCHANGED <<avail, queue>>,
         \A b \in Buf : Stays(b) /\ (Holds(p, b)' <=> Holds(p, b)), ProcOK(p)'
  PROVE  PlaceInv'
<1>1. Distinct(avail)' /\ Distinct(queue)'
  BY DEF PlaceInv, Distinct
<1>2. \A b \in Buf : InUse(b)' => InUse(b) /\ b_blkno'[b] = b_blkno[b]
  BY DEF Stays, Telling, Flag, InUse
<1>3. HashOK'
  BY <1>2, HashKept
<1> QED
  BY <1>1, <1>3, Frame, {} \in SUBSET Buf

(* A call from outside: the process has no buffer.                         *)
LEMMA CallKeeps ==
  ASSUME PlaceInv, NEW p \in Proc, NEW o, NEW k \in Block \cup {None},
         NEW r \in Block \cup {None}, NEW l, Call(p, o, k, r, l),
         \/ o \in {"bread", "getblk"} /\ l = "getblk" /\ k # None
         \/ o = "ngeteblk" /\ l = "getfree"
         \/ o = "breada" /\ l \in {"getblk", "ahead"} /\ k # None /\ r # None
         \/ o = "bflush" /\ l = "bflush"
         \/ o = "blkflush" /\ l = "blkflush" /\ k # None
         \/ o = "bdwait" /\ l = "bdwait"
         \/ o = "close" /\ l = "bflush" /\ \A q \in Proc : pc[q] = "user"
  PROVE  PlaceInv'
<1>1. /\ pc[p] = "user" /\ cpu \in {None, p} /\ bp[p] = None /\ nbp[p] = None
      /\ pc' = [pc EXCEPT ![p] = l] /\ cpu' = p
      /\ call' = [call EXCEPT ![p] = [op |-> o, blk |-> k, ra |-> r]]
      /\ UNCHANGED <<b_flags, b_blkno, avail, bhdrlist, queue, bp, nbp>>
  BY DEF Call, At, Goto, bufs, lists, dev, PlaceInv, ProcOK, None2
<1>2. TypeInv
  BY DEF PlaceInv
<1>3. TypeInv'
  BY <1>1, <1>2 DEF TypeInv, Ops, Locs, Call, bufs, lists, dev, hist
<1>4. pc'[p] = l /\ call'[p] = [op |-> o, blk |-> k, ra |-> r] /\ Others(p)
  BY <1>1, <1>2 DEF TypeInv, Others
<1>5. Closes(p)
  BY <1>1, <1>4 DEF Closes
<1>6. ProcOK(p)'
  BY <1>1, <1>4 DEF ProcOK, None2, Getblk
<1>7. \A b \in Buf : Stays(b) /\ (Holds(p, b)' <=> Holds(p, b))
  BY <1>1, <1>4, BufAssumption DEF Stays, Holds, Has, Free, AtDevice
<1> QED
  BY <1>1, <1>3, <1>4, <1>5, <1>6, <1>7, QuietKeeps

(* The operations of the cache begin.                                      *)
LEMMA RequestKeeps ==
  ASSUME PlaceInv, NEW p \in Proc, Request(p)
  PROVE  PlaceInv'
<1> USE BufAssumption
<1>1. ASSUME NEW k \in Block, bread(p, k) \/ getblk(p, k) \/ blkflush(p, k)
      PROVE  PlaceInv'
  BY <1>1, CallKeeps DEF bread, getblk, blkflush
<1>2. ASSUME NEW k \in Block, NEW r \in Block, breada(p, k, r)
      PROVE  PlaceInv'
  <2>1. k \in Block \cup {None} /\ r \in Block \cup {None} /\ k # None /\ r # None
    OBVIOUS
  <2>2. CASE incore(k)
    BY <1>2, <2>1, <2>2, CallKeeps DEF breada
  <2>3. CASE ~incore(k)
    BY <1>2, <2>1, <2>3, CallKeeps DEF breada
  <2> QED
    BY <2>2, <2>3
<1>3. CASE ngeteblk(p) \/ bflush(p) \/ bdwait(p)
  BY <1>3, CallKeeps DEF ngeteblk, bflush, bdwait
<1>4. CASE close(p)
  BY <1>4, CallKeeps DEF close
<1> QED
  BY <1>1, <1>2, <1>3, <1>4 DEF Request

(* p goes on, with the buffers it had.                                     *)
LEMMA MoveKeeps ==
  ASSUME PlaceInv, TypeInv', NEW p \in Proc, Others(p), cpu \in {None, p}, pc'[p] # "bflush",
         UNCHANGED <<b_flags, b_blkno, avail, bhdrlist, queue>>,
         \A b \in Buf : Holds(p, b)' <=> Holds(p, b), ProcOK(p)'
  PROVE  PlaceInv'
<1>1. \A b \in Buf : Stays(b)
  BY DEF Stays, Has, Free, AtDevice
<1>2. Closes(p)
  BY DEF Closes
<1> QED
  BY <1>1, <1>2, QuietKeeps

(* p returns, and has no buffer.                                           *)
LEMMA ReturnKeeps ==
  ASSUME PlaceInv, NEW p \in Proc,
         BwriteAsync(p) \/ BflushReturn(p) \/ BlkflushReturn(p) \/ BdwaitReturn(p)
  PROVE  PlaceInv'
<1> USE BufAssumption
<1>1. /\ cpu \in {None, p} /\ nbp[p] = None
      /\ bp[p] = None \/ (pc[p] = "bwrote" /\ call[p].op = "bawrite")
      /\ pc' = [pc EXCEPT ![p] = "user"] /\ cpu' = None
      /\ call' = [call EXCEPT ![p] = NoCall]
      /\ bp' = bp \/ bp' = [bp EXCEPT ![p] = None]
      /\ basyncnt' = basyncnt \/ basyncnt' = basyncnt + 1
      /\ UNCHANGED <<bufs, lists, dev, nbp, wchan, hit, hist>>
  BY DEF BwriteAsync, BflushReturn, BlkflushReturn, BdwaitReturn, At, Return, Leave,
         PlaceInv, ProcOK, None2
<1>2. TypeInv
  BY DEF PlaceInv
<1>3. pc'[p] = "user" /\ call'[p] = NoCall /\ bp'[p] = None /\ nbp'[p] = None /\ Others(p)
  <2>1. bp'[p] = None
    BY <1>1, <1>2 DEF TypeInv, BwriteAsync, BflushReturn, BlkflushReturn, BdwaitReturn,
                      At, PlaceInv, ProcOK, None2
  <2> QED
    BY <1>1, <1>2, <2>1 DEF TypeInv, Others
<1>4. TypeInv'
  <2>1. /\ bp' \in [Proc -> Buf \cup {None}] /\ basyncnt' \in Int
        /\ call' \in [Proc -> [op : Ops, blk : Block \cup {None}, ra : Block \cup {None}]]
    <3>1. NoCall \in [op : Ops, blk : Block \cup {None}, ra : Block \cup {None}]
      BY DEF NoCall, Ops
    <3>2. call' \in [Proc -> [op : Ops, blk : Block \cup {None}, ra : Block \cup {None}]]
      BY <1>1, <1>2, <3>1 DEF TypeInv
    <3>3. bp' = bp \/ bp' = [bp EXCEPT ![p] = None]
      BY <1>1
    <3>4. bp' \in [Proc -> Buf \cup {None}]
      BY <1>2, <3>3 DEF TypeInv
    <3>5. basyncnt' = basyncnt \/ basyncnt' = basyncnt + 1
      BY <1>1
    <3>6. basyncnt' \in Int
      BY <1>2, <3>5 DEF TypeInv
    <3> QED
      BY <3>2, <3>4, <3>6
  <2> QED
    BY <1>1, <1>2, <2>1 DEF TypeInv, Locs, bufs, lists, dev, hist
<1>5. ProcOK(p)'
  BY <1>3 DEF ProcOK, None2, NoCall
<1>6. \A b \in Buf : Holds(p, b)' <=> Holds(p, b)
  BY <1>1, <1>3 DEF Holds
<1> QED
  BY <1>1, <1>3, <1>4, <1>5, <1>6, MoveKeeps DEF bufs, lists, dev

(* p goes on to another place in the same call.                            *)
LEMMA GoKeeps ==
  ASSUME PlaceInv, NEW p \in Proc,
         GetblkMiss(p) \/ BwriteSync(p) \/ BdwaitDelay(p) \/ GetfreeSleep(p)
  PROVE  PlaceInv'
<1> USE BufAssumption
<1>1. TypeInv /\ ProcOK(p) /\ \A b \in Buf : BufOK(b)
  BY DEF PlaceInv
<1>2. /\ cpu \in {None, p} /\ cpu' \in {None, p}
      /\ UNCHANGED <<bufs, avail, bhdrlist, basyncnt, dev, call, bp, nbp, hit, hist>>
      /\ flwanted' \in BOOLEAN /\ wchan' \in [Proc -> Buf \cup {FreeList, None}]
      /\ \E l \in {"getfree", "biowait", "delay", "getblk"} : pc' = [pc EXCEPT ![p] = l]
  BY <1>1 DEF GetblkMiss, BwriteSync, BdwaitDelay, GetfreeSleep, At, Goto, Leave,
              Sleep, TypeInv, lists
<1>3. TypeInv'
  BY <1>1, <1>2 DEF TypeInv, Locs, bufs, dev, hist
<1>4. Others(p)
  BY <1>1, <1>2 DEF Others, TypeInv
<1>5. ProcOK(p)'
  <2>1. UNCHANGED <<b_flags, b_blkno, queue, call, bp, nbp>>
    BY <1>2 DEF bufs, dev
  <2>2. CASE GetblkMiss(p)
    <3>1. pc[p] = "getblk" /\ pc'[p] = "getfree" /\ nbp[p] = None
      BY <1>1, <2>2 DEF GetblkMiss, At, Goto, TypeInv
    <3> QED
      BY <1>1, <2>1, <3>1 DEF ProcOK, None2, Getblk, AtDevice
  <2>3. CASE BwriteSync(p)
    <3>1. pc[p] = "bwrote" /\ pc'[p] = "biowait" /\ call[p].op \in {"bwrite", "blkflush"}
      BY <1>1, <2>3 DEF BwriteSync, At, Goto, TypeInv
    <3> QED
      BY <1>1, <2>1, <3>1 DEF ProcOK, None2, Getblk, AtDevice
  <2>4. CASE BdwaitDelay(p)
    <3>1. pc[p] = "bdwait" /\ pc'[p] = "delay"
      BY <1>1, <2>4 DEF BdwaitDelay, At, Leave, TypeInv
    <3> QED
      BY <1>1, <2>1, <3>1 DEF ProcOK, None2, Getblk, AtDevice
  <2>5. CASE GetfreeSleep(p)
    <3>1. /\ pc[p] = "getfree"
          /\ pc'[p] = IF call[p].op = "ngeteblk" THEN "getfree" ELSE "getblk"
      BY <1>1, <2>5 DEF GetfreeSleep, At, Leave, Sleep, TypeInv
    <3> QED
      BY <1>1, <2>1, <3>1 DEF ProcOK, None2, Getblk, AtDevice
  <2> QED
    BY <2>2, <2>3, <2>4, <2>5
<1>6. \A b \in Buf : Holds(p, b)' <=> Holds(p, b)
  BY <1>1, <1>2 DEF Holds, TypeInv, GetblkMiss, BwriteSync, BdwaitDelay, GetfreeSleep, At
<1> QED
  BY <1>1, <1>2, <1>3, <1>4, <1>5, <1>6, MoveKeeps DEF bufs, dev, TypeInv

(* bread() has waited for its read, and returns the buffer.                *)
LEMMA BiowaitReadKeeps ==
  ASSUME PlaceInv, NEW p \in Proc, BiowaitRead(p)
  PROVE  PlaceInv'
<1> USE BufAssumption
<1>1. TypeInv /\ ProcOK(p) /\ \A b \in Buf : BufOK(b)
  BY DEF PlaceInv
<1>2. /\ pc[p] = "biowait" /\ cpu \in {None, p} /\ cpu' = None /\ Has(bp[p], "DONE")
      /\ UNCHANGED <<bufs, lists, basyncnt, dev, bp, nbp, wchan, hit, hist>>
      /\ pc' = [pc EXCEPT ![p] = "hold"] /\ call' = [call EXCEPT ![p] = NoCall]
  BY DEF BiowaitRead, At, Leave
<1>3. TypeInv'
  <2>1. NoCall \in [op : Ops, blk : Block \cup {None}, ra : Block \cup {None}]
    BY DEF NoCall, Ops
  <2>2. call' \in [Proc -> [op : Ops, blk : Block \cup {None}, ra : Block \cup {None}]]
    BY <1>1, <1>2, <2>1 DEF TypeInv
  <2> QED
    BY <1>1, <1>2, <2>2 DEF TypeInv, Locs, bufs, lists, dev, hist
<1>4. Others(p) /\ pc'[p] = "hold" /\ call'[p] = NoCall /\ bp'[p] = bp[p] /\ nbp'[p] = nbp[p]
  BY <1>1, <1>2 DEF Others, TypeInv
<1>5. bp[p] \in Buf /\ nbp[p] = None /\ b_blkno[bp[p]] # None /\ ~AtDevice(bp[p])
  <2>1. bp[p] \in Buf /\ nbp[p] = None /\ b_blkno[bp[p]] # None
    BY <1>1, <1>2 DEF ProcOK, TypeInv
  <2> QED
    BY <1>1, <1>2, <2>1 DEF BufOK
<1>6. ProcOK(p)'
  <2>1. (b_blkno[bp[p]])' # None /\ ~AtDevice(bp[p])'
    BY <1>2, <1>4, <1>5 DEF AtDevice, bufs, dev
  <2> QED
    BY <1>4, <1>5, <2>1 DEF ProcOK, NoCall
<1>7. \A b \in Buf : Holds(p, b)' <=> Holds(p, b)
  BY <1>2, <1>4 DEF Holds
<1> QED
  BY <1>2, <1>3, <1>4, <1>6, <1>7, MoveKeeps DEF bufs, lists, dev

(* getblk() has found a buffer of its block, at spl0.                      *)
LEMMA GetblkFindKeeps ==
  ASSUME PlaceInv, NEW p \in Proc, GetblkFind(p)
  PROVE  PlaceInv'
<1> USE BufAssumption
<1>1. TypeInv /\ ProcOK(p)
  BY DEF PlaceInv
<1>2. PICK b \in Hashed(call[p].blk) : hit' = [hit EXCEPT ![p] = b]
  BY DEF GetblkFind
<1>3. /\ pc[p] = "getblk" /\ cpu \in {None, p} /\ cpu' = p
      /\ UNCHANGED <<bufs, lists, basyncnt, dev, call, bp, nbp, wchan, hist>>
      /\ pc' = [pc EXCEPT ![p] = "found"]
  BY DEF GetblkFind, At, Goto
<1>4. b \in Buf /\ b_blkno[b] = call[p].blk
  BY DEF Hashed
<1>5. TypeInv'
  BY <1>1, <1>2, <1>3, <1>4 DEF TypeInv, Locs, bufs, lists, dev, hist
<1>6. /\ Others(p) /\ pc'[p] = "found" /\ call'[p] = call[p] /\ bp'[p] = bp[p] /\ nbp'[p] = nbp[p]
      /\ hit'[p] = b
  BY <1>1, <1>2, <1>3 DEF Others, TypeInv
<1>7. ProcOK(p)'
  <2>1. UNCHANGED <<b_blkno, queue>>
    BY <1>3 DEF bufs, dev
  <2> QED
    BY <1>1, <1>3, <1>4, <1>6, <2>1 DEF ProcOK, AtDevice, Getblk
<1>8. \A c \in Buf : Holds(p, c)' <=> Holds(p, c)
  BY <1>3, <1>6 DEF Holds
<1> QED
  BY <1>3, <1>5, <1>6, <1>7, <1>8, MoveKeeps DEF bufs, lists, dev

(* getblk() has returned a buffer that need not be read.                   *)
LEMMA GotKeeps ==
  ASSUME PlaceInv, NEW p \in Proc, GotReady(p) \/ GotAhead(p)
  PROVE  PlaceInv'
<1> USE BufAssumption
<1>1. TypeInv /\ ProcOK(p)
  BY DEF PlaceInv
<1>2. /\ pc[p] = "got" /\ cpu \in {None, p} /\ cpu' \in {None, p}
      /\ UNCHANGED <<bufs, lists, basyncnt, dev, wchan, hit, hist>>
      /\ bp' = [bp EXCEPT ![p] = nbp[p]] /\ nbp' = [nbp EXCEPT ![p] = None]
      /\ \/ /\ call[p].op \in {"getblk", "bread"} /\ pc' = [pc EXCEPT ![p] = "hold"]
            /\ call' = [call EXCEPT ![p] = NoCall]
         \/ call[p].op = "breada" /\ pc' = [pc EXCEPT ![p] = "ahead"] /\ call' = call
  BY <1>1 DEF GotReady, GotAhead, At, Goto, Leave
<1>3. TypeInv'
  <2>1. NoCall \in [op : Ops, blk : Block \cup {None}, ra : Block \cup {None}]
    BY DEF NoCall, Ops
  <2>2. call' \in [Proc -> [op : Ops, blk : Block \cup {None}, ra : Block \cup {None}]]
    BY <1>1, <1>2, <2>1 DEF TypeInv
  <2>3. bp' \in [Proc -> Buf \cup {None}] /\ nbp' \in [Proc -> Buf \cup {None}] /\ pc' \in [Proc -> Locs]
    BY <1>1, <1>2 DEF TypeInv, Locs
  <2> QED
    BY <1>1, <1>2, <2>2, <2>3 DEF TypeInv, bufs, lists, dev, hist
<1>4. Others(p) /\ bp'[p] = nbp[p] /\ nbp'[p] = None
  BY <1>1, <1>2 DEF Others, TypeInv
<1>5. \/ call[p].op \in {"getblk", "bread"} /\ pc'[p] = "hold" /\ call'[p] = NoCall
      \/ call[p].op = "breada" /\ pc'[p] = "ahead" /\ call'[p] = call[p]
  BY <1>1, <1>2 DEF TypeInv
<1>6. nbp[p] # None /\ bp[p] = None /\ b_blkno[nbp[p]] # None /\ ~AtDevice(nbp[p])
  BY <1>1, <1>2 DEF ProcOK
<1>7. ProcOK(p)'
  <2>1. UNCHANGED <<b_blkno, queue>>
    BY <1>2 DEF bufs, dev
  <2>2. (b_blkno[bp[p]])' # None /\ ~AtDevice(bp[p])'
    BY <1>4, <1>6, <2>1 DEF AtDevice
  <2>3. call[p].op = "breada" => call[p].blk # None /\ call[p].ra # None
    BY <1>1, <1>2 DEF ProcOK
  <2> QED
    BY <1>4, <1>5, <1>6, <2>2, <2>3 DEF ProcOK, NoCall
<1>8. \A b \in Buf : Holds(p, b)' <=> Holds(p, b)
  BY <1>2, <1>4, <1>5, <1>6 DEF Holds
<1> QED
  BY <1>2, <1>3, <1>4, <1>5, <1>7, <1>8, MoveKeeps DEF bufs, lists, dev

(* breada() goes on with the read-ahead block, or with the first.          *)
LEMMA AheadKeeps ==
  ASSUME PlaceInv, NEW p \in Proc, AheadBegin(p) \/ AheadSkip(p)
  PROVE  PlaceInv'
<1> USE BufAssumption
<1>1. TypeInv /\ ProcOK(p)
  BY DEF PlaceInv
<1>2. /\ pc[p] = "ahead" /\ cpu \in {None, p} /\ cpu' = p
      /\ UNCHANGED <<bufs, lists, basyncnt, dev, bp, nbp, wchan, hit, hist>>
      /\ \/ /\ pc' = [pc EXCEPT ![p] = "getblk"]
            /\ call' = [call EXCEPT ![p] =
                          [op |-> "ahead", blk |-> call[p].ra, ra |-> call[p].blk]]
         \/ /\ pc' = [pc EXCEPT ![p] = IF bp[p] = None THEN "getblk" ELSE "biowait"]
            /\ call' = [call EXCEPT ![p] =
                          [op |-> "bread", blk |-> call[p].blk, ra |-> None]]
  BY DEF AheadBegin, AheadSkip, AheadDone, At, Goto
<1>3. /\ call[p].blk \in Block /\ call[p].ra \in Block /\ nbp[p] = None
      /\ bp[p] # None => b_blkno[bp[p]] # None
  BY <1>1, <1>2 DEF ProcOK, TypeInv
<1>4. TypeInv'
  <2>1. /\ pc' \in [Proc -> Locs]
        /\ call' \in [Proc -> [op : Ops, blk : Block \cup {None}, ra : Block \cup {None}]]
    <3>1. \E l \in Locs : pc' = [pc EXCEPT ![p] = l]
      BY <1>2 DEF Locs
    <3>2. \E r \in [op : Ops, blk : Block \cup {None}, ra : Block \cup {None}] :
            call' = [call EXCEPT ![p] = r]
      BY <1>2, <1>3 DEF Ops
    <3> QED
      BY <1>1, <3>1, <3>2 DEF TypeInv
  <2> QED
    BY <1>1, <1>2, <2>1 DEF TypeInv, bufs, lists, dev, hist
<1>5. /\ Others(p) /\ bp'[p] = bp[p] /\ nbp'[p] = None
      /\ \/ pc'[p] = "getblk" /\ call'[p].op = "ahead" /\ call'[p].blk # None /\ call'[p].ra # None
         \/ /\ pc'[p] = IF bp[p] = None THEN "getblk" ELSE "biowait"
            /\ call'[p].op = "bread" /\ call'[p].blk # None
  BY <1>1, <1>2, <1>3 DEF Others, TypeInv
<1>6. ProcOK(p)'
  <2>1. UNCHANGED <<b_blkno, queue>>
    BY <1>2 DEF bufs, dev
  <2>2. bp[p] # None => (b_blkno[bp[p]])' # None
    BY <1>3, <1>5, <2>1
  <2> QED
    BY <1>5, <2>2 DEF ProcOK, Getblk
<1>7. \A b \in Buf : Holds(p, b)' <=> Holds(p, b)
  BY <1>2, <1>3, <1>5 DEF Holds
<1> QED
  BY <1>2, <1>4, <1>5, <1>6, <1>7, MoveKeeps DEF bufs, lists, dev

(* What p finds busy, and where it looks again.                            *)
LEMMA BusyFacts ==
  ASSUME PlaceInv, NEW p \in Proc, NEW b, NEW l, Busy(p, b, l)
  PROVE  /\ b \in Buf /\ Has(b, "BUSY") /\ b_blkno[b] # None /\ cpu \in {None, p}
         /\ (pc[p] = "found" /\ l = "getblk") \/ (pc[p] = "blkflush" /\ l = "blkflush")
<1>1. ProcOK(p)
  BY DEF PlaceInv
<1>2. CASE At(p, "found") /\ l = "getblk" /\ b = hit[p]
  BY <1>1, <1>2 DEF Busy, At, ProcOK
<1>3. CASE At(p, "blkflush") /\ l = "blkflush" /\ b \in Hashed(call[p].blk)
  <2>1. b \in Buf /\ b_blkno[b] = call[p].blk /\ pc[p] = "blkflush"
    BY <1>3 DEF Hashed, At
  <2>2. call[p].blk # None
    BY <1>1, <2>1 DEF ProcOK
  <2> QED
    BY <1>3, <2>1, <2>2 DEF Busy, At
<1> QED
  BY <1>2, <1>3 DEF Busy

(* p sleeps on a buffer that is busy, or at the device.                    *)
LEMMA SleepKeeps ==
  ASSUME PlaceInv, NEW p \in Proc, BusySleep(p) \/ BiowaitSleep(p)
  PROVE  PlaceInv'
<1> USE BufAssumption
<1>1. TypeInv /\ ProcOK(p)
  BY DEF PlaceInv
<1>2. PICK b \in Buf, l \in {"getblk", "blkflush", "biowait"} :
        /\ b_flags' = [b_flags EXCEPT ![b] = @ \cup {"WANTED"}]
        /\ wchan' = [wchan EXCEPT ![p] = b]
        /\ pc' = [pc EXCEPT ![p] = l] /\ cpu \in {None, p} /\ cpu' = None
        /\ (l = "getblk" /\ pc[p] = "found") \/ (l \in {"blkflush", "biowait"} /\ pc[p] = l)
  <2>1. CASE BusySleep(p)
    <3>1. PICK b \in Buf, l \in {"getblk", "blkflush"} :
             /\ Busy(p, b, l)
             /\ b_flags' = [b_flags EXCEPT ![b] = @ \cup {"WANTED"}]
             /\ Sleep(p, b, l)
      BY <2>1 DEF BusySleep
    <3> QED
      BY <3>1, BusyFacts DEF Sleep, Leave
  <2>2. CASE BiowaitSleep(p)
    <3>1. bp[p] \in Buf
      BY <1>1, <2>2 DEF ProcOK, BiowaitSleep, At, TypeInv
    <3> QED
      BY <2>2, <3>1 DEF BiowaitSleep, Sleep, Leave, At
  <2> QED
    BY <2>1, <2>2
<1>3. /\ UNCHANGED <<b_blkno, b_addr, lists, basyncnt, dev, call, bp, nbp, hist>>
      /\ hit' \in [Proc -> Buf \cup {None}]
  BY <1>1 DEF BusySleep, BiowaitSleep, TypeInv
<1>4. pc[p] # "bflush" /\ pc'[p] = l /\ pc' \in [Proc -> Locs] /\ \A q \in Proc \ {p} : pc'[q] = pc[q]
  BY <1>1, <1>2 DEF TypeInv, Locs
<1>5. TypeInv'
  <2>1. b_flags' \in [Buf -> SUBSET Flag] /\ wchan' \in [Proc -> Buf \cup {FreeList, None}]
    BY <1>1, <1>2 DEF TypeInv, Flag
  <2> QED
    BY <1>1, <1>2, <1>3, <1>4, <2>1 DEF TypeInv, lists, dev, hist
<1>6. Others(p) /\ Closes(p)
  BY <1>2, <1>3, <1>4 DEF Others, Closes
<1>7. ASSUME NEW c \in Buf PROVE Stays(c) /\ (Holds(p, c)' <=> Holds(p, c))
  <2>1. Stays(c)
    BY <1>1, <1>2, <1>3 DEF Stays, Telling, Has, Free, AtDevice, TypeInv, lists, dev
  <2>2. Holds(p, c)' <=> Holds(p, c)
    BY <1>2, <1>3, <1>4 DEF Holds
  <2> QED
    BY <2>1, <2>2
<1>8. ProcOK(p)'
  <2>1. UNCHANGED <<call, bp, nbp, b_blkno, queue>>
    BY <1>3 DEF dev
  <2>2. \/ pc'[p] = "getblk" /\ pc[p] = "found"
        \/ pc'[p] = "blkflush" /\ pc[p] = "blkflush"
        \/ pc'[p] = "biowait" /\ pc[p] = "biowait"
    BY <1>2, <1>4
  <2> HIDE DEF Getblk
  <2> QED
    BY <1>1, <2>1, <2>2 DEF ProcOK, None2, AtDevice
<1> QED
  BY <1>3, <1>5, <1>6, <1>7, <1>8, QuietKeeps DEF lists, dev

(* The last close: nobody has a buffer, and no write is delayed.           *)
LEMMA BinvalKeeps ==
  ASSUME PlaceInv, NEW p \in Proc, binval(p)
  PROVE  PlaceInv' /\ \A b \in Buf : ~Has(b, "DELWRI")
<1> USE BufAssumption
<1>1. TypeInv /\ (\A q \in Proc : ProcOK(q)) /\ CloseOK
  BY DEF PlaceInv
<1>2. /\ pc[p] = "bflush" /\ call[p].op = "close" /\ cpu \in {None, p} /\ cpu' = None
      /\ pc' = [pc EXCEPT ![p] = "user"] /\ call' = [call EXCEPT ![p] = NoCall]
      /\ b_flags' = [b \in Buf |-> IF b_blkno[b] # None THEN b_flags[b] \cup {"STALE", "AGE"}
                                                       ELSE b_flags[b]]
      /\ UNCHANGED <<b_blkno, b_addr, lists, basyncnt, dev, bp, nbp, wchan, hit, hist>>
  BY DEF binval, At, Return, Leave
<1>3. \A q \in Proc : bp[q] = None /\ nbp[q] = None
  <2>1. \A q \in Proc \ {p} : pc[q] = "user"
    BY <1>1, <1>2 DEF CloseOK
  <2> QED
    BY <1>1, <1>2, <2>1 DEF ProcOK, None2
<1>4. \A q \in Proc, b \in Buf : ~Holds(q, b) /\ ~Holds(q, b)'
  BY <1>2, <1>3 DEF Holds
<1>5. ASSUME NEW b \in Buf PROVE ~Has(b, "DELWRI")
  <2>1. BufOK(b)
    BY DEF PlaceInv
  <2>2. CASE Free(b)
    <3>1. PICK i \in DOMAIN avail : avail[i] = b
      BY <2>2 DEF Free, ToSet
    <3>2. i \notin Delayed
      BY DEF binval
    <3> QED
      BY <3>1, <3>2 DEF Delayed
  <2>3. CASE ~Free(b)
    BY <1>4, <2>1, <2>3 DEF BufOK
  <2> QED
    BY <2>2, <2>3
<1>6. TypeInv'
  <2>1. b_flags' \in [Buf -> SUBSET Flag]
    BY <1>1, <1>2 DEF TypeInv, Flag
  <2>2. call' \in [Proc -> [op : Ops, blk : Block \cup {None}, ra : Block \cup {None}]]
    BY <1>1, <1>2 DEF TypeInv, NoCall, Ops
  <2> QED
    BY <1>1, <1>2, <2>1, <2>2 DEF TypeInv, Locs, lists, dev, hist
<1>7. Others(p) /\ Closes(p) /\ pc'[p] = "user" /\ call'[p].op = "none"
  BY <1>1, <1>2 DEF Others, Closes, TypeInv, NoCall
<1>8. ASSUME NEW b \in Buf PROVE BufOK(b)'
  <2>1. /\ \A f \in Flag \ {"STALE", "AGE"} : Has(b, f)' <=> Has(b, f)
        /\ b_blkno'[b] = b_blkno[b] /\ (Free(b)' <=> Free(b)) /\ (AtDevice(b)' <=> AtDevice(b))
        /\ bhdrlist' = bhdrlist
    BY <1>2 DEF Has, Free, AtDevice, lists, dev
  <2>2. {"BUSY", "ASYNC", "DONE", "DELWRI", "ERROR"} \subseteq Flag \ {"STALE", "AGE"}
    BY DEF Flag
  <2>3. BufOK(b) /\ ~Has(b, "DELWRI")
    BY <1>5 DEF PlaceInv
  <2> HIDE DEF Has, Free, AtDevice
  <2> QED
    BY <1>4, <2>1, <2>2, <2>3 DEF BufOK
<1>9. ProcOK(p)'
  BY <1>2, <1>3, <1>7 DEF ProcOK, None2
<1>10. HashOK'
  <2>1. \A b \in Buf : InUse(b)' => InUse(b) /\ b_blkno'[b] = b_blkno[b]
    BY <1>2 DEF InUse, Has
  <2> QED
    BY <2>1, HashKept
<1>11. Distinct(avail)' /\ Distinct(queue)'
  BY <1>2 DEF PlaceInv, Distinct, lists, dev
<1> QED
  BY <1>4, <1>5, <1>6, <1>7, <1>8, <1>9, <1>10, <1>11, Frame, Buf \in SUBSET Buf

(* The flags brelse() leaves.                                              *)
LEMMA ReleasedFlags ==
  ASSUME NEW F \in SUBSET Flag
  PROVE  /\ Released(F) \in SUBSET Flag
         /\ {"BUSY", "ASYNC", "WANTED", "ERROR"} \cap Released(F) = {}
         /\ "DELWRI" \in Released(F) <=> "DELWRI" \in F /\ "ERROR" \notin F
         /\ "STALE" \in Released(F) <=> "STALE" \in F \/ "ERROR" \in F
         /\ "DONE" \in Released(F) <=> "DONE" \in F
         /\ "READ" \in Released(F) <=> "READ" \in F
BY DEF Released, Flag

(* What brelse() does to the lists, and to those who sleep.                *)
LEMMA BrelseFacts ==
  ASSUME TypeInv, NEW b \in Buf, NEW fl \in [Buf -> SUBSET Flag], NEW list \in Seq(Buf),
         Distinct(list), b \notin ToSet(list), brelse(b, fl, list)
  PROVE  /\ avail' \in Seq(Buf) /\ Distinct(avail)' /\ ToSet(avail)' = ToSet(list) \cup {b}
         /\ b_flags' \in [Buf -> SUBSET Flag]
         /\ b_flags'[b] = Released(fl[b]) /\ \A c \in Buf \ {b} : b_flags'[c] = fl[c]
         /\ flwanted' = FALSE
         /\ wchan' \in [Proc -> Buf \cup {FreeList, None}]
         /\ \A q \in Proc :
              \/ wchan'[q] = None
              \/ /\ wchan'[q] = wchan[q]
                 /\ wchan[q] = b => "WANTED" \notin fl[b]
                 /\ wchan[q] = FreeList => ~flwanted
<1>1. avail' = <<b>> \o list \/ avail' = Append(list, b)
  BY DEF brelse, Freed
<1>2. avail' \in Seq(Buf) /\ Distinct(avail)' /\ ToSet(avail)' = ToSet(list) \cup {b}
  <2>1. avail' \in Seq(Buf) /\ Distinct(avail') /\ ToSet(avail') = ToSet(list) \cup {b}
    <3>1. /\ Append(list, b) \in Seq(Buf) /\ Distinct(Append(list, b))
          /\ ToSet(Append(list, b)) = ToSet(list) \cup {b}
      BY AppendList
    <3>2. /\ <<b>> \o list \in Seq(Buf) /\ Distinct(<<b>> \o list)
          /\ ToSet(<<b>> \o list) = ToSet(list) \cup {b}
      BY ConsList
    <3> QED
      BY <1>1, <3>1, <3>2, Zenon
  <2> QED
    BY <2>1
<1>3. Released(fl[b]) \in SUBSET Flag
  BY ReleasedFlags
<1>4. /\ b_flags' \in [Buf -> SUBSET Flag]
      /\ b_flags'[b] = Released(fl[b]) /\ \A c \in Buf \ {b} : b_flags'[c] = fl[c]
  BY <1>3 DEF brelse
<1>5. /\ wchan' \in [Proc -> Buf \cup {FreeList, None}]
      /\ \A q \in Proc :
              \/ wchan'[q] = None
              \/ /\ wchan'[q] = wchan[q]
                 /\ wchan[q] = b => "WANTED" \notin fl[b]
                 /\ wchan[q] = FreeList => ~flwanted
  BY DEF brelse, Awake, TypeInv
<1> QED
  BY <1>2, <1>4, <1>5 DEF brelse

(* A buffer that p holds is no list's.                                     *)
LEMMA Held ==
  ASSUME PlaceInv, NEW p \in Proc, NEW b \in Buf, Holds(p, b)
  PROVE  /\ b \notin ToSet(avail) /\ b \notin bhdrlist /\ Has(b, "BUSY") /\ ~Has(b, "ASYNC")
         /\ \A q \in Proc \ {p} : ~Holds(q, b)
BY DEF PlaceInv, BufOK, Free

(* p gives a buffer back; its flags are F before brelse().                 *)
LEMMA GivenBack ==
  ASSUME PlaceInv, TypeInv', NEW p \in Proc, Others(p), cpu \in {None, p}, pc'[p] # "bflush",
         NEW b \in Buf, Holds(p, b), ~AtDevice(b), NEW F \in SUBSET Flag,
         brelse(b, [b_flags EXCEPT ![b] = F], avail), UNCHANGED <<b_blkno, bhdrlist, queue>>,
         Has(b, "STALE") => "STALE" \in F,
         "DELWRI" \in F /\ "ERROR" \notin F => "DONE" \in F /\ b_blkno[b] # None,
         \A c \in Buf : Holds(p, c)' <=> Holds(p, c) /\ c # b, ProcOK(p)'
  PROVE  PlaceInv'
<1> DEFINE fl == [b_flags EXCEPT ![b] = F]
<1>1. /\ TypeInv /\ Distinct(avail) /\ Distinct(queue) /\ avail \in Seq(Buf)
      /\ b_flags \in [Buf -> SUBSET Flag]
  BY DEF PlaceInv, TypeInv
<1>2. /\ b \notin ToSet(avail) /\ b \notin bhdrlist /\ Has(b, "BUSY") /\ ~Has(b, "ASYNC")
      /\ \A q \in Proc \ {p} : ~Holds(q, b)
  BY Held
<1>3. fl \in [Buf -> SUBSET Flag] /\ fl[b] = F /\ \A c \in Buf \ {b} : fl[c] = b_flags[c]
  BY <1>1
<1> HIDE DEF fl
<1>4. /\ Distinct(avail)' /\ ToSet(avail)' = ToSet(avail) \cup {b}
      /\ b_flags'[b] = Released(F) /\ \A c \in Buf \ {b} : b_flags'[c] = b_flags[c]
  <2>1. brelse(b, fl, avail)
    BY DEF fl
  <2> QED
    BY <1>1, <1>2, <1>3, <2>1, BrelseFacts, ZenonT(30)
<1>5. ASSUME NEW c \in Buf \ {b} PROVE Stays(c) /\ (Holds(p, c)' <=> Holds(p, c))
  BY <1>4 DEF Stays, Has, Free, AtDevice
<1>6. \A q \in Proc : ~Holds(q, b)'
  BY <1>2 DEF Others, Holds
<1>7. BufOK(b)'
  <2>1. /\ Free(b)' /\ ~AtDevice(b)' /\ b \notin bhdrlist' /\ b_blkno'[b] = b_blkno[b]
        /\ ~Has(b, "BUSY")' /\ ~Has(b, "ASYNC")' /\ ~Has(b, "ERROR")'
        /\ Has(b, "DELWRI")' => Has(b, "DONE")' /\ b_blkno[b] # None
    BY <1>2, <1>4, ReleasedFlags DEF Free, AtDevice, Has
  <2> QED
    BY <1>6, <2>1 DEF BufOK
<1>8. HashOK'
  <2>1. Has(b, "STALE") => Has(b, "STALE")'
    BY <1>4, ReleasedFlags DEF Has
  <2>2. \A c \in Buf : InUse(c)' => InUse(c) /\ b_blkno'[c] = b_blkno[c]
    BY <1>4, <2>1 DEF InUse, Has
  <2> QED
    BY <2>2, HashKept
<1>9. Distinct(queue)' /\ Closes(p) /\ {b} \in SUBSET Buf
  BY <1>1 DEF Distinct, Closes
<1> QED
  BY <1>2, <1>4, <1>5, <1>7, <1>8, <1>9, Frame

(* p gives back the buffer it has, when its call is done or goes on.       *)
LEMMA PutBack ==
  ASSUME PlaceInv, NEW p \in Proc, NEW F \in SUBSET Flag, bp[p] # None => ~AtDevice(bp[p]),
         pc[p] \in {"hold", "biowait"}, cpu \in {None, p}, cpu' \in {None, p},
         brelse(bp[p], [b_flags EXCEPT ![bp[p]] = F], avail),
         bp' = [bp EXCEPT ![p] = None], UNCHANGED <<b_blkno, bhdrlist, basyncnt, dev, nbp, hit>>,
         b_addr' \in [Buf -> Data \cup {None}], latest' \in [Block -> Nat], lost' \in SUBSET Block,
         astray' \in SUBSET Block,
         \/ pc' = [pc EXCEPT ![p] = "user"] /\ call' = [call EXCEPT ![p] = NoCall]
         \/ /\ pc' = [pc EXCEPT ![p] = "blkflush"] /\ call' = call
            /\ call[p].op = "blkflush" /\ call[p].blk # None,
         Has(bp[p], "STALE") => "STALE" \in F,
         "DELWRI" \in F /\ "ERROR" \notin F => "DONE" \in F /\ b_blkno[bp[p]] # None
  PROVE  PlaceInv'
<1> USE BufAssumption
<1>1. TypeInv /\ ProcOK(p)
  BY DEF PlaceInv
<1>2. bp[p] \in Buf /\ nbp[p] = None /\ Holds(p, bp[p]) /\ ~AtDevice(bp[p])
  BY <1>1 DEF ProcOK, TypeInv, Holds
<1> DEFINE b == bp[p]
           fl == [b_flags EXCEPT ![b] = F]
<1>3. TypeInv'
  <2>1. fl \in [Buf -> SUBSET Flag]
    BY <1>1 DEF TypeInv
  <2>2. avail \in Seq(Buf) /\ Distinct(avail) /\ b \notin ToSet(avail)
    BY <1>2, Held DEF PlaceInv, TypeInv
  <2>3. brelse(b, fl, avail)
    OBVIOUS
  <2> HIDE DEF fl
  <2>4. /\ avail' \in Seq(Buf) /\ b_flags' \in [Buf -> SUBSET Flag] /\ flwanted' = FALSE
        /\ wchan' \in [Proc -> Buf \cup {FreeList, None}]
    BY <1>1, <1>2, <2>1, <2>2, <2>3, BrelseFacts
  <2>5. /\ pc' \in [Proc -> Locs] /\ cpu' \in Proc \cup {None}
        /\ call' \in [Proc -> [op : Ops, blk : Block \cup {None}, ra : Block \cup {None}]]
        /\ bp' \in [Proc -> Buf \cup {None}]
    <3>1. \E l \in Locs : pc' = [pc EXCEPT ![p] = l]
      BY DEF Locs
    <3>2. NoCall \in [op : Ops, blk : Block \cup {None}, ra : Block \cup {None}]
      BY DEF NoCall, Ops
    <3>3. \E r \in [op : Ops, blk : Block \cup {None}, ra : Block \cup {None}] :
            call' = [call EXCEPT ![p] = r]
      <4>1. call' = call => call' = [call EXCEPT ![p] = call[p]]
        BY <1>1 DEF TypeInv
      <4>2. call[p] \in [op : Ops, blk : Block \cup {None}, ra : Block \cup {None}]
        BY <1>1 DEF TypeInv
      <4> QED
        BY <3>2, <4>1, <4>2
    <3> QED
      BY <1>1, <3>1, <3>3 DEF TypeInv
  <2> QED
    BY <1>1, <2>4, <2>5 DEF TypeInv, dev
<1>4. /\ Others(p) /\ bp'[p] = None /\ nbp'[p] = None
      /\ \/ pc'[p] = "user" /\ call'[p] = NoCall
         \/ pc'[p] = "blkflush" /\ call'[p] = call[p] /\ call[p].op = "blkflush" /\ call[p].blk # None
  BY <1>1, <1>2 DEF Others, TypeInv
<1>5. ProcOK(p)'
  BY <1>4 DEF ProcOK, None2, NoCall
<1>6. \A c \in Buf : Holds(p, c)' <=> Holds(p, c) /\ c # b
  BY <1>2, <1>4 DEF Holds
<1> HIDE DEF b
<1>7. pc'[p] # "bflush" /\ UNCHANGED <<b_blkno, bhdrlist, queue>>
  BY <1>4 DEF dev
<1>8. /\ b \in Buf /\ Holds(p, b) /\ ~AtDevice(b) /\ brelse(b, [b_flags EXCEPT ![b] = F], avail)
      /\ Has(b, "STALE") => "STALE" \in F
      /\ "DELWRI" \in F /\ "ERROR" \notin F => "DONE" \in F /\ b_blkno[b] # None
  BY <1>2 DEF b
<1> QED
  BY <1>3, <1>4, <1>5, <1>6, <1>7, <1>8, GivenBack

(* What the flags of a delayed write allow.                                *)
LEMMA DelayedFlags ==
  ASSUME PlaceInv, NEW b \in Buf
  PROVE  Has(b, "DELWRI") => Has(b, "DONE") /\ b_blkno[b] # None
BY DEF PlaceInv, BufOK

(* The holder of a buffer releases it.                                     *)
LEMMA ReleaseKeeps ==
  ASSUME PlaceInv, NEW p \in Proc, Release(p) \/ BiowaitWritten(p)
  PROVE  PlaceInv'
<1> USE BufAssumption
<1>1. TypeInv /\ ProcOK(p) /\ b_flags \in [Buf -> SUBSET Flag]
  BY DEF PlaceInv, TypeInv
<1>2. /\ cpu \in {None, p} /\ cpu' \in {None, p} /\ pc[p] \in {"hold", "biowait"}
      /\ brelse(bp[p], b_flags, avail)
      /\ UNCHANGED <<b_blkno, b_addr, bhdrlist, basyncnt, dev, nbp, hit, hist>>
      /\ bp' = [bp EXCEPT ![p] = None]
      /\ \/ pc' = [pc EXCEPT ![p] = "user"] /\ call' = [call EXCEPT ![p] = NoCall]
         \/ /\ pc' = [pc EXCEPT ![p] = "blkflush"] /\ call' = call
            /\ call[p].op = "blkflush" /\ pc[p] = "biowait"
  BY DEF Release, BiowaitWritten, At, Return, Leave, Goto
<1>3. bp[p] \in Buf
  BY <1>1, <1>2 DEF ProcOK, TypeInv
<1>4. ~AtDevice(bp[p])
  <2>1. pc[p] = "hold" \/ Has(bp[p], "DONE")
    BY DEF Release, BiowaitWritten, At
  <2> QED
    BY <1>1, <1>3, <2>1 DEF PlaceInv, BufOK, ProcOK
<1>5. call[p].op = "blkflush" /\ pc[p] = "biowait" => call[p].blk # None
  BY <1>1 DEF ProcOK
<1>6. b_flags = [b_flags EXCEPT ![bp[p]] = b_flags[bp[p]]] /\ b_flags[bp[p]] \in SUBSET Flag
  BY <1>1, <1>3
<1>7. /\ "DELWRI" \in b_flags[bp[p]] => "DONE" \in b_flags[bp[p]] /\ b_blkno[bp[p]] # None
      /\ Has(bp[p], "STALE") => "STALE" \in b_flags[bp[p]]
  BY <1>3, DelayedFlags DEF Has
<1>8. brelse(bp[p], [b_flags EXCEPT ![bp[p]] = b_flags[bp[p]]], avail)
  BY <1>2, <1>6, Zenon
<1>9. /\ b_addr' \in [Buf -> Data \cup {None}] /\ latest' \in [Block -> Nat]
      /\ lost' \in SUBSET Block /\ astray' \in SUBSET Block
  BY <1>1, <1>2 DEF TypeInv, hist
<1> QED
  BY <1>2, <1>4, <1>5, <1>6, <1>7, <1>8, <1>9, PutBack

(* The new data of a block.                                                *)
LEMMA NewDataFacts ==
  ASSUME PlaceInv, NEW p \in Proc, NewData(p)
  PROVE  /\ bp[p] \in Buf /\ b_blkno[bp[p]] \in Block /\ ~AtDevice(bp[p])
         /\ Holds(p, bp[p]) /\ nbp[p] = None /\ ~Has(bp[p], "ERROR")
         /\ b_addr' \in [Buf -> Data \cup {None}] /\ latest' \in [Block -> Nat]
         /\ lost' \in SUBSET Block /\ astray' = astray /\ astray' \in SUBSET Block
<1> USE BufAssumption
<1>1. TypeInv /\ ProcOK(p)
  BY DEF PlaceInv
<1>2. bp[p] \in Buf /\ b_blkno[bp[p]] # None /\ ~AtDevice(bp[p]) /\ nbp[p] = None /\ Holds(p, bp[p])
  BY <1>1 DEF NewData, At, ProcOK, TypeInv, Holds
<1>3. b_blkno[bp[p]] \in Block
  BY <1>1, <1>2 DEF TypeInv
<1> QED
  BY <1>1, <1>2, <1>3 DEF NewData, TypeInv, Data

(* A delayed write.                                                        *)
LEMMA BdwriteKeeps ==
  ASSUME PlaceInv, NEW p \in Proc, bdwrite(p)
  PROVE  PlaceInv'
<1>1. TypeInv /\ b_flags \in [Buf -> SUBSET Flag]
  BY DEF PlaceInv, TypeInv
<1>2. /\ bp[p] \in Buf /\ b_blkno[bp[p]] \in Block /\ ~AtDevice(bp[p])
      /\ b_addr' \in [Buf -> Data \cup {None}] /\ latest' \in [Block -> Nat]
      /\ lost' \in SUBSET Block /\ astray' \in SUBSET Block
  BY NewDataFacts DEF bdwrite
<1> DEFINE F == b_flags[bp[p]] \cup {"DELWRI", "DONE"}
<1>3. /\ F \in SUBSET Flag /\ [b_flags EXCEPT ![bp[p]] = @ \cup {"DELWRI", "DONE"}]
                              = [b_flags EXCEPT ![bp[p]] = F]
      /\ "DONE" \in F /\ (Has(bp[p], "STALE") => "STALE" \in F) /\ b_blkno[bp[p]] # None
  BY <1>1, <1>2, BufAssumption DEF Flag, Has
<1> HIDE DEF F
<1>4. /\ pc[p] = "hold" /\ cpu \in {None, p} /\ cpu' \in {None, p}
      /\ bp' = [bp EXCEPT ![p] = None] /\ UNCHANGED <<b_blkno, bhdrlist, basyncnt, dev, nbp, hit>>
      /\ pc' = [pc EXCEPT ![p] = "user"] /\ call' = [call EXCEPT ![p] = NoCall]
  BY DEF bdwrite, NewData, At, Return, Leave
<1>5. brelse(bp[p], [b_flags EXCEPT ![bp[p]] = F], avail)
  BY <1>3, Zenon DEF bdwrite
<1> QED
  BY <1>2, <1>3, <1>4, <1>5, PutBack

(* The read-ahead block turned out to be valid.                            *)
LEMMA AheadValidKeeps ==
  ASSUME PlaceInv, NEW p \in Proc, AheadValid(p)
  PROVE  PlaceInv'
<1> USE BufAssumption
<1>1. TypeInv /\ ProcOK(p) /\ b_flags \in [Buf -> SUBSET Flag]
  BY DEF PlaceInv, TypeInv
<1>2. /\ pc[p] = "got" /\ call[p].op = "ahead" /\ cpu \in {None, p} /\ cpu' = p
      /\ brelse(nbp[p], b_flags, avail) /\ nbp' = [nbp EXCEPT ![p] = None]
      /\ pc' = [pc EXCEPT ![p] = IF bp[p] = None THEN "getblk" ELSE "biowait"]
      /\ call' = [call EXCEPT ![p] = [op |-> "bread", blk |-> call[p].ra, ra |-> None]]
      /\ UNCHANGED <<b_blkno, b_addr, bhdrlist, basyncnt, dev, bp, hit, hist>>
  BY DEF AheadValid, AheadDone, At, Goto
<1>3. /\ nbp[p] \in Buf /\ nbp[p] # bp[p] /\ ~AtDevice(nbp[p]) /\ call[p].ra \in Block
      /\ Holds(p, nbp[p]) /\ (bp[p] # None => b_blkno[bp[p]] # None)
  BY <1>1, <1>2 DEF ProcOK, TypeInv, Holds
<1>4. nbp[p] \notin ToSet(avail) /\ avail \in Seq(Buf) /\ Distinct(avail)
  BY <1>1, <1>3, Held DEF PlaceInv, TypeInv
<1>5. /\ avail' \in Seq(Buf) /\ b_flags' \in [Buf -> SUBSET Flag] /\ flwanted' = FALSE
      /\ wchan' \in [Proc -> Buf \cup {FreeList, None}]
      /\ \A c \in Buf \ {nbp[p]} : b_flags'[c] = b_flags[c]
  BY <1>1, <1>2, <1>3, <1>4, BrelseFacts
<1>6. TypeInv'
  <2>1. /\ \E l \in Locs : pc' = [pc EXCEPT ![p] = l]
        /\ \E r \in [op : Ops, blk : Block \cup {None}, ra : Block \cup {None}] :
             call' = [call EXCEPT ![p] = r]
    BY <1>2, <1>3 DEF Locs, Ops
  <2>2. /\ pc' \in [Proc -> Locs] /\ nbp' \in [Proc -> Buf \cup {None}]
        /\ call' \in [Proc -> [op : Ops, blk : Block \cup {None}, ra : Block \cup {None}]]
    BY <1>1, <1>2, <2>1 DEF TypeInv
  <2> QED
    BY <1>1, <1>2, <1>5, <2>2 DEF TypeInv, dev, hist
<1>7. /\ Others(p) /\ bp'[p] = bp[p] /\ nbp'[p] = None
      /\ pc'[p] = IF bp[p] = None THEN "getblk" ELSE "biowait"
      /\ call'[p].op = "bread" /\ call'[p].blk # None
  BY <1>1, <1>2, <1>3 DEF Others, TypeInv
<1>8. ProcOK(p)'
  <2>1. bp[p] # None => (b_blkno[bp[p]])' # None
    BY <1>2, <1>3, <1>7
  <2> QED
    BY <1>7, <2>1 DEF ProcOK, Getblk
<1>9. \A c \in Buf : Holds(p, c)' <=> Holds(p, c) /\ c # nbp[p]
  BY <1>2, <1>3, <1>7 DEF Holds
<1> DEFINE b == nbp[p]
<1>10. /\ b_flags = [b_flags EXCEPT ![b] = b_flags[b]] /\ b_flags[b] \in SUBSET Flag
       /\ Has(b, "STALE") => "STALE" \in b_flags[b]
       /\ "DELWRI" \in b_flags[b] => "DONE" \in b_flags[b] /\ b_blkno[b] # None
  BY <1>1, <1>3, DelayedFlags DEF Has
<1>11. brelse(b, [b_flags EXCEPT ![b] = b_flags[b]], avail)
  BY <1>2, <1>10, Zenon
<1>12. b \in Buf /\ Holds(p, b) /\ ~AtDevice(b) /\ \A c \in Buf : Holds(p, c)' <=> Holds(p, c) /\ c # b
  BY <1>3, <1>9
<1>13. pc'[p] # "bflush" /\ UNCHANGED <<b_blkno, bhdrlist, queue>>
  BY <1>2, <1>7 DEF dev
<1> HIDE DEF b
<1> QED
  BY <1>2, <1>6, <1>7, <1>8, <1>10, <1>11, <1>12, <1>13, GivenBack

(* p sends a buffer to the device; its flags are F.                        *)
LEMMA Sent ==
  ASSUME PlaceInv, TypeInv', NEW p \in Proc, Others(p), Closes(p), NEW b \in Buf,
         NEW F \in SUBSET Flag, ~AtDevice(b), b \notin bhdrlist, b_blkno[b] # None,
         \A q \in Proc \ {p} : ~Holds(q, b),
         queue' = Append(queue, b), UNCHANGED <<b_blkno, bhdrlist>>,
         Distinct(avail)', ToSet(avail)' = ToSet(avail) \ {b},
         b_flags' = [b_flags EXCEPT ![b] = F], "BUSY" \in F,
         {"DONE", "DELWRI", "ERROR"} \cap F = {}, Has(b, "STALE") => "STALE" \in F,
         "ASYNC" \in F <=> ~Holds(p, b)', \A c \in Buf \ {b} : Holds(p, c)' <=> Holds(p, c),
         ProcOK(p)'
  PROVE  PlaceInv'
<1>1. /\ TypeInv /\ Distinct(queue) /\ queue \in Seq(Buf) /\ b_flags \in [Buf -> SUBSET Flag]
  BY DEF PlaceInv, TypeInv
<1>2. b_flags'[b] = F /\ \A c \in Buf \ {b} : b_flags'[c] = b_flags[c]
  BY <1>1
<1>3. Distinct(queue)' /\ ToSet(queue)' = ToSet(queue) \cup {b}
  <2>1. Distinct(Append(queue, b)) /\ ToSet(Append(queue, b)) = ToSet(queue) \cup {b}
    BY <1>1, AppendList DEF AtDevice
  <2> QED
    BY <2>1
<1>4. ASSUME NEW c \in Buf \ {b} PROVE Stays(c)
  BY <1>2, <1>3 DEF Stays, Has, Free, AtDevice
<1>5. \A q \in Proc \ {p} : ~Holds(q, b)'
  BY DEF Others, Holds
<1>6. BufOK(b)'
  <2>1. /\ ~Free(b)' /\ AtDevice(b)' /\ b \notin bhdrlist' /\ b_blkno'[b] # None
        /\ Has(b, "BUSY")' /\ ~Has(b, "DONE")' /\ ~Has(b, "DELWRI")' /\ ~Has(b, "ERROR")'
        /\ Has(b, "ASYNC")' <=> ~Holds(p, b)'
    BY <1>2, <1>3 DEF Free, AtDevice, Has
  <2> QED
    BY <1>5, <2>1 DEF BufOK
<1>7. HashOK'
  <2>1. \A c \in Buf : InUse(c)' => InUse(c) /\ b_blkno'[c] = b_blkno[c]
    BY <1>2 DEF InUse, Has
  <2> QED
    BY <2>1, HashKept
<1> DEFINE X == {b}
<1>8. /\ X \in SUBSET Buf /\ (\A c \in X : \A q \in Proc \ {p} : ~Holds(q, c))
      /\ \A c \in Buf \ X : Stays(c) /\ (Holds(p, c)' <=> Holds(p, c))
      /\ \A c \in X : BufOK(c)'
  BY <1>4, <1>6
<1> HIDE DEF X
<1> QED
  BY <1>3, <1>7, <1>8, Frame

(* The driver is called by bread() or breada().                            *)
LEMMA GotReadKeeps ==
  ASSUME PlaceInv, NEW p \in Proc, GotRead(p)
  PROVE  PlaceInv'
<1> USE BufAssumption
<1>1. TypeInv /\ ProcOK(p)
  BY DEF PlaceInv
<1>0. PICK b : b = nbp[p]
  OBVIOUS
<1> DEFINE F == b_flags[b] \cup {"READ"}
<1>2. /\ pc[p] = "got" /\ cpu \in {None, p} /\ cpu' = p /\ ~Has(b, "DONE")
      /\ call[p].op \in {"bread", "breada"}
      /\ b_flags' = [b_flags EXCEPT ![b] = F] /\ queue' = Append(queue, b)
      /\ bp' = [bp EXCEPT ![p] = b] /\ nbp' = [nbp EXCEPT ![p] = None]
      /\ pc' = [pc EXCEPT ![p] = IF call[p].op = "bread" THEN "biowait" ELSE "ahead"]
      /\ UNCHANGED <<b_blkno, b_addr, lists, basyncnt, disk, errs, call, wchan, hit, hist>>
  BY <1>0 DEF GotRead, At, Goto, strategy
<1>3. /\ b \in Buf /\ bp[p] = None /\ b_blkno[b] # None /\ ~AtDevice(b) /\ Holds(p, b) /\ call[p].blk # None
      /\ call[p].op = "breada" => call[p].ra # None
  BY <1>0, <1>1, <1>2 DEF ProcOK, TypeInv, Holds
<1>4. /\ b \notin ToSet(avail) /\ b \notin bhdrlist /\ Has(b, "BUSY") /\ ~Has(b, "ASYNC")
      /\ \A q \in Proc \ {p} : ~Holds(q, b)
  BY <1>3, Held
<1>5. ~Has(b, "DELWRI") /\ ~Has(b, "ERROR")
  BY <1>2, <1>3 DEF PlaceInv, BufOK
<1>6. /\ F \in SUBSET Flag /\ "BUSY" \in F /\ {"DONE", "DELWRI", "ERROR"} \cap F = {}
      /\ "ASYNC" \notin F /\ ("STALE" \in F <=> Has(b, "STALE"))
  BY <1>1, <1>2, <1>3, <1>4, <1>5 DEF TypeInv, Has, Flag
<1> HIDE DEF F
<1>7. TypeInv'
  <2>1. queue' \in Seq(Buf) /\ b_flags' \in [Buf -> SUBSET Flag]
    BY <1>1, <1>2, <1>3, <1>6 DEF TypeInv
  <2>2. bp' \in [Proc -> Buf \cup {None}] /\ nbp' \in [Proc -> Buf \cup {None}]
        /\ pc' \in [Proc -> Locs] /\ cpu' \in Proc \cup {None}
    BY <1>1, <1>2, <1>3 DEF TypeInv, Locs
  <2> QED
    BY <1>1, <1>2, <2>1, <2>2 DEF TypeInv, lists, hist
<1>8. /\ Others(p) /\ bp'[p] = b /\ nbp'[p] = None /\ call'[p] = call[p]
      /\ pc'[p] = IF call[p].op = "bread" THEN "biowait" ELSE "ahead"
  BY <1>1, <1>2, <1>3 DEF Others, TypeInv
<1>9. Closes(p)
  BY <1>2, <1>8 DEF Closes
<1>10. (b_blkno[bp[p]])' # None
  BY <1>2, <1>3, <1>8
<1>11. ProcOK(p)'
  BY <1>2, <1>3, <1>8, <1>10 DEF ProcOK, Getblk
<1>12. Holds(p, b)' /\ \A c \in Buf \ {b} : Holds(p, c)' <=> Holds(p, c)
  BY <1>0, <1>2, <1>3, <1>8 DEF Holds
<1>13. UNCHANGED <<b_blkno, bhdrlist>> /\ Distinct(avail)' /\ ToSet(avail)' = ToSet(avail) \ {b}
  BY <1>2, <1>4 DEF lists, PlaceInv, Distinct
<1>14. b_blkno[b] # None
  BY <1>3
<1> QED
  BY <1>2, <1>3, <1>4, <1>6, <1>7, <1>8, <1>9, <1>11, <1>12, <1>13, <1>14, Sent

(* The driver is called for the read-ahead block.                          *)
LEMMA AheadReadKeeps ==
  ASSUME PlaceInv, NEW p \in Proc, AheadRead(p)
  PROVE  PlaceInv'
<1> USE BufAssumption
<1>1. TypeInv /\ ProcOK(p)
  BY DEF PlaceInv
<1>0. PICK b : b = nbp[p]
  OBVIOUS
<1> DEFINE F == b_flags[b] \cup {"READ", "ASYNC"}
<1>2. /\ pc[p] = "got" /\ cpu \in {None, p} /\ cpu' = p /\ ~Has(b, "DONE") /\ call[p].op = "ahead"
      /\ b_flags' = [b_flags EXCEPT ![b] = F] /\ queue' = Append(queue, b)
      /\ nbp' = [nbp EXCEPT ![p] = None]
      /\ pc' = [pc EXCEPT ![p] = IF bp[p] = None THEN "getblk" ELSE "biowait"]
      /\ call' = [call EXCEPT ![p] = [op |-> "bread", blk |-> call[p].ra, ra |-> None]]
      /\ UNCHANGED <<b_blkno, b_addr, lists, basyncnt, disk, errs, bp, wchan, hit, hist>>
  BY <1>0 DEF AheadRead, AheadDone, At, Goto, strategy
<1>3. /\ b \in Buf /\ bp[p] # b /\ b_blkno[b] # None /\ ~AtDevice(b) /\ Holds(p, b)
      /\ call[p].ra \in Block /\ (bp[p] # None => b_blkno[bp[p]] # None)
  BY <1>0, <1>1, <1>2 DEF ProcOK, TypeInv, Holds
<1>4. /\ b \notin ToSet(avail) /\ b \notin bhdrlist /\ Has(b, "BUSY")
      /\ \A q \in Proc \ {p} : ~Holds(q, b)
  BY <1>3, Held
<1>5. ~Has(b, "DELWRI") /\ ~Has(b, "ERROR")
  BY <1>2, <1>3 DEF PlaceInv, BufOK
<1>6. /\ F \in SUBSET Flag /\ "BUSY" \in F /\ {"DONE", "DELWRI", "ERROR"} \cap F = {}
      /\ "ASYNC" \in F /\ ("STALE" \in F <=> Has(b, "STALE"))
  BY <1>1, <1>2, <1>3, <1>4, <1>5 DEF TypeInv, Has, Flag
<1> HIDE DEF F
<1>7. TypeInv'
  <2>1. queue' \in Seq(Buf) /\ b_flags' \in [Buf -> SUBSET Flag]
    BY <1>1, <1>2, <1>3, <1>6 DEF TypeInv
  <2>2. /\ \E l \in Locs : pc' = [pc EXCEPT ![p] = l]
        /\ \E r \in [op : Ops, blk : Block \cup {None}, ra : Block \cup {None}] :
             call' = [call EXCEPT ![p] = r]
    BY <1>2, <1>3 DEF Locs, Ops
  <2>3. /\ nbp' \in [Proc -> Buf \cup {None}] /\ pc' \in [Proc -> Locs] /\ cpu' \in Proc \cup {None}
        /\ call' \in [Proc -> [op : Ops, blk : Block \cup {None}, ra : Block \cup {None}]]
    BY <1>1, <1>2, <2>2 DEF TypeInv
  <2> QED
    BY <1>1, <1>2, <2>1, <2>3 DEF TypeInv, lists, hist
<1>8. /\ Others(p) /\ bp'[p] = bp[p] /\ nbp'[p] = None
      /\ pc'[p] = IF bp[p] = None THEN "getblk" ELSE "biowait"
      /\ call'[p].op = "bread" /\ call'[p].blk # None
  BY <1>1, <1>2, <1>3 DEF Others, TypeInv
<1>9. Closes(p)
  BY <1>2, <1>8 DEF Closes
<1>10. bp[p] # None => (b_blkno[bp[p]])' # None
  BY <1>2, <1>3, <1>8
<1>11. ProcOK(p)'
  BY <1>8, <1>10 DEF ProcOK, Getblk
<1>12. ~Holds(p, b)' /\ \A c \in Buf \ {b} : Holds(p, c)' <=> Holds(p, c)
  BY <1>0, <1>2, <1>3, <1>8 DEF Holds
<1>13. UNCHANGED <<b_blkno, bhdrlist>> /\ Distinct(avail)' /\ ToSet(avail)' = ToSet(avail) \ {b}
  BY <1>2, <1>4 DEF lists, PlaceInv, Distinct
<1>14. b_blkno[b] # None
  BY <1>3
<1> QED
  BY <1>2, <1>3, <1>4, <1>6, <1>7, <1>8, <1>9, <1>11, <1>12, <1>13, <1>14, Sent

(* The flags with which bwrite() calls the driver.                         *)
LEMMA WrittenFlags ==
  ASSUME NEW G \in SUBSET Flag
  PROVE  /\ WriteFlags(G) \in SUBSET Flag
         /\ {"READ", "DONE", "ERROR", "DELWRI"} \cap WriteFlags(G) = {}
         /\ \A f \in {"BUSY", "ASYNC", "STALE", "WANTED"} : f \in WriteFlags(G) <=> f \in G
BY DEF WriteFlags, Flag

(* A buffer on the free list is nobody's.                                  *)
LEMMA OnFreeList ==
  ASSUME PlaceInv, NEW b \in ToSet(avail)
  PROVE  /\ b \in Buf /\ ~Has(b, "BUSY") /\ ~Has(b, "ASYNC") /\ b \notin bhdrlist /\ ~AtDevice(b)
         /\ \A q \in Proc : ~Holds(q, b)
<1>1. b \in Buf
  BY Members DEF PlaceInv, TypeInv
<1> QED
  BY <1>1 DEF PlaceInv, BufOK, Free

(* A buffer of a block that is not busy is on the free list.               *)
LEMMA IdleIsFree ==
  ASSUME PlaceInv, NEW b \in Buf, ~Has(b, "BUSY"), b_blkno[b] # None
  PROVE  b \in ToSet(avail)
BY DEF PlaceInv, BufOK, Free

(* bwrite() and bawrite() call the driver.                                 *)
LEMMA StartWriteKeeps ==
  ASSUME PlaceInv, NEW p \in Proc, bwrite(p) \/ bawrite(p)
  PROVE  PlaceInv'
<1> USE BufAssumption
<1>1. TypeInv /\ ProcOK(p)
  BY DEF PlaceInv
<1>0. PICK b : b = bp[p]
  OBVIOUS
<1>2. PICK G : (G = b_flags[b] \/ G = b_flags[b] \cup {"ASYNC"}) /\ StartWrite(p, G)
  BY <1>0 DEF bwrite, bawrite
<1>3. /\ b \in Buf /\ b_blkno[b] \in Block /\ ~AtDevice(b)
      /\ Holds(p, b) /\ nbp[p] = None
      /\ b_addr' \in [Buf -> Data \cup {None}] /\ latest' \in [Block -> Nat]
      /\ lost' \in SUBSET Block /\ astray' \in SUBSET Block
  BY <1>0, <1>2, NewDataFacts DEF StartWrite
<1>4. /\ b \notin ToSet(avail) /\ b \notin bhdrlist /\ Has(b, "BUSY") /\ ~Has(b, "ASYNC")
      /\ \A q \in Proc \ {p} : ~Holds(q, b)
  BY <1>3, Held
<1>5. G \in SUBSET Flag /\ "BUSY" \in G /\ ("STALE" \in G <=> Has(b, "STALE"))
  BY <1>1, <1>2, <1>3, <1>4 DEF TypeInv, Has, Flag
<1> DEFINE F == WriteFlags(G)
           o == IF "ASYNC" \in G THEN "bawrite" ELSE "bwrite"
<1>6. /\ F \in SUBSET Flag /\ "BUSY" \in F /\ {"DONE", "DELWRI", "ERROR"} \cap F = {}
      /\ ("ASYNC" \in F <=> "ASYNC" \in G) /\ ("STALE" \in F <=> Has(b, "STALE"))
  BY <1>5, WrittenFlags
<1> HIDE DEF F
<1>7. /\ pc[p] = "hold" /\ cpu \in {None, p} /\ cpu' = p
      /\ b_flags' = [b_flags EXCEPT ![b] = F] /\ queue' = Append(queue, b)
      /\ pc' = [pc EXCEPT ![p] = "bwrote"]
      /\ call' = [call EXCEPT ![p] = [op |-> o, blk |-> None, ra |-> None]]
      /\ UNCHANGED <<b_blkno, lists, basyncnt, disk, errs, bp, nbp, wchan, hit>>
  BY <1>0, <1>2 DEF StartWrite, NewData, At, Goto, strategy, F
<1>8. TypeInv'
  <2>1. queue' \in Seq(Buf) /\ b_flags' \in [Buf -> SUBSET Flag]
    BY <1>1, <1>3, <1>6, <1>7 DEF TypeInv
  <2>2. \E r \in [op : Ops, blk : Block \cup {None}, ra : Block \cup {None}] :
             call' = [call EXCEPT ![p] = r]
    <3>1. o \in Ops
      BY DEF Ops
    <3> HIDE DEF o
    <3>2. [op |-> o, blk |-> None, ra |-> None]
            \in [op : Ops, blk : Block \cup {None}, ra : Block \cup {None}]
      BY <3>1
    <3> QED
      BY <1>7, <3>2
  <2>3. /\ pc' \in [Proc -> Locs] /\ cpu' \in Proc \cup {None}
        /\ call' \in [Proc -> [op : Ops, blk : Block \cup {None}, ra : Block \cup {None}]]
    BY <1>1, <1>7, <2>2 DEF TypeInv, Locs
  <2> QED
    BY <1>1, <1>3, <1>7, <2>1, <2>3 DEF TypeInv, lists
<1>9. /\ Others(p) /\ bp'[p] = b /\ nbp'[p] = None /\ pc'[p] = "bwrote" /\ call'[p].op = o
  BY <1>0, <1>1, <1>3, <1>7 DEF Others, TypeInv
<1>10. Closes(p)
  BY <1>7, <1>9 DEF Closes
<1>11. (b_blkno[bp[p]])' # None
  BY <1>3, <1>7, <1>9
<1>12. ProcOK(p)'
  BY <1>0, <1>3, <1>9, <1>11 DEF ProcOK
<1>13. ("ASYNC" \in F <=> ~Holds(p, b)') /\ \A c \in Buf \ {b} : Holds(p, c)' <=> Holds(p, c)
  BY <1>0, <1>3, <1>6, <1>7, <1>9 DEF Holds
<1>14. UNCHANGED <<b_blkno, bhdrlist>> /\ Distinct(avail)' /\ ToSet(avail)' = ToSet(avail) \ {b}
  BY <1>4, <1>7 DEF lists, PlaceInv, Distinct
<1>15. b_blkno[b] # None
  BY <1>3
<1> QED
  BY <1>3, <1>4, <1>6, <1>7, <1>8, <1>9, <1>10, <1>12, <1>13, <1>14, <1>15, Sent

(* A delayed write is taken from the free list and goes out: getfreeblk(), *)
(* bflush() and blkflush().                                                *)
LEMMA FlushKeeps ==
  ASSUME PlaceInv, NEW p \in Proc, NEW b \in ToSet(avail), Has(b, "DELWRI"),
         NEW G \in SUBSET Flag, pc[p] \in {"getfree", "bflush", "blkflush"}, cpu \in {None, p},
         cpu' = p,
         \/ G = b_flags[b] \cup {"BUSY"} /\ pc[p] = "blkflush"
            /\ pc' = [pc EXCEPT ![p] = "bwrote"] /\ bp' = [bp EXCEPT ![p] = b]
         \/ /\ pc[p] # "blkflush" /\ pc' = [pc EXCEPT ![p] = pc[p]] /\ bp' = bp
            /\ G \in {b_flags[b] \cup {"BUSY", "ASYNC"}, b_flags[b] \cup {"BUSY", "ASYNC", "AGE"}},
         b_flags' = [b_flags EXCEPT ![b] = WriteFlags(G)], queue' = Append(queue, b),
         avail' = Unlinked(avail, b) \/ (avail' = Tail(avail) /\ b = Head(avail) /\ avail # <<>>),
         basyncnt' \in Int,
         UNCHANGED <<b_blkno, b_addr, flwanted, bhdrlist, disk, errs, call, nbp, wchan, hit, hist>>
  PROVE  PlaceInv'
<1> USE BufAssumption
<1>1. TypeInv /\ ProcOK(p) /\ CloseOK /\ avail \in Seq(Buf) /\ Distinct(avail)
  BY DEF PlaceInv, TypeInv
<1>2. /\ b \in Buf /\ ~Has(b, "ASYNC") /\ b \notin bhdrlist /\ ~AtDevice(b)
      /\ (\A q \in Proc : ~Holds(q, b)) /\ b_blkno[b] # None
  BY OnFreeList, DelayedFlags
<1> DEFINE F == WriteFlags(G)
<1>3. /\ F \in SUBSET Flag /\ "BUSY" \in F /\ {"DONE", "DELWRI", "ERROR"} \cap F = {}
      /\ ("ASYNC" \in F <=> pc[p] # "blkflush") /\ (Has(b, "STALE") => "STALE" \in F)
  BY <1>2, WrittenFlags DEF Has
<1>4. b_flags' = [b_flags EXCEPT ![b] = F]
  OBVIOUS
<1> HIDE DEF F
<1>5. avail' \in Seq(Buf) /\ Distinct(avail)' /\ ToSet(avail)' = ToSet(avail) \ {b}
  <2>1. CASE avail' = Unlinked(avail, b)
    <3>1. /\ Unlinked(avail, b) \in Seq(Buf) /\ Distinct(Unlinked(avail, b))
          /\ ToSet(Unlinked(avail, b)) = ToSet(avail) \ {b}
      BY <1>1, UnlinkedList
    <3>2. avail' \in Seq(Buf) /\ Distinct(avail') /\ ToSet(avail') = ToSet(avail) \ {b}
      BY <2>1, <3>1, Zenon
    <3> QED
      BY <3>2
  <2>2. CASE avail' = Tail(avail) /\ b = Head(avail) /\ avail # <<>>
    <3>1. /\ Tail(avail) \in Seq(Buf) /\ Distinct(Tail(avail))
          /\ ToSet(Tail(avail)) = ToSet(avail) \ {b}
      BY <1>1, <2>2, TailList
    <3>2. avail' \in Seq(Buf) /\ Distinct(avail') /\ ToSet(avail') = ToSet(avail) \ {b}
      BY <2>2, <3>1, Zenon
    <3> QED
      BY <3>2
  <2> QED
    BY <2>1, <2>2
<1>6. TypeInv'
  <2>1. queue' \in Seq(Buf) /\ b_flags' \in [Buf -> SUBSET Flag]
    BY <1>1, <1>2, <1>3, <1>4 DEF TypeInv
  <2>2. /\ pc' \in [Proc -> Locs] /\ cpu' \in Proc \cup {None} /\ bp' \in [Proc -> Buf \cup {None}]
    <3>1. \E l \in Locs : pc' = [pc EXCEPT ![p] = l]
      BY DEF Locs
    <3>2. pc' \in [Proc -> Locs]
      BY <1>1, <3>1 DEF TypeInv
    <3>3. bp' = bp \/ bp' = [bp EXCEPT ![p] = b]
      OBVIOUS
    <3>4. bp' \in [Proc -> Buf \cup {None}]
      BY <1>1, <1>2, <3>3 DEF TypeInv
    <3> QED
      BY <3>2, <3>4
  <2> QED
    BY <1>1, <1>5, <2>1, <2>2 DEF TypeInv, hist
<1>7. /\ Others(p) /\ nbp'[p] = nbp[p] /\ call'[p] = call[p]
      /\ \/ pc[p] = "blkflush" /\ pc'[p] = "bwrote" /\ bp'[p] = b
         \/ pc[p] # "blkflush" /\ pc'[p] = pc[p] /\ bp'[p] = bp[p]
  BY <1>1, <1>2 DEF Others, TypeInv
<1>8. Closes(p)
  BY <1>1, <1>7 DEF Closes, CloseOK
<1>9. ProcOK(p)'
  <2>2. CASE pc[p] = "blkflush"
    <3>1. (b_blkno[bp[p]])' # None
      BY <1>2, <1>7, <2>2
    <3> QED
      BY <1>1, <1>2, <1>7, <2>2, <3>1 DEF ProcOK, None2
  <2>3. CASE pc[p] # "blkflush"
    <3>1. bp'[p] = bp[p] /\ pc'[p] = pc[p] /\ (b_blkno[bp[p]])' = b_blkno[bp[p]]
      BY <1>7, <2>3
    <3> QED
      BY <1>1, <1>7, <2>3, <3>1 DEF ProcOK, None2
  <2> QED
    BY <2>2, <2>3
<1>10. ("ASYNC" \in F <=> ~Holds(p, b)') /\ \A c \in Buf \ {b} : Holds(p, c)' <=> Holds(p, c)
  <2>1. pc[p] = "blkflush" => bp[p] = None /\ nbp[p] = None /\ call[p].op = "blkflush"
    BY <1>1 DEF ProcOK, None2
  <2> QED
    BY <1>2, <1>3, <1>7, <2>1 DEF Holds
<1> QED
  BY <1>2, <1>3, <1>4, <1>5, <1>6, <1>7, <1>8, <1>9, <1>10, Sent

(* Those who write delayed data out.                                       *)
LEMMA FlushersKeep ==
  ASSUME PlaceInv, NEW p \in Proc, GetfreeWrite(p) \/ BflushWrite(p) \/ BlkflushWrite(p)
  PROVE  PlaceInv'
<1> USE BufAssumption
<1>1. TypeInv /\ avail \in Seq(Buf) /\ Distinct(avail) /\ b_flags \in [Buf -> SUBSET Flag]
      /\ basyncnt + 1 \in Int
  BY DEF PlaceInv, TypeInv
<1>2. CASE GetfreeWrite(p)
  <2>1. PICK b : b = Head(avail)
    OBVIOUS
  <2>2. b \in ToSet(avail) /\ b \in Buf /\ avail # <<>>
    BY <1>1, <1>2, <2>1, TailList DEF GetfreeWrite, TakesHead
  <2>3. PICK G : G = b_flags[b] \cup {"BUSY", "ASYNC", "AGE"}
    OBVIOUS
  <2>4. G \in SUBSET Flag
    BY <1>1, <2>2, <2>3 DEF Flag
  <2>5. /\ pc[p] = "getfree" /\ cpu \in {None, p} /\ cpu' = p /\ Has(b, "DELWRI")
        /\ pc' = [pc EXCEPT ![p] = pc[p]] /\ avail' = Tail(avail) /\ basyncnt' \in Int
        /\ b_flags' = [b_flags EXCEPT ![b] = WriteFlags(G)] /\ queue' = Append(queue, b)
        /\ UNCHANGED <<b_blkno, b_addr, flwanted, bhdrlist, disk, errs, call, bp, nbp, wchan, hit, hist>>
    BY <1>1, <1>2, <2>1, <2>2, <2>3 DEF GetfreeWrite, At, Goto, strategy
  <2>6. pc[p] # "blkflush"
    BY <2>5
  <2> QED
    BY <2>1, <2>2, <2>3, <2>4, <2>5, <2>6, FlushKeeps
<1>3. CASE BflushWrite(p)
  <2>1. PICK i \in Delayed :
       /\ b_flags' = [b_flags EXCEPT ![avail[i]] = WriteFlags(@ \cup {"BUSY", "ASYNC"})]
       /\ notavail(avail[i])
       /\ strategy(avail[i])
    BY <1>3 DEF BflushWrite
  <2>2. PICK b : b = avail[i]
    OBVIOUS
  <2>3. b \in ToSet(avail) /\ b \in Buf /\ Has(b, "DELWRI")
    BY <1>1, <2>2, Members DEF Delayed
  <2>4. PICK G : G = b_flags[b] \cup {"BUSY", "ASYNC"}
    OBVIOUS
  <2>5. G \in SUBSET Flag
    BY <1>1, <2>3, <2>4 DEF Flag
  <2>6. /\ pc[p] = "bflush" /\ cpu \in {None, p} /\ cpu' = p
        /\ pc' = [pc EXCEPT ![p] = pc[p]] /\ avail' = Unlinked(avail, b) /\ basyncnt' \in Int
        /\ b_flags' = [b_flags EXCEPT ![b] = WriteFlags(G)] /\ queue' = Append(queue, b)
        /\ UNCHANGED <<b_blkno, b_addr, flwanted, bhdrlist, disk, errs, call, bp, nbp, wchan, hit, hist>>
    BY <1>1, <1>3, <2>1, <2>2, <2>3, <2>4 DEF BflushWrite, At, Goto, strategy, notavail
  <2>7. pc[p] # "blkflush"
    BY <2>6
  <2> QED
    BY <2>3, <2>4, <2>5, <2>6, <2>7, FlushKeeps
<1>4. CASE BlkflushWrite(p)
  <2>1. PICK b \in Hashed(call[p].blk) :
       /\ ~Has(b, "BUSY") /\ Has(b, "DELWRI")
       /\ b_flags' = [b_flags EXCEPT ![b] = WriteFlags(@ \cup {"BUSY"})]
       /\ notavail(b)
       /\ strategy(b)
       /\ bp' = [bp EXCEPT ![p] = b]
    BY <1>4 DEF BlkflushWrite
  <2>2. b \in Buf
    BY DEF Hashed
  <2>3. b_blkno[b] # None
    BY <2>1, <2>2, DelayedFlags
  <2>4. b \in ToSet(avail)
    BY <2>1, <2>2, <2>3, IdleIsFree
  <2>5. PICK G : G = b_flags[b] \cup {"BUSY"}
    OBVIOUS
  <2>6. G \in SUBSET Flag
    BY <1>1, <2>2, <2>5 DEF Flag
  <2>7. /\ pc[p] = "blkflush" /\ cpu \in {None, p} /\ cpu' = p
        /\ pc' = [pc EXCEPT ![p] = "bwrote"] /\ avail' = Unlinked(avail, b) /\ basyncnt' \in Int
        /\ b_flags' = [b_flags EXCEPT ![b] = WriteFlags(G)] /\ queue' = Append(queue, b)
        /\ UNCHANGED <<b_blkno, b_addr, flwanted, bhdrlist, disk, errs, call, nbp, wchan, hit, hist>>
    BY <1>1, <1>4, <2>1, <2>2, <2>5 DEF BlkflushWrite, At, Goto, strategy, notavail, TypeInv
  <2> QED
    BY <2>1, <2>3, <2>4, <2>5, <2>6, <2>7, FlushKeeps
<1> QED
  BY <1>2, <1>3, <1>4

(* p takes a buffer that was nobody's.                                     *)
LEMMA Taken ==
  ASSUME PlaceInv, TypeInv', NEW p \in Proc, Others(p), cpu \in {None, p}, pc'[p] # "bflush",
         NEW b \in Buf, \A q \in Proc : ~Holds(q, b), ~AtDevice(b), queue' = queue,
         Distinct(avail)', ToSet(avail)' = ToSet(avail) \ {b}, bhdrlist' = bhdrlist \ {b},
         \A c \in Buf \ {b} : b_flags'[c] = b_flags[c] /\ b_blkno'[c] = b_blkno[c],
         Has(b, "BUSY")', ~Has(b, "ASYNC")', Has(b, "ERROR")' => Has(b, "DONE")',
         b_blkno'[b] = None \/ (b_blkno'[b] = b_blkno[b] /\ (Has(b, "STALE") => Has(b, "STALE")')),
         Has(b, "DELWRI")' => Has(b, "DONE")' /\ ~Has(b, "ERROR")' /\ b_blkno'[b] # None,
         \A c \in Buf : Holds(p, c)' <=> Holds(p, c) \/ c = b, ProcOK(p)'
  PROVE  PlaceInv'
<1> DEFINE X == {b}
<1>1. \A c \in Buf \ X : Stays(c) /\ (Holds(p, c)' <=> Holds(p, c))
  BY DEF Stays, Has, Free, AtDevice
<1>2. \A q \in Proc \ {p} : ~Holds(q, b)'
  BY DEF Others, Holds
<1>3. BufOK(b)'
  <2>1. /\ ~Free(b)' /\ ~AtDevice(b)' /\ b \notin bhdrlist' /\ Holds(p, b)'
    BY DEF Free, AtDevice
  <2> QED
    BY <1>2, <2>1 DEF BufOK
<1>4. HashOK'
  <2>1. \A c \in Buf : InUse(c)' => InUse(c) /\ b_blkno'[c] = b_blkno[c]
    BY DEF InUse, Has
  <2> QED
    BY <2>1, HashKept
<1>5. Distinct(queue)' /\ Closes(p)
  BY DEF PlaceInv, Distinct, Closes
<1>6. /\ X \in SUBSET Buf /\ (\A c \in X : \A q \in Proc \ {p} : ~Holds(q, c))
      /\ \A c \in X : BufOK(c)'
  BY <1>3
<1> HIDE DEF X
<1> QED
  BY <1>1, <1>4, <1>5, <1>6, Frame

(* getfreeblk() returns a buffer that nobody has.                          *)
LEMMA GotFreeKeeps ==
  ASSUME PlaceInv, NEW p \in Proc, At(p, "getfree"), NEW b \in Buf, NEW cpus \in SUBSET {None, p},
         GotFree(p, b, cpus), \A q \in Proc : ~Holds(q, b), ~AtDevice(b), ~Has(b, "DELWRI"),
         ~Has(b, "ASYNC"),
         avail' \in Seq(Buf), Distinct(avail)', ToSet(avail)' = ToSet(avail) \ {b},
         bhdrlist' = bhdrlist \ {b}, b_blkno' \in [Buf -> Block \cup {None}],
         b_blkno'[b] = None, \A c \in Buf \ {b} : b_blkno'[c] = b_blkno[c],
         b_addr' \in [Buf -> Data \cup {None}],
         UNCHANGED <<flwanted, basyncnt, dev, call, wchan, hit, hist>>
  PROVE  PlaceInv'
<1> USE BufAssumption
<1>1. TypeInv /\ ProcOK(p) /\ BufOK(b)
  BY DEF PlaceInv
<1>2. pc[p] = "getfree" /\ cpu \in {None, p} /\ nbp[p] = None
  BY <1>1 DEF At, ProcOK
<1>3. PICK F \in SUBSET Flag : /\ b_flags' = [b_flags EXCEPT ![b] = F]
                               /\ F \in {{"BUSY", "AGE"}, b_flags[b] \cup {"BUSY"}}
  BY <1>1 DEF GotFree, TypeInv, Flag
<1>4. /\ b_flags' \in [Buf -> SUBSET Flag] /\ b_flags'[b] = F
      /\ \A c \in Buf \ {b} : b_flags'[c] = b_flags[c]
  BY <1>1, <1>3 DEF TypeInv
<1>5. /\ Has(b, "BUSY")' /\ ~Has(b, "ASYNC")' /\ ~Has(b, "DELWRI")'
      /\ Has(b, "ERROR")' => Has(b, "DONE")'
  BY <1>1, <1>3, <1>4 DEF Has, BufOK
<1>6. /\ cpu' \in {None, p} /\ call' = call
      /\ \/ /\ call[p].op = "ngeteblk" /\ pc' = [pc EXCEPT ![p] = "hold"]
            /\ bp' = [bp EXCEPT ![p] = b] /\ nbp' = nbp
         \/ /\ call[p].op # "ngeteblk" /\ pc' = [pc EXCEPT ![p] = "getblk"]
            /\ nbp' = [nbp EXCEPT ![p] = b] /\ bp' = bp
  BY DEF GotFree, Leave
<1>7. TypeInv'
  <2>1. pc' \in [Proc -> Locs]
    BY <1>1, <1>6 DEF TypeInv, Locs
  <2>2. bp' \in [Proc -> Buf \cup {None}] /\ nbp' \in [Proc -> Buf \cup {None}]
    <3>1. (bp' = bp \/ bp' = [bp EXCEPT ![p] = b]) /\ (nbp' = nbp \/ nbp' = [nbp EXCEPT ![p] = b])
      BY <1>6
    <3>2. bp \in [Proc -> Buf \cup {None}] /\ nbp \in [Proc -> Buf \cup {None}]
      BY <1>1 DEF TypeInv
    <3>3. /\ [bp EXCEPT ![p] = b] \in [Proc -> Buf \cup {None}]
          /\ [nbp EXCEPT ![p] = b] \in [Proc -> Buf \cup {None}]
      BY <3>2
    <3> QED
      BY <3>1, <3>2, <3>3, Zenon
  <2> QED
    BY <1>1, <1>4, <1>6, <2>1, <2>2 DEF TypeInv, dev, hist
<1>8. /\ Others(p) /\ call'[p] = call[p]
      /\ \/ /\ call[p].op = "ngeteblk" /\ pc'[p] = "hold" /\ bp'[p] = b /\ nbp'[p] = None
         \/ /\ call[p].op # "ngeteblk" /\ pc'[p] = "getblk" /\ nbp'[p] = b /\ bp'[p] = bp[p]
  BY <1>1, <1>2, <1>6 DEF Others, TypeInv
<1>9. queue' = queue
  BY DEF dev
<1>11. ProcOK(p)'
  <2>1. CASE call[p].op = "ngeteblk"
    <3>1. pc'[p] = "hold" /\ bp'[p] = b /\ nbp'[p] = None /\ call'[p].op = "ngeteblk"
      BY <1>8, <2>1
    <3>2. ~AtDevice(bp[p])'
      BY <1>9, <3>1 DEF AtDevice
    <3> QED
      BY <1>8, <3>1, <3>2 DEF ProcOK
  <2>2. CASE call[p].op # "ngeteblk"
    <3>1. /\ pc'[p] = "getblk" /\ nbp'[p] = b /\ bp'[p] = bp[p] /\ call'[p] = call[p]
          /\ call[p].op \in Getblk /\ call[p].blk # None
      BY <1>1, <1>2, <1>8, <2>2 DEF ProcOK
    <3>2. ~AtDevice(nbp[p])' /\ (b_blkno[nbp[p]])' = None
      BY <1>9, <3>1 DEF AtDevice
    <3>3. bp[p] # b
      BY <1>2 DEF Holds
    <3>4. bp[p] # None => (b_blkno[bp[p]])' # None
      <4>1. bp[p] # None => bp[p] \in Buf \ {b} /\ b_blkno[bp[p]] # None
        BY <1>1, <1>2, <3>3 DEF ProcOK, TypeInv
      <4> QED
        BY <3>1, <4>1
    <3>5. call[p].op # "ahead" => bp[p] = None
      BY <1>1, <1>2 DEF ProcOK
    <3>6. call[p].op \in {"breada", "ahead"} => call[p].ra # None
      BY <1>1 DEF ProcOK
    <3> HIDE DEF Getblk
    <3>7. call[p].op # "blkflush"
      BY <3>1 DEF Getblk
    <3> QED
      BY <3>1, <3>2, <3>3, <3>4, <3>5, <3>6, <3>7 DEF ProcOK
  <2> QED
    BY <2>1, <2>2
<1>12. \A c \in Buf : Holds(p, c)' <=> Holds(p, c) \/ c = b
  <2>1. call[p].op = "ngeteblk" => bp[p] = None
    BY <1>1, <1>2 DEF ProcOK
  <2> QED
    BY <1>2, <1>8, <2>1 DEF Holds
<1>13. pc'[p] # "bflush"
  BY <1>8
<1> QED
  BY <1>2, <1>4, <1>5, <1>7, <1>8, <1>9, <1>11, <1>12, <1>13, Taken

(* getfreeblk() reuses or allocates a buffer.                              *)
LEMMA GetfreeKeeps ==
  ASSUME PlaceInv, NEW p \in Proc, GetfreeReuse(p) \/ GetfreeAlloc(p)
  PROVE  PlaceInv'
<1> USE BufAssumption
<1>1. TypeInv /\ avail \in Seq(Buf) /\ Distinct(avail) /\ \A b \in Buf : BufOK(b)
  BY DEF PlaceInv, TypeInv
<1>2. CASE GetfreeReuse(p)
  <2>1. PICK b : b = Head(avail)
    OBVIOUS
  <2>2. /\ b \in ToSet(avail) /\ b \in Buf
        /\ Tail(avail) \in Seq(Buf) /\ Distinct(Tail(avail)) /\ ToSet(Tail(avail)) = ToSet(avail) \ {b}
    BY <1>1, <1>2, <2>1, TailList DEF GetfreeReuse, TakesHead
  <2>3. /\ At(p, "getfree") /\ ~Has(b, "DELWRI") /\ avail' = Tail(avail) /\ GotFree(p, b, {p})
        /\ b_blkno' = [b_blkno EXCEPT ![b] = None] /\ b_addr' = [b_addr EXCEPT ![b] = None]
        /\ UNCHANGED <<flwanted, bhdrlist, basyncnt, dev, call, wchan, hit, hist>>
    BY <1>2, <2>1 DEF GetfreeReuse
  <2>4. avail' \in Seq(Buf) /\ Distinct(avail') /\ ToSet(avail') = ToSet(avail) \ {b}
    BY <2>2, <2>3, Zenon
  <2>5. /\ ~Has(b, "BUSY") /\ ~Has(b, "ASYNC") /\ b \notin bhdrlist /\ ~AtDevice(b)
        /\ \A q \in Proc : ~Holds(q, b)
    BY <2>2, OnFreeList
  <2>6. bhdrlist' = bhdrlist \ {b} /\ {p} \in SUBSET {None, p}
    BY <2>3, <2>5
  <2>7. /\ b_blkno' \in [Buf -> Block \cup {None}]
        /\ b_blkno'[b] = None /\ (\A c \in Buf \ {b} : b_blkno'[c] = b_blkno[c])
        /\ b_addr' \in [Buf -> Data \cup {None}]
    BY <1>1, <2>2, <2>3 DEF TypeInv
  <2> QED
    BY <2>2, <2>3, <2>4, <2>5, <2>6, <2>7, GotFreeKeeps
<1>3. CASE GetfreeAlloc(p)
  <2>1. PICK b \in bhdrlist : bhdrlist' = bhdrlist \ {b} /\ GotFree(p, b, {None, p})
    BY <1>3 DEF GetfreeAlloc
  <2>2. b \in Buf
    BY <1>1 DEF TypeInv
  <2>3. /\ ~Has(b, "BUSY") /\ b_blkno[b] = None /\ ~AtDevice(b) /\ ~Has(b, "DELWRI")
        /\ ~Has(b, "ASYNC") /\ ~Free(b) /\ \A q \in Proc : ~Holds(q, b)
    BY <1>1, <2>2 DEF BufOK
  <2>4. /\ At(p, "getfree")
        /\ UNCHANGED <<b_blkno, b_addr, avail, flwanted, basyncnt, dev, call, wchan, hit, hist>>
    BY <1>3 DEF GetfreeAlloc
  <2>5. avail' \in Seq(Buf) /\ Distinct(avail') /\ ToSet(avail') = ToSet(avail) \ {b}
    BY <1>1, <2>3, <2>4 DEF Free
  <2>6. /\ b_blkno' \in [Buf -> Block \cup {None}]
        /\ b_blkno'[b] = None /\ (\A c \in Buf \ {b} : b_blkno'[c] = b_blkno[c])
        /\ b_addr' \in [Buf -> Data \cup {None}]
    BY <1>1, <2>3, <2>4 DEF TypeInv
  <2> QED
    BY <2>1, <2>2, <2>3, <2>4, <2>5, <2>6, GotFreeKeeps, {None, p} \in SUBSET {None, p}
<1> QED
  BY <1>2, <1>3

(* The spare buffer is given to the block: no other has it.                *)
LEMMA GetblkNewKeeps ==
  ASSUME PlaceInv, NEW p \in Proc, GetblkNew(p)
  PROVE  PlaceInv'
<1> USE BufAssumption
<1>1. TypeInv /\ ProcOK(p) /\ HashOK
  BY DEF PlaceInv
<1>0. PICK b, k : b = nbp[p] /\ k = call[p].blk
  OBVIOUS
<1>2. /\ pc[p] = "getblk" /\ cpu \in {None, p} /\ cpu' = p /\ ~incore(k) /\ b # None
      /\ b_flags' = [b_flags EXCEPT ![b] = {"BUSY"}] /\ b_blkno' = [b_blkno EXCEPT ![b] = k]
      /\ pc' = [pc EXCEPT ![p] = "got"]
      /\ UNCHANGED <<b_addr, lists, basyncnt, dev, call, bp, nbp, wchan, hit, hist>>
  BY <1>0 DEF GetblkNew, At, Goto
<1>3. b \in Buf /\ k \in Block /\ ~AtDevice(b) /\ b # bp[p] /\ Holds(p, b) /\ call[p].op \in Getblk
  BY <1>0, <1>1, <1>2 DEF ProcOK, TypeInv, Holds
<1>4. /\ b \notin ToSet(avail) /\ b \notin bhdrlist /\ \A q \in Proc \ {p} : ~Holds(q, b)
  BY <1>3, Held
<1>5. TypeInv'
  <2>1. b_flags' \in [Buf -> SUBSET Flag] /\ b_blkno' \in [Buf -> Block \cup {None}]
    BY <1>1, <1>2, <1>3 DEF TypeInv, Flag
  <2>2. pc' \in [Proc -> Locs] /\ cpu' \in Proc \cup {None}
    BY <1>1, <1>2 DEF TypeInv, Locs
  <2> QED
    BY <1>1, <1>2, <2>1, <2>2 DEF TypeInv, lists, dev, hist
<1>6. /\ b_flags'[b] = {"BUSY"} /\ b_blkno'[b] = k
      /\ \A c \in Buf \ {b} : b_flags'[c] = b_flags[c] /\ b_blkno'[c] = b_blkno[c]
  BY <1>1, <1>2, <1>3 DEF TypeInv
<1>7. Others(p) /\ pc'[p] = "got" /\ call'[p] = call[p] /\ bp'[p] = bp[p] /\ nbp'[p] = b
  BY <1>0, <1>1, <1>2 DEF Others, TypeInv
<1>8. InUse(b)'
  BY <1>3, <1>6 DEF InUse, Has
<1>9. UNCHANGED <<avail, bhdrlist, queue>>
  BY <1>2 DEF lists, dev
<1>10. ProcOK(p)'
  <2>1. (b_blkno[nbp[p]])' # None /\ ~AtDevice(nbp[p])'
    BY <1>3, <1>6, <1>7, <1>9 DEF AtDevice
  <2>2. bp[p] # None => (b_blkno[bp[p]])' # None
    <3>1. bp[p] # None => bp[p] \in Buf \ {b} /\ b_blkno[bp[p]] # None
      BY <1>1, <1>2, <1>3 DEF ProcOK, TypeInv
    <3> QED
      BY <1>6, <1>7, <3>1
  <2>3. /\ call[p].op # "ahead" => bp[p] = None
        /\ call[p].op \in {"breada", "ahead"} => call[p].ra # None
    BY <1>1, <1>2 DEF ProcOK
  <2>4. call[p].op # "blkflush" /\ call[p].blk # None
    BY <1>0, <1>3 DEF Getblk
  <2> HIDE DEF Getblk
  <2> QED
    BY <1>2, <1>3, <1>7, <2>1, <2>2, <2>3, <2>4 DEF ProcOK
<1>11. \A c \in Buf : Holds(p, c)' <=> Holds(p, c)
  BY <1>0, <1>2, <1>7 DEF Holds
<1>12. HashOK'
  <2>1. \A c \in Buf : b_blkno[c] = k => ~InUse(c)
    BY <1>2 DEF incore, Hashed, InUse
  <2>2. \A c \in Buf \ {b} : (InUse(c)' <=> InUse(c)) /\ b_blkno'[c] = b_blkno[c]
    BY <1>6 DEF InUse, Has
  <2> QED
    BY <1>1, <1>6, <2>1, <2>2 DEF HashOK
<1>13. BufOK(b)'
  <2>1. /\ ~Free(b)' /\ ~AtDevice(b)' /\ b \notin bhdrlist' /\ Holds(p, b)'
        /\ Has(b, "BUSY")' /\ ~Has(b, "ASYNC")' /\ ~Has(b, "DELWRI")' /\ ~Has(b, "ERROR")'
    BY <1>3, <1>4, <1>6, <1>9, <1>11 DEF Free, AtDevice, Has
  <2>2. \A q \in Proc \ {p} : ~Holds(q, b)'
    BY <1>4, <1>7 DEF Others, Holds
  <2> QED
    BY <2>1, <2>2 DEF BufOK
<1> DEFINE X == {b}
<1>14. /\ X \in SUBSET Buf /\ (\A c \in X : \A q \in Proc \ {p} : ~Holds(q, c))
       /\ \A c \in Buf \ X : Stays(c) /\ (Holds(p, c)' <=> Holds(p, c))
       /\ \A c \in X : BufOK(c)'
  BY <1>3, <1>4, <1>6, <1>9, <1>11, <1>13 DEF Stays, Has, Free, AtDevice
<1>15. Closes(p) /\ Distinct(avail)' /\ Distinct(queue)'
  BY <1>2, <1>7, <1>9 DEF Closes, PlaceInv, Distinct
<1> HIDE DEF X
<1> QED
  BY <1>5, <1>7, <1>10, <1>12, <1>14, <1>15, Frame

(* The buffer of the block is free: p takes it, and releases the spare one.*)
LEMMA GetblkHitKeeps ==
  ASSUME PlaceInv, NEW p \in Proc, GetblkHit(p)
  PROVE  PlaceInv'
<1> USE BufAssumption
<1>1. TypeInv /\ ProcOK(p) /\ avail \in Seq(Buf) /\ Distinct(avail) /\ b_flags \in [Buf -> SUBSET Flag]
  BY DEF PlaceInv, TypeInv
<1>0. PICK s : s = nbp[p]
  OBVIOUS
<1> DEFINE T(b) == [b_flags EXCEPT ![b] = (b_flags[b] \ {"AGE"}) \cup {"BUSY"}]
<1>00. PICK b : b = hit[p]
  OBVIOUS
<1>2. /\ ~Has(b, "BUSY")
      /\ IF s = None
           THEN b_flags' = T(b) /\ notavail(b) /\ UNCHANGED <<wchan, flwanted>>
           ELSE brelse(s, [T(b) EXCEPT ![s] = {"BUSY"}], Unlinked(avail, b))
      /\ nbp' = [nbp EXCEPT ![p] = b]
  BY <1>0, <1>00 DEF GetblkHit
<1>3. /\ pc[p] = "found" /\ cpu \in {None, p} /\ cpu' = p /\ pc' = [pc EXCEPT ![p] = "got"]
      /\ hit' = [hit EXCEPT ![p] = None]
      /\ astray' \in {astray, astray \cup {call[p].blk}}
      /\ UNCHANGED <<b_blkno, b_addr, bhdrlist, basyncnt, dev, call, bp, latest, lost>>
  BY DEF GetblkHit, At, Goto
<1>4. b \in Buf /\ b_blkno[b] = call[p].blk /\ call[p].blk # None /\ call[p].op \in Getblk
  BY <1>00, <1>1, <1>3 DEF ProcOK
<1>5. b \in ToSet(avail)
  BY <1>2, <1>4, IdleIsFree
<1>6. ~Has(b, "ASYNC") /\ b \notin bhdrlist /\ ~AtDevice(b) /\ \A q \in Proc : ~Holds(q, b)
  BY <1>5, OnFreeList
<1>7. /\ Unlinked(avail, b) \in Seq(Buf) /\ Distinct(Unlinked(avail, b))
      /\ ToSet(Unlinked(avail, b)) = ToSet(avail) \ {b}
  BY <1>1, <1>5, UnlinkedList
<1> DEFINE F == (b_flags[b] \ {"AGE"}) \cup {"BUSY"}
<1>8. /\ F \in SUBSET Flag /\ "BUSY" \in F /\ \A f \in Telling \ {"BUSY"} : f \in F <=> Has(b, f)
  BY <1>1, <1>4 DEF Flag, Telling, Has
<1>9. T(b) \in [Buf -> SUBSET Flag] /\ T(b)[b] = F /\ \A c \in Buf \ {b} : T(b)[c] = b_flags[c]
  BY <1>1, <1>4, <1>8
<1> HIDE DEF T, F
<1>10. /\ b_flags' \in [Buf -> SUBSET Flag] /\ b_flags'[b] = F
       /\ \A c \in Buf \ {b, s} : b_flags'[c] = b_flags[c]
       /\ avail' \in Seq(Buf) /\ Distinct(avail)' /\ b \notin ToSet(avail)'
       /\ flwanted' \in BOOLEAN /\ wchan' \in [Proc -> Buf \cup {FreeList, None}]
       /\ s = None => ToSet(avail)' = ToSet(avail) \ {b}
       /\ s # None => /\ s \in Buf /\ s # b /\ ToSet(avail)' = (ToSet(avail) \ {b}) \cup {s}
                      /\ b_flags'[s] = Released({"BUSY"})
  <2>1. CASE s = None
    <3>1. b_flags' = T(b) /\ avail' = Unlinked(avail, b) /\ UNCHANGED <<wchan, flwanted>>
      BY <1>2, <2>1 DEF notavail
    <3>2. avail' \in Seq(Buf) /\ Distinct(avail') /\ ToSet(avail') = ToSet(avail) \ {b}
      BY <1>7, <3>1, Zenon
    <3> QED
      BY <1>1, <1>9, <2>1, <3>1, <3>2 DEF TypeInv
  <2>2. CASE s # None
    <3>1. s \in Buf /\ Holds(p, s)
      BY <1>0, <1>1, <2>2 DEF TypeInv, Holds
    <3>2. s # b /\ s \notin ToSet(avail)
      BY <1>6, <3>1, Held
    <3> DEFINE fl == [T(b) EXCEPT ![s] = {"BUSY"}]
               l == Unlinked(avail, b)
    <3>3. /\ fl \in [Buf -> SUBSET Flag] /\ fl[s] = {"BUSY"} /\ fl[b] = F
          /\ \A c \in Buf \ {b, s} : fl[c] = b_flags[c]
      BY <1>4, <1>9, <3>1, <3>2 DEF Flag
    <3>4. brelse(s, fl, l)
      BY <1>2, <2>2
    <3>5. l \in Seq(Buf) /\ Distinct(l) /\ ToSet(l) = ToSet(avail) \ {b}
      BY <1>7
    <3> HIDE DEF fl, l
    <3>6. /\ avail' \in Seq(Buf) /\ Distinct(avail)' /\ ToSet(avail)' = ToSet(l) \cup {s}
          /\ b_flags' \in [Buf -> SUBSET Flag]
          /\ b_flags'[s] = Released(fl[s]) /\ \A c \in Buf \ {s} : b_flags'[c] = fl[c]
          /\ flwanted' = FALSE
          /\ wchan' \in [Proc -> Buf \cup {FreeList, None}]
      BY <1>1, <3>1, <3>2, <3>3, <3>4, <3>5, BrelseFacts
    <3>7. ToSet(avail)' = (ToSet(avail) \ {b}) \cup {s} /\ b \notin ToSet(avail)'
      BY <3>2, <3>5, <3>6
    <3>8. b_flags'[b] = F /\ \A c \in Buf \ {b, s} : b_flags'[c] = b_flags[c]
      BY <1>4, <3>2, <3>3, <3>6
    <3> QED
      BY <2>2, <3>1, <3>2, <3>3, <3>6, <3>7, <3>8
  <2> QED
    BY <2>1, <2>2
<1>11. TypeInv'
  <2>1. /\ pc' \in [Proc -> Locs] /\ nbp' \in [Proc -> Buf \cup {None}] /\ cpu' \in Proc \cup {None}
    BY <1>1, <1>2, <1>3, <1>4 DEF TypeInv, Locs
  <2>2. hit' \in [Proc -> Buf \cup {None}]
    BY <1>1, <1>3 DEF TypeInv
  <2>3. call[p].blk \in Block
    BY <1>1, <1>4 DEF TypeInv
  <2>4. astray' \in SUBSET Block
    BY <1>1, <1>3, <2>3 DEF TypeInv
  <2> QED
    BY <1>1, <1>3, <1>10, <2>1, <2>2, <2>4 DEF TypeInv, dev
<1>12. Others(p) /\ pc'[p] = "got" /\ call'[p] = call[p] /\ bp'[p] = bp[p] /\ nbp'[p] = b
  BY <1>1, <1>2, <1>3 DEF Others, TypeInv
<1>13. UNCHANGED <<b_blkno, bhdrlist, queue>>
  BY <1>3 DEF dev
<1>14. \A f \in Telling \ {"BUSY"} : Has(b, f)' <=> Has(b, f)
  BY <1>8, <1>10 DEF Has
<1>15. {"ASYNC", "STALE", "DONE", "ERROR", "DELWRI"} \subseteq Telling \ {"BUSY"}
  BY DEF Telling, Flag
<1>16. ~AtDevice(b)' /\ Has(b, "BUSY")' /\ (Has(b, "STALE") => Has(b, "STALE")')
  BY <1>6, <1>8, <1>10, <1>13, <1>14, <1>15 DEF Has, AtDevice
<1>17. ProcOK(p)'
  <2>1. (b_blkno[nbp[p]])' # None /\ ~AtDevice(nbp[p])'
    BY <1>4, <1>12, <1>13, <1>16 DEF AtDevice
  <2>2. bp[p] # b /\ (bp[p] # None => (b_blkno[bp[p]])' # None)
    <3>1. bp[p] # b
      BY <1>3, <1>6 DEF Holds
    <3>2. bp[p] # None => b_blkno[bp[p]] # None
      BY <1>1, <1>3 DEF ProcOK
    <3> QED
      BY <1>12, <1>13, <3>1, <3>2
  <2>3. /\ call[p].op # "ahead" => bp[p] = None
        /\ call[p].op \in {"breada", "ahead"} => call[p].ra # None
    BY <1>1, <1>3 DEF ProcOK
  <2>4. call[p].op # "blkflush"
    BY <1>4 DEF Getblk
  <2> HIDE DEF Getblk
  <2> QED
    BY <1>4, <1>12, <2>1, <2>2, <2>3, <2>4 DEF ProcOK
<1>18. \A c \in Buf : Holds(p, c)' <=> (Holds(p, c) /\ c # s) \/ c = b
  <2>1. bp[p] = s => s = None
    BY <1>0, <1>1 DEF ProcOK
  <2> QED
    BY <1>0, <1>3, <1>12, <2>1 DEF Holds
<1>19. CASE s = None
  <2>1. ToSet(avail)' = ToSet(avail) \ {b} /\ \A c \in Buf \ {b} : b_flags'[c] = b_flags[c]
    BY <1>10, <1>19
  <2>2. /\ ~Has(b, "ASYNC")' /\ (Has(b, "ERROR")' => Has(b, "DONE")')
        /\ Has(b, "DELWRI")' => Has(b, "DONE")' /\ ~Has(b, "ERROR")'
    BY <1>4, <1>6, <1>14, <1>15 DEF PlaceInv, BufOK
  <2>3. b_blkno'[b] # None /\ b_blkno'[b] = b_blkno[b] /\ bhdrlist' = bhdrlist \ {b}
    BY <1>4, <1>6, <1>13
  <2>4. \A c \in Buf : Holds(p, c)' <=> Holds(p, c) \/ c = b
    BY <1>18, <1>19
  <2> QED
    BY <1>3, <1>4, <1>5, <1>6, <1>10, <1>11, <1>12, <1>13, <1>16, <1>17, <2>1, <2>2, <2>3, <2>4,
       Taken
<1>20. CASE s # None
  <2> DEFINE X == {b, s}
  <2>1. s \in Buf /\ s # b /\ ToSet(avail)' = (ToSet(avail) \ {b}) \cup {s} /\ Holds(p, s)
        /\ b_flags'[s] = Released({"BUSY"}) /\ b_blkno[s] = None
    BY <1>0, <1>1, <1>3, <1>10, <1>20 DEF Holds, ProcOK
  <2>2. /\ s \notin ToSet(avail) /\ s \notin bhdrlist /\ ~AtDevice(s)
        /\ \A q \in Proc \ {p} : ~Holds(q, s)
    BY <1>0, <1>1, <2>1, <1>20, Held DEF ProcOK
  <2>3. \A q \in Proc \ {p} : \A c \in X : ~Holds(q, c) /\ ~Holds(q, c)'
    BY <1>6, <1>12, <2>2 DEF Others, Holds
  <2>4. \A c \in Buf \ X : Stays(c) /\ (Holds(p, c)' <=> Holds(p, c))
    BY <1>10, <1>13, <1>18, <2>1 DEF Stays, Has, Free, AtDevice
  <2>5. BufOK(b)'
    <3>1. /\ ~Free(b)' /\ b \notin bhdrlist' /\ b_blkno'[b] # None /\ Holds(p, b)'
      BY <1>4, <1>6, <1>10, <1>13, <1>18 DEF Free
    <3>2. /\ ~Has(b, "ASYNC")' /\ (Has(b, "ERROR")' => Has(b, "DONE")')
          /\ Has(b, "DELWRI")' => Has(b, "DONE")' /\ ~Has(b, "ERROR")'
      BY <1>4, <1>6, <1>14, <1>15 DEF PlaceInv, BufOK
    <3> QED
      BY <1>16, <2>3, <3>1, <3>2 DEF BufOK
  <2>6. BufOK(s)'
    <3>1. Released({"BUSY"}) = {}
      BY DEF Released
    <3>2. /\ Free(s)' /\ s \notin bhdrlist' /\ ~AtDevice(s)' /\ ~Holds(p, s)'
          /\ \A f \in Flag : ~Has(s, f)'
      BY <1>13, <1>18, <2>1, <2>2, <3>1 DEF Free, AtDevice, Has
    <3>3. {"BUSY", "ASYNC", "DONE", "ERROR", "DELWRI"} \subseteq Flag
      BY DEF Flag
    <3> QED
      BY <2>3, <3>2, <3>3 DEF BufOK
  <2>7. HashOK'
    <3>1. \A c \in Buf : InUse(c)' => InUse(c) /\ b_blkno'[c] = b_blkno[c]
      BY <1>10, <1>13, <1>16, <2>1 DEF InUse, Has
    <3> QED
      BY <3>1, HashKept
  <2>8. Closes(p) /\ Distinct(queue)' /\ X \in SUBSET Buf
    BY <1>3, <1>4, <1>12, <1>13, <2>1 DEF Closes, PlaceInv, Distinct
  <2>9. \A c \in X : BufOK(c)'
    BY <2>5, <2>6
  <2> HIDE DEF X
  <2> QED
    BY <1>10, <1>11, <1>12, <1>17, <2>3, <2>4, <2>7, <2>8, <2>9, Frame
<1> QED
  BY <1>19, <1>20

(* A buffer whose request the device completes.                            *)
LEMMA OldestFacts ==
  ASSUME PlaceInv, NEW b \in Buf, Oldest(b)
  PROVE  /\ AtDevice(b) /\ Has(b, "BUSY") /\ ~Has(b, "DONE") /\ ~Has(b, "DELWRI") /\ ~Has(b, "ERROR")
         /\ b_blkno[b] \in Block /\ b \notin ToSet(avail) /\ b \notin bhdrlist
         /\ \A c \in ToSet(queue) : b_blkno[c] = b_blkno[b] => ~Before(queue, c, b)
<1>1. TypeInv /\ BufOK(b) /\ queue \in Seq(Buf) /\ Distinct(queue)
  BY DEF PlaceInv, TypeInv
<1>2. PICK i \in 1 .. Len(queue) : queue[i] = b /\ \A j \in 1 .. (i - 1) : b_blkno[queue[j]] # b_blkno[b]
  BY <1>1 DEF Oldest
<1>3. AtDevice(b)
  BY <1>1, <1>2, Members DEF AtDevice
<1>4. ASSUME NEW c, b_blkno[c] = b_blkno[b], Before(queue, c, b) PROVE FALSE
  <2>1. PICK j \in DOMAIN queue, k \in DOMAIN queue : j < k /\ queue[j] = c /\ queue[k] = b
    BY <1>4 DEF Before
  <2>2. k = i /\ j \in 1 .. (i - 1)
    BY <1>1, <1>2, <2>1 DEF Distinct
  <2> QED
    BY <1>2, <1>4, <2>1, <2>2
<1> QED
  BY <1>1, <1>3, <1>4 DEF BufOK, TypeInv, Free

(* What biodone() does to the lists and to the flags.                      *)
LEMMA BiodoneFacts ==
  ASSUME PlaceInv, NEW b \in Buf, AtDevice(b), b \notin ToSet(avail), NEW G \in SUBSET Flag,
         biodone(b, G)
  PROVE  /\ queue' \in Seq(Buf) /\ Distinct(queue)' /\ ToSet(queue)' = ToSet(queue) \ {b}
         /\ \A x, y : Before(queue', x, y) => Before(queue, x, y)
         /\ avail' \in Seq(Buf) /\ Distinct(avail)'
         /\ ToSet(avail)' = ToSet(avail) \cup (IF "ASYNC" \in G THEN {b} ELSE {})
         /\ b_flags' \in [Buf -> SUBSET Flag] /\ \A c \in Buf \ {b} : b_flags'[c] = b_flags[c]
         /\ b_flags'[b] = IF "ASYNC" \in G THEN Released(G) ELSE G \ {"WANTED"}
         /\ flwanted' \in BOOLEAN /\ wchan' \in [Proc -> Buf \cup {FreeList, None}]
         /\ basyncnt' \in Int
         /\ UNCHANGED <<b_blkno, bhdrlist, cpu, pc, call, bp, nbp, hit>>
<1>1. /\ TypeInv /\ queue \in Seq(Buf) /\ Distinct(queue) /\ avail \in Seq(Buf) /\ Distinct(avail)
      /\ b_flags \in [Buf -> SUBSET Flag] /\ basyncnt \in Int
  BY DEF PlaceInv, TypeInv
<1>2. /\ queue' \in Seq(Buf) /\ Distinct(queue)' /\ ToSet(queue)' = ToSet(queue) \ {b}
      /\ \A x, y : Before(queue', x, y) => Before(queue, x, y)
  <2>1. /\ Unlinked(queue, b) \in Seq(Buf) /\ Distinct(Unlinked(queue, b))
        /\ ToSet(Unlinked(queue, b)) = ToSet(queue) \ {b}
        /\ \A x, y : Before(Unlinked(queue, b), x, y) => Before(queue, x, y)
    BY <1>1, UnlinkedList DEF AtDevice
  <2>2. queue' = Unlinked(queue, b)
    BY DEF biodone
  <2>3. /\ queue' \in Seq(Buf) /\ Distinct(queue') /\ ToSet(queue') = ToSet(queue) \ {b}
        /\ \A x, y : Before(queue', x, y) => Before(queue, x, y)
    BY <2>1, <2>2, Zenon
  <2> QED
    BY <2>3
<1> DEFINE fl == [b_flags EXCEPT ![b] = G]
<1>3. fl \in [Buf -> SUBSET Flag] /\ fl[b] = G /\ \A c \in Buf \ {b} : fl[c] = b_flags[c]
  BY <1>1
<1>4. UNCHANGED <<b_blkno, bhdrlist, cpu, pc, call, bp, nbp, hit>>
  BY DEF biodone, proc
<1>5. CASE "ASYNC" \in G
  <2>1. brelse(b, fl, avail) /\ basyncnt' \in Int
    BY <1>1, <1>5 DEF biodone
  <2> HIDE DEF fl
  <2>2. /\ avail' \in Seq(Buf) /\ Distinct(avail)' /\ ToSet(avail)' = ToSet(avail) \cup {b}
        /\ b_flags' \in [Buf -> SUBSET Flag]
        /\ b_flags'[b] = Released(fl[b]) /\ \A c \in Buf \ {b} : b_flags'[c] = fl[c]
        /\ flwanted' = FALSE
        /\ wchan' \in [Proc -> Buf \cup {FreeList, None}]
    BY <1>1, <1>3, <2>1, BrelseFacts
  <2> QED
    BY <1>2, <1>3, <1>4, <1>5, <2>1, <2>2
<1>6. CASE "ASYNC" \notin G
  <2>1. /\ b_flags' = [fl EXCEPT ![b] = fl[b] \ {"WANTED"}]
        /\ wchan' = Awake({b}) /\ UNCHANGED <<basyncnt, avail, flwanted>>
    BY <1>6 DEF biodone
  <2> HIDE DEF fl
  <2>2. /\ b_flags' \in [Buf -> SUBSET Flag] /\ b_flags'[b] = G \ {"WANTED"}
        /\ \A c \in Buf \ {b} : b_flags'[c] = b_flags[c]
    BY <1>3, <2>1
  <2>3. wchan' \in [Proc -> Buf \cup {FreeList, None}] /\ flwanted' \in BOOLEAN
    BY <1>1, <2>1 DEF Awake, TypeInv
  <2>4. /\ avail' \in Seq(Buf) /\ Distinct(avail)' /\ ToSet(avail)' = ToSet(avail) \cup {}
        /\ basyncnt' \in Int
    BY <1>1, <2>1 DEF Distinct
  <2> QED
    BY <1>2, <1>4, <1>6, <2>2, <2>3, <2>4
<1> QED
  BY <1>5, <1>6

(* The interrupt: nobody moves, and only the owner of the buffer goes on   *)
(* to have it.                                                             *)
LEMMA BiodoneKeeps ==
  ASSUME PlaceInv, NEW b \in Buf, Oldest(b), NEW G \in SUBSET Flag,
         G \in {b_flags[b] \cup {"DONE"}, b_flags[b] \cup {"DONE", "ERROR"}}, biodone(b, G),
         b_addr' \in [Buf -> Data \cup {None}], disk' \in [Block -> Data \cup {None}], errs' \in Nat,
         lost' \in SUBSET Block, UNCHANGED <<latest, astray>>
  PROVE  PlaceInv'
<1> USE BufAssumption
<1>1. TypeInv /\ BufOK(b) /\ CloseOK
  BY DEF PlaceInv
<1>2. /\ AtDevice(b) /\ Has(b, "BUSY") /\ ~Has(b, "DONE") /\ ~Has(b, "DELWRI") /\ ~Has(b, "ERROR")
      /\ b_blkno[b] \in Block /\ b \notin ToSet(avail) /\ b \notin bhdrlist
  BY OldestFacts
<1>3. /\ queue' \in Seq(Buf) /\ Distinct(queue)' /\ ToSet(queue)' = ToSet(queue) \ {b}
      /\ avail' \in Seq(Buf) /\ Distinct(avail)'
      /\ ToSet(avail)' = ToSet(avail) \cup (IF "ASYNC" \in G THEN {b} ELSE {})
      /\ b_flags' \in [Buf -> SUBSET Flag] /\ (\A c \in Buf \ {b} : b_flags'[c] = b_flags[c])
      /\ b_flags'[b] = IF "ASYNC" \in G THEN Released(G) ELSE G \ {"WANTED"}
      /\ flwanted' \in BOOLEAN /\ wchan' \in [Proc -> Buf \cup {FreeList, None}]
      /\ basyncnt' \in Int
      /\ UNCHANGED <<b_blkno, bhdrlist, cpu, pc, call, bp, nbp, hit>>
  BY <1>2, BiodoneFacts
<1>4. TypeInv'
  BY <1>1, <1>3 DEF TypeInv
<1>5. \A q \in Proc, c \in Buf : Holds(q, c)' <=> Holds(q, c)
  BY <1>3 DEF Holds
<1>6. ("ASYNC" \in G <=> Has(b, "ASYNC")) /\ "DONE" \in G /\ "BUSY" \in G /\ "DELWRI" \notin G
      /\ ("STALE" \in G <=> Has(b, "STALE"))
  BY <1>2 DEF Has
<1>7. ASSUME NEW c \in Buf PROVE BufOK(c)'
  <2>1. CASE c # b
    <3>1. /\ \A f \in Flag : Has(c, f)' <=> Has(c, f)
          /\ Free(c)' <=> Free(c)
          /\ AtDevice(c)' <=> AtDevice(c)
          /\ b_blkno'[c] = b_blkno[c] /\ bhdrlist' = bhdrlist
      BY <1>3, <2>1 DEF Has, Free, AtDevice
    <3>2. {"BUSY", "ASYNC", "DONE", "DELWRI", "ERROR"} \subseteq Flag
      BY DEF Flag
    <3>3. BufOK(c)
      BY DEF PlaceInv
    <3> HIDE DEF Has, Free, AtDevice, Holds
    <3> QED
      BY <1>5, <3>1, <3>2, <3>3 DEF BufOK
  <2>2. CASE c = b /\ "ASYNC" \in G
    <3>1. /\ Free(b)' /\ ~AtDevice(b)' /\ b \notin bhdrlist'
          /\ ~Has(b, "BUSY")' /\ ~Has(b, "ASYNC")' /\ ~Has(b, "ERROR")' /\ ~Has(b, "DELWRI")'
      BY <1>2, <1>3, <1>6, <2>2, ReleasedFlags DEF Free, AtDevice, Has
    <3>2. \A q \in Proc : ~Holds(q, b)'
      BY <1>1, <1>5, <1>6, <2>2 DEF BufOK
    <3> QED
      BY <2>2, <3>1, <3>2 DEF BufOK
  <2>3. CASE c = b /\ "ASYNC" \notin G
    <3>1. /\ ~Free(b)' /\ ~AtDevice(b)' /\ b \notin bhdrlist'
          /\ Has(b, "BUSY")' /\ ~Has(b, "ASYNC")' /\ Has(b, "DONE")' /\ ~Has(b, "DELWRI")'
      BY <1>2, <1>3, <1>6, <2>3 DEF Free, AtDevice, Has
    <3>2. /\ \E q \in Proc : Holds(q, b)'
          /\ \A q, r \in Proc : Holds(q, b)' /\ Holds(r, b)' => q = r
      BY <1>1, <1>2, <1>5, <1>6, <2>3 DEF BufOK
    <3> QED
      BY <2>3, <3>1, <3>2 DEF BufOK
  <2> QED
    BY <2>1, <2>2, <2>3
<1>8. \A c \in Buf : (InUse(c)' => InUse(c)) /\ (AtDevice(c)' => AtDevice(c)) /\ b_blkno'[c] = b_blkno[c]
  BY <1>3, <1>6, ReleasedFlags DEF InUse, Has, AtDevice
<1>9. ASSUME NEW q \in Proc PROVE ProcOK(q)'
  <2>1. ProcOK(q) /\ bp[q] \in Buf \cup {None} /\ nbp[q] \in Buf \cup {None} /\ BufOK(b)
    BY <1>1 DEF PlaceInv, TypeInv
  <2>2. nbp[q] # None => (AtDevice(nbp[q])' => AtDevice(nbp[q]))
    BY <1>3, <1>8, <2>1 DEF AtDevice
  <2>3. bp[q] # None => (AtDevice(bp[q])' => AtDevice(bp[q]))
    BY <1>3, <1>8, <2>1 DEF AtDevice
  <2> QED
    BY <1>3, <2>1, <2>2, <2>3 DEF ProcOK, None2
<1>10. CloseOK' /\ HashOK'
  BY <1>1, <1>3, <1>8, HashKept DEF CloseOK
<1> QED
  BY <1>3, <1>4, <1>7, <1>9, <1>10 DEF PlaceInv

(* The interrupts of the device.                                           *)
LEMMA InterruptKeeps ==
  ASSUME PlaceInv, NEW b \in Buf, Interrupt(b)
  PROVE  PlaceInv'
<1> USE BufAssumption
<1>1. TypeInv /\ b_flags[b] \in SUBSET Flag
  BY DEF PlaceInv, TypeInv
<1>2. /\ b_flags[b] \cup {"DONE"} \in SUBSET Flag
      /\ b_flags[b] \cup {"DONE", "ERROR"} \in SUBSET Flag
  BY <1>1 DEF Flag
<1>3. Oldest(b)
  BY DEF Interrupt, ReadDone, WriteDone, IOError
<1>4. b_blkno[b] \in Block /\ AtDevice(b)
  BY <1>3, OldestFacts
<1>5. CASE ReadDone(b)
  <2>1. b_addr' \in [Buf -> Data \cup {None}]
    BY <1>1, <1>4, <1>5 DEF ReadDone, TypeInv
  <2>2. UNCHANGED <<disk, errs, latest, lost, astray>> /\ biodone(b, b_flags[b] \cup {"DONE"})
    BY <1>5 DEF ReadDone, hist
  <2>3. disk' \in [Block -> Data \cup {None}] /\ errs' \in Nat /\ lost' \in SUBSET Block
    BY <1>1, <2>2 DEF TypeInv
  <2> QED
    BY <1>2, <1>3, <2>1, <2>2, <2>3, BiodoneKeeps
<1>6. CASE WriteDone(b)
  <2>1. disk' \in [Block -> Data \cup {None}]
    BY <1>1, <1>4, <1>6 DEF WriteDone, TypeInv
  <2>2. UNCHANGED <<b_addr, errs, latest, lost, astray>> /\ biodone(b, b_flags[b] \cup {"DONE"})
    BY <1>6 DEF WriteDone, hist
  <2>3. b_addr' \in [Buf -> Data \cup {None}] /\ errs' \in Nat /\ lost' \in SUBSET Block
    BY <1>1, <2>2 DEF TypeInv
  <2> QED
    BY <1>2, <1>3, <2>1, <2>2, <2>3, BiodoneKeeps
<1>7. CASE IOError(b)
  <2>1. UNCHANGED <<b_addr, disk, latest, astray>> /\ biodone(b, b_flags[b] \cup {"DONE", "ERROR"})
        /\ errs' = errs + 1
    BY <1>7 DEF IOError
  <2>2. lost' \in SUBSET Block
    BY <1>1, <1>4, <1>7 DEF IOError, TypeInv
  <2>3. b_addr' \in [Buf -> Data \cup {None}] /\ errs' \in Nat /\ disk' \in [Block -> Data \cup {None}]
    BY <1>1, <2>1 DEF TypeInv
  <2> QED
    BY <1>2, <1>3, <2>1, <2>2, <2>3, BiodoneKeeps
<1> QED
  BY <1>5, <1>6, <1>7 DEF Interrupt

(* The cache starts empty.                                                 *)
LEMMA InitPlace ==
  ASSUME Init
  PROVE  PlaceInv
<1> USE BufAssumption
<1>1. TypeInv
  <2>1. <<>> \in Seq(Buf) /\ NoCall \in [op : Ops, blk : Block \cup {None}, ra : Block \cup {None}]
    BY DEF NoCall, Ops
  <2>2. /\ b_flags \in [Buf -> SUBSET Flag] /\ b_blkno \in [Buf -> Block \cup {None}]
        /\ b_addr \in [Buf -> Data \cup {None}]
        /\ bhdrlist \in SUBSET Buf /\ basyncnt \in Int /\ errs \in Nat
    BY DEF Init
  <2>7. flwanted \in BOOLEAN
    BY Zenon DEF Init
  <2>6. avail \in Seq(Buf) /\ queue \in Seq(Buf)
    BY <2>1 DEF Init
  <2>3. disk \in [Block -> Data \cup {None}] /\ latest \in [Block -> Nat] /\ lost \in SUBSET Block
        /\ astray \in SUBSET Block
    BY DEF Init, Data
  <2>4. /\ cpu \in Proc \cup {None} /\ pc \in [Proc -> Locs]
        /\ bp \in [Proc -> Buf \cup {None}] /\ nbp \in [Proc -> Buf \cup {None}]
        /\ hit \in [Proc -> Buf \cup {None}] /\ wchan \in [Proc -> Buf \cup {FreeList, None}]
    BY DEF Init, Locs
  <2>5. call \in [Proc -> [op : Ops, blk : Block \cup {None}, ra : Block \cup {None}]]
    BY <2>1 DEF Init
  <2> QED
    BY <2>2, <2>3, <2>4, <2>5, <2>6, <2>7 DEF TypeInv
<1>2. ToSet(avail) = {} /\ ToSet(queue) = {} /\ Distinct(avail) /\ Distinct(queue)
  BY DEF Init, ToSet, Distinct
<1>3. \A b \in Buf : BufOK(b)
  BY <1>2 DEF Init, BufOK, Has, Free, AtDevice, Holds
<1>4. \A p \in Proc : ProcOK(p)
  BY DEF Init, ProcOK, None2, NoCall
<1>5. CloseOK /\ HashOK
  BY DEF Init, CloseOK, HashOK, InUse
<1> QED
  BY <1>1, <1>2, <1>3, <1>4, <1>5 DEF PlaceInv

(* Every step leaves the buffers where they belong.                        *)
LEMMA NextPlace ==
  ASSUME PlaceInv, [Next]_vars
  PROVE  PlaceInv'
<1>1. ASSUME NEW p \in Proc, Step(p) PROVE PlaceInv'
  BY <1>1, ReturnKeeps, GoKeeps, BiowaitReadKeeps, GetblkFindKeeps, GotKeeps, AheadKeeps, SleepKeeps, BinvalKeeps, ReleaseKeeps,
     BdwriteKeeps, AheadValidKeeps, GotReadKeeps, AheadReadKeeps, StartWriteKeeps, FlushersKeep,
     GetfreeKeeps, GetblkNewKeeps, GetblkHitKeeps DEF Step
<1>2. CASE UNCHANGED vars
  BY <1>2 DEF vars, bufs, lists, dev, proc, hist, PlaceInv, TypeInv, Distinct, BufOK, ProcOK,
              CloseOK, HashOK, InUse, None2, Has, Free, AtDevice, Holds
<1> QED
  BY <1>1, <1>2, RequestKeeps, InterruptKeeps DEF Next

(* The buffers are where they belong, always.                              *)
THEOREM PlaceCorrect == Spec => []PlaceInv
<1>1. Init => PlaceInv
  BY InitPlace
<1>2. PlaceInv /\ [Next]_vars => PlaceInv'
  BY NextPlace
<1> QED
  BY <1>1, <1>2, PTL DEF Spec

(* getblk() never leaves two buffers for the same block, although it may   *)
(* sleep between the search of the hash queue and the use of a new buffer. *)
THEOREM OneBufferAlways == Spec => []OneBuffer
<1>1. ASSUME PlaceInv PROVE OneBuffer
  <2> SUFFICES ASSUME NEW k \in Block PROVE Cardinality(Hashed(k)) <= 1
    BY DEF OneBuffer
  <2>1. \A b, c \in Hashed(k) : b = c
    BY <1>1, BufAssumption DEF PlaceInv, HashOK, Hashed, InUse
  <2>2. CASE Hashed(k) = {}
    BY <2>2, FS_EmptySet
  <2>3. CASE Hashed(k) # {}
    <3>1. PICK b : Hashed(k) = {b}
      BY <2>1, <2>3
    <3> QED
      BY <3>1, FS_Singleton
  <2> QED
    BY <2>2, <2>3
<1> QED
  BY <1>1, PlaceCorrect, PTL

(* A buffer has exactly one owner: the free list, the list of headers, one *)
(* process, or an asynchronous request.                                    *)
THEOREM OwnedOnceAlways == Spec => []OwnedOnce
<1>1. ASSUME PlaceInv PROVE OwnedOnce
  <2>1. TypeInv /\ Distinct(avail)
    BY <1>1 DEF PlaceInv
  <2>2. ASSUME NEW p \in Proc, NEW b \in Buf PROVE b \in Owned(p) <=> Holds(p, b)
    BY BufAssumption DEF Owned, Holds
  <2>3. ASSUME NEW b \in Buf
        PROVE  LET free == b \in ToSet(avail)
                   async == b \in ToSet(queue) /\ Has(b, "ASYNC")
                   holders == {p \in Proc : b \in Owned(p)} IN
               /\ Has(b, "BUSY") <=> ~free /\ b \notin bhdrlist
               /\ Cardinality(holders) + (IF free THEN 1 ELSE 0)
                    + (IF b \in bhdrlist THEN 1 ELSE 0) + (IF async THEN 1 ELSE 0) = 1
    <3> DEFINE holders == {p \in Proc : b \in Owned(p)}
    <3>1. BufOK(b)
      BY <1>1 DEF PlaceInv
    <3>2. \A p : p \in holders <=> p \in Proc /\ Holds(p, b)
      BY <2>2
    <3> HIDE DEF holders
    <3>3. CASE \E p \in Proc : Holds(p, b)
      <4>1. PICK p \in Proc : Holds(p, b)
        BY <3>3
      <4>2. holders = {p}
        BY <3>1, <3>2, <4>1 DEF BufOK
      <4>3. Cardinality(holders) = 1
        BY <4>2, FS_Singleton
      <4>4. Has(b, "BUSY") /\ ~Has(b, "ASYNC") /\ b \notin ToSet(avail) /\ b \notin bhdrlist
        BY <3>1, <4>1 DEF BufOK, Free
      <4> QED
        BY <4>3, <4>4 DEF holders
    <3>4. CASE ~ \E p \in Proc : Holds(p, b)
      <4>1. holders = {}
        BY <3>2, <3>4
      <4>2. Cardinality(holders) = 0
        BY <4>1, FS_EmptySet
      <4>3. CASE Has(b, "BUSY")
        <5>1. Has(b, "ASYNC") /\ b \in ToSet(queue) /\ b \notin ToSet(avail) /\ b \notin bhdrlist
          BY <3>1, <3>4, <4>3 DEF BufOK, Free, AtDevice
        <5> QED
          BY <4>2, <4>3, <5>1 DEF holders
      <4>4. CASE ~Has(b, "BUSY")
        <5>1. ~Has(b, "ASYNC") /\ (b \in ToSet(avail) <=> b \notin bhdrlist)
          BY <3>1, <4>4 DEF BufOK, Free
        <5> QED
          BY <4>2, <4>4, <5>1 DEF holders
      <4> QED
        BY <4>3, <4>4
    <3> QED
      BY <3>3, <3>4
  <2> QED
    BY <2>1, <2>3 DEF OwnedOnce, Distinct
<1> QED
  BY <1>1, PlaceCorrect, PTL

-----------------------------------------------------------------------------
(* Nobody sleeps in vain.                                                  *)

(* A buffer on which one may sleep.                                        *)
Waited(c) == Has(c, "BUSY") /\ Has(c, "WANTED") /\ b_blkno[c] # None

(* A step that wakes nobody, and puts no buffer on the free list.          *)
LEMMA WakeQuiet ==
  ASSUME WakeInv, UNCHANGED <<wchan, flwanted>>, avail = <<>> => avail' = <<>>,
         \A c \in Buf : Waited(c) => Waited(c)'
  PROVE  WakeInv'
<1> SUFFICES ASSUME NEW q \in Proc PROVE SleepOK(q)'
  BY DEF WakeInv
<1>1. SleepOK(q)
  BY DEF WakeInv
<1>2. wchan'[q] = wchan[q]
  OBVIOUS
<1>3. wchan[q] \in Buf => Waited(wchan[q])'
  <2> SUFFICES ASSUME NEW c \in Buf, c = wchan[q] PROVE Waited(wchan[q])'
    OBVIOUS
  <2>1. Waited(c)'
    BY <1>1 DEF SleepOK, Waited
  <2> QED
    BY <1>2, <2>1 DEF Waited, Has
<1> QED
  BY <1>1, <1>2, <1>3 DEF SleepOK, Waited, Has

(* The flags of one buffer change.                                         *)
LEMMA WakeOne ==
  ASSUME TypeInv, WakeInv, UNCHANGED <<wchan, flwanted, b_blkno>>, avail = <<>> => avail' = <<>>,
         NEW b, NEW F, b_flags' = [b_flags EXCEPT ![b] = F],
         ~Has(b, "BUSY") \/ b_flags[b] \cap {"BUSY", "WANTED"} \subseteq F
  PROVE  WakeInv'
<1>1. \A c \in Buf : Waited(c) => Waited(c)'
  BY DEF Waited, Has, TypeInv
<1> QED
  BY <1>1, WakeQuiet

(* brelse() wakes those who wait for the buffer, and those who wait for    *)
(* any.                                                                    *)
LEMMA WakeRelease ==
  ASSUME TypeInv, WakeInv, NEW b \in Buf, NEW fl \in [Buf -> SUBSET Flag], NEW list,
         brelse(b, fl, list), b_blkno' = b_blkno,
         \A c \in Buf : Waited(c) => {"BUSY", "WANTED"} \subseteq fl[c]
  PROVE  WakeInv'
<1> USE BufAssumption
<1> SUFFICES ASSUME NEW q \in Proc PROVE SleepOK(q)'
  BY DEF WakeInv
<1>1. SleepOK(q) /\ wchan[q] \in Buf \cup {FreeList, None}
  BY DEF WakeInv, TypeInv
<1>2. wchan'[q] = None \/ (wchan'[q] = wchan[q] /\ wchan[q] \in Buf \ {b})
  BY <1>1 DEF SleepOK, brelse, Awake, Waited
<1>3. \A c \in Buf \ {b} : b_flags'[c] = fl[c]
  BY DEF brelse
<1>4. wchan'[q] = wchan[q] /\ wchan[q] \in Buf \ {b} => Waited(wchan[q])'
  <2> SUFFICES ASSUME NEW c \in Buf \ {b}, c = wchan[q], wchan'[q] = wchan[q]
               PROVE  Waited(wchan[q])'
    OBVIOUS
  <2>1. Waited(c)
    BY <1>1 DEF SleepOK, Waited
  <2> QED
    BY <1>3, <2>1 DEF Waited, Has
<1> QED
  BY <1>2, <1>4 DEF SleepOK, Waited, Has

(* The steps that leave buffers and lists alone.                           *)
LEMMA WakeStill ==
  ASSUME WakeInv, UNCHANGED <<bufs, lists, wchan>>
  PROVE  WakeInv'
<1>1. \A c \in Buf : Waited(c) => Waited(c)'
  BY DEF Waited, Has, bufs
<1> QED
  BY <1>1, WakeQuiet DEF lists

(* The steps of a process that set flags of the buffer it has.             *)
LEMMA WakeFlags ==
  ASSUME PlaceInv, WakeInv, NEW p \in Proc,
         GotRead(p) \/ AheadRead(p) \/ bwrite(p) \/ bawrite(p) \/ binval(p) \/ GetblkNew(p)
  PROVE  WakeInv'
<1>1. TypeInv /\ ProcOK(p)
  BY DEF PlaceInv
<1>2. CASE GotRead(p)
  BY <1>1, <1>2, WakeOne DEF GotRead, lists
<1>3. CASE AheadRead(p)
  BY <1>1, <1>3, WakeOne DEF AheadRead, lists
<1>4. ASSUME NEW G, b_flags[bp[p]] \subseteq G, StartWrite(p, G) PROVE WakeInv'
  <2>1. b_flags[bp[p]] \cap {"BUSY", "WANTED"} \subseteq WriteFlags(G)
    BY <1>4 DEF WriteFlags
  <2> QED
    BY <1>1, <1>4, <2>1, WakeOne DEF StartWrite, lists
<1>5. CASE binval(p)
  <2>1. \A c \in Buf : Waited(c) => Waited(c)'
    BY <1>5 DEF binval, Waited, Has
  <2> QED
    BY <1>5, <2>1, WakeQuiet DEF binval, lists
<1>6. CASE GetblkNew(p)
  <2>1. b_blkno[nbp[p]] = None
    BY <1>1, <1>6 DEF GetblkNew, At, ProcOK
  <2>2. \A c \in Buf : Waited(c) => Waited(c)'
    BY <1>1, <1>6, <2>1 DEF GetblkNew, Waited, Has, TypeInv
  <2> QED
    BY <1>6, <2>2, WakeQuiet DEF GetblkNew, lists
<1>7. CASE bwrite(p) \/ bawrite(p)
  BY <1>4, <1>7 DEF bwrite, bawrite
<1> QED
  BY <1>2, <1>3, <1>5, <1>6, <1>7

(* The steps that take a free buffer: nobody waits for one.                *)
LEMMA WakeTaken ==
  ASSUME PlaceInv, WakeInv, NEW p \in Proc,
         \/ GetfreeWrite(p) \/ GetfreeReuse(p) \/ GetfreeAlloc(p)
         \/ BflushWrite(p) \/ BlkflushWrite(p)
  PROVE  WakeInv'
<1> USE BufAssumption
<1>1. TypeInv /\ avail \in Seq(Buf) /\ Distinct(avail) /\ ToSet(<<>>) = {}
  BY DEF PlaceInv, TypeInv, ToSet
<1>2. ASSUME NEW b \in Buf, NEW F, b_flags' = [b_flags EXCEPT ![b] = F], ~Has(b, "BUSY"),
             UNCHANGED <<wchan, flwanted>>, avail = <<>> => avail' = <<>>,
             b_blkno' = b_blkno \/ b_blkno' = [b_blkno EXCEPT ![b] = None]
      PROVE  WakeInv'
  <2>1. \A c \in Buf : Waited(c) => Waited(c)'
    BY <1>1, <1>2 DEF Waited, Has, TypeInv
  <2> QED
    BY <1>2, <2>1, WakeQuiet
<1>3. CASE GetfreeWrite(p) \/ GetfreeReuse(p)
  <2>1. avail # <<>> /\ Head(avail) \in ToSet(avail)
    BY <1>1, <1>3, TailList DEF GetfreeWrite, GetfreeReuse, TakesHead
  <2>2. Head(avail) \in Buf /\ ~Has(Head(avail), "BUSY")
    BY <2>1, OnFreeList
  <2>3. \E F : b_flags' = [b_flags EXCEPT ![Head(avail)] = F]
    BY <1>3 DEF GetfreeWrite, GetfreeReuse, GotFree
  <2>4. /\ UNCHANGED <<wchan, flwanted>>
        /\ b_blkno' = b_blkno \/ b_blkno' = [b_blkno EXCEPT ![Head(avail)] = None]
    BY <1>3 DEF GetfreeWrite, GetfreeReuse
  <2> QED
    BY <1>2, <2>1, <2>2, <2>3, <2>4
<1>4. CASE GetfreeAlloc(p)
  <2>1. PICK b \in bhdrlist : GotFree(p, b, {None, p})
    BY <1>4 DEF GetfreeAlloc
  <2>2. b \in Buf /\ ~Has(b, "BUSY")
    BY <1>1 DEF PlaceInv, BufOK, TypeInv
  <2>3. \E F : b_flags' = [b_flags EXCEPT ![b] = F]
    BY <2>1 DEF GotFree
  <2>4. UNCHANGED <<wchan, flwanted, avail, b_blkno>>
    BY <1>4 DEF GetfreeAlloc
  <2> QED
    BY <1>2, <2>2, <2>3, <2>4
<1>5. CASE BflushWrite(p)
  <2>1. PICK i \in Delayed :
          b_flags' = [b_flags EXCEPT ![avail[i]] = WriteFlags(@ \cup {"BUSY", "ASYNC"})]
    BY <1>5 DEF BflushWrite
  <2>2. avail[i] \in ToSet(avail)
    BY <1>1, Members DEF Delayed
  <2>3. avail # <<>> /\ avail[i] \in Buf /\ ~Has(avail[i], "BUSY")
    BY <1>1, <2>2, OnFreeList
  <2>4. UNCHANGED <<wchan, flwanted, b_blkno>>
    BY <1>5 DEF BflushWrite
  <2> QED
    BY <1>2, <2>1, <2>3, <2>4
<1>6. CASE BlkflushWrite(p)
  <2>1. PICK b \in Hashed(call[p].blk) :
          /\ ~Has(b, "BUSY") /\ Has(b, "DELWRI")
          /\ b_flags' = [b_flags EXCEPT ![b] = WriteFlags(@ \cup {"BUSY"})]
    BY <1>6 DEF BlkflushWrite
  <2>2. b \in Buf
    BY DEF Hashed
  <2>3. b_blkno[b] # None
    BY <2>1, <2>2, DelayedFlags
  <2>4. avail # <<>>
    BY <1>1, <2>1, <2>2, <2>3, IdleIsFree
  <2>5. UNCHANGED <<wchan, flwanted, b_blkno>>
    BY <1>6 DEF BlkflushWrite
  <2> QED
    BY <1>2, <2>1, <2>2, <2>4, <2>5
<1> QED
  BY <1>3, <1>4, <1>5, <1>6

(* The buffer of the block is taken, and the spare one released.           *)
LEMMA WakeHit ==
  ASSUME PlaceInv, WakeInv, NEW p \in Proc, GetblkHit(p)
  PROVE  WakeInv'
<1> USE BufAssumption
<1>1. TypeInv /\ ProcOK(p) /\ ToSet(<<>>) = {} /\ b_flags \in [Buf -> SUBSET Flag]
  BY DEF PlaceInv, TypeInv, ToSet
<1> DEFINE T(b) == [b_flags EXCEPT ![b] = (b_flags[b] \ {"AGE"}) \cup {"BUSY"}]
<1>0. PICK b : b = hit[p]
  OBVIOUS
<1>2. /\ ~Has(b, "BUSY")
      /\ IF nbp[p] = None
           THEN b_flags' = T(b) /\ notavail(b) /\ UNCHANGED <<wchan, flwanted>>
           ELSE brelse(nbp[p], [T(b) EXCEPT ![nbp[p]] = {"BUSY"}], Unlinked(avail, b))
  BY <1>0 DEF GetblkHit
<1>3. b \in Buf /\ b_blkno[b] # None /\ b_blkno' = b_blkno /\ pc[p] = "found"
  BY <1>0, <1>1 DEF GetblkHit, At, ProcOK
<1>4. avail # <<>>
  BY <1>1, <1>2, <1>3, IdleIsFree
<1>5. CASE nbp[p] = None
  BY <1>1, <1>2, <1>3, <1>4, <1>5, WakeOne
<1>6. CASE nbp[p] # None
  <2>1. nbp[p] \in Buf /\ b_blkno[nbp[p]] = None
    BY <1>1, <1>3, <1>6 DEF TypeInv, ProcOK
  <2> DEFINE fl == [T(b) EXCEPT ![nbp[p]] = {"BUSY"}]
  <2>2. T(b) \in [Buf -> SUBSET Flag] /\ \A c \in Buf \ {b} : T(b)[c] = b_flags[c]
    BY <1>1, <1>3 DEF Flag
  <2> HIDE DEF T
  <2>3. fl \in [Buf -> SUBSET Flag] /\ \A c \in Buf \ {b, nbp[p]} : fl[c] = b_flags[c]
    BY <2>1, <2>2 DEF Flag
  <2>4. brelse(nbp[p], fl, Unlinked(avail, b))
    BY <1>2, <1>6
  <2> HIDE DEF fl
  <2>5. \A c \in Buf : Waited(c) => {"BUSY", "WANTED"} \subseteq fl[c]
    BY <1>2, <2>1, <2>3 DEF Waited, Has
  <2> QED
    BY <1>1, <1>3, <2>1, <2>3, <2>4, <2>5, WakeRelease
<1> QED
  BY <1>5, <1>6

(* The steps that release a buffer.                                        *)
LEMMA WakeReleases ==
  ASSUME PlaceInv, WakeInv, NEW p \in Proc,
         Release(p) \/ BiowaitWritten(p) \/ bdwrite(p) \/ AheadValid(p)
  PROVE  WakeInv'
<1> USE BufAssumption
<1>1. TypeInv /\ ProcOK(p) /\ b_flags \in [Buf -> SUBSET Flag]
  BY DEF PlaceInv, TypeInv
<1>2. \A c \in Buf : Waited(c) => {"BUSY", "WANTED"} \subseteq b_flags[c]
  BY DEF Waited, Has
<1>3. CASE Release(p) \/ BiowaitWritten(p)
  <2>1. bp[p] \in Buf /\ brelse(bp[p], b_flags, avail) /\ b_blkno' = b_blkno
    BY <1>1, <1>3 DEF Release, BiowaitWritten, At, ProcOK, TypeInv
  <2> QED
    BY <1>1, <1>2, <2>1, WakeRelease
<1>4. CASE bdwrite(p)
  <2>1. bp[p] \in Buf
    BY <1>4, NewDataFacts DEF bdwrite
  <2> DEFINE fl == [b_flags EXCEPT ![bp[p]] = @ \cup {"DELWRI", "DONE"}]
  <2>2. fl \in [Buf -> SUBSET Flag] /\ \A c \in Buf : b_flags[c] \subseteq fl[c]
    BY <1>1, <2>1 DEF Flag
  <2>3. brelse(bp[p], fl, avail) /\ b_blkno' = b_blkno
    BY <1>4 DEF bdwrite
  <2> HIDE DEF fl
  <2>4. \A c \in Buf : Waited(c) => {"BUSY", "WANTED"} \subseteq fl[c]
    BY <1>2, <2>2
  <2> QED
    BY <1>1, <2>1, <2>2, <2>3, <2>4, WakeRelease
<1>5. CASE AheadValid(p)
  <2>1. nbp[p] \in Buf /\ brelse(nbp[p], b_flags, avail) /\ b_blkno' = b_blkno
    BY <1>1, <1>5 DEF AheadValid, At, ProcOK, TypeInv
  <2> QED
    BY <1>1, <1>2, <2>1, WakeRelease
<1> QED
  BY <1>3, <1>4, <1>5

(* p goes to sleep.                                                        *)
LEMMA WakeSleep ==
  ASSUME PlaceInv, WakeInv, NEW p \in Proc, BusySleep(p) \/ BiowaitSleep(p) \/ GetfreeSleep(p)
  PROVE  WakeInv'
<1> USE BufAssumption
<1>1. TypeInv /\ ProcOK(p)
  BY DEF PlaceInv
<1>2. CASE BusySleep(p) \/ BiowaitSleep(p)
  <2>1. PICK b \in Buf : /\ b_flags' = [b_flags EXCEPT ![b] = @ \cup {"WANTED"}]
                         /\ wchan' = [wchan EXCEPT ![p] = b]
                         /\ Has(b, "BUSY") /\ b_blkno[b] # None
    <3>1. CASE BusySleep(p)
      <4>1. PICK b \in Buf, l \in {"getblk", "blkflush"} :
               /\ Busy(p, b, l)
               /\ b_flags' = [b_flags EXCEPT ![b] = @ \cup {"WANTED"}]
               /\ Sleep(p, b, l)
        BY <3>1 DEF BusySleep
      <4> QED
        BY <4>1, BusyFacts DEF Sleep
    <3>2. CASE BiowaitSleep(p)
      <4>1. bp[p] \in Buf /\ b_blkno[bp[p]] # None /\ Holds(p, bp[p])
        BY <1>1, <3>2 DEF ProcOK, BiowaitSleep, At, TypeInv, Holds
      <4>2. Has(bp[p], "BUSY")
        BY <4>1, Held
      <4> QED
        BY <3>2, <4>1, <4>2 DEF BiowaitSleep, Sleep
    <3> QED
      BY <1>2, <3>1, <3>2
  <2>2. UNCHANGED <<b_blkno, avail, flwanted>>
    BY <1>2 DEF BusySleep, BiowaitSleep, lists
  <2>3. \A c \in Buf : Waited(c) \/ c = b => Waited(c)'
    BY <1>1, <2>1, <2>2 DEF Waited, Has, TypeInv
  <2> SUFFICES ASSUME NEW q \in Proc PROVE SleepOK(q)'
    BY DEF WakeInv
  <2>4. SleepOK(q)
    BY DEF WakeInv
  <2>5. wchan'[q] = IF q = p THEN b ELSE wchan[q]
    BY <1>1, <2>1 DEF TypeInv
  <2>6. ASSUME NEW c \in Buf, wchan'[q] = c PROVE Waited(c)'
    BY <2>3, <2>4, <2>5, <2>6 DEF SleepOK, Waited
  <2> QED
    BY <2>2, <2>4, <2>5, <2>6 DEF SleepOK, Waited, Has
<1>3. CASE GetfreeSleep(p)
  <2>1. /\ wchan' = [wchan EXCEPT ![p] = FreeList] /\ flwanted' /\ avail' = <<>>
        /\ UNCHANGED <<b_flags, b_blkno>>
    BY <1>3 DEF GetfreeSleep, Sleep, bufs
  <2> SUFFICES ASSUME NEW q \in Proc PROVE SleepOK(q)'
    BY DEF WakeInv
  <2>2. SleepOK(q) /\ wchan'[q] = IF q = p THEN FreeList ELSE wchan[q]
    BY <1>1, <2>1 DEF WakeInv, TypeInv
  <2> QED
    BY <2>1, <2>2 DEF SleepOK, Has
<1> QED
  BY <1>2, <1>3

(* The interrupt.                                                          *)
LEMMA WakeInterrupt ==
  ASSUME PlaceInv, WakeInv, NEW b \in Buf, Interrupt(b)
  PROVE  WakeInv'
<1> USE BufAssumption
<1>1. TypeInv /\ b_flags \in [Buf -> SUBSET Flag]
  BY DEF PlaceInv, TypeInv
<1>2. PICK G : /\ G \in {b_flags[b] \cup {"DONE"}, b_flags[b] \cup {"DONE", "ERROR"}}
               /\ biodone(b, G)
  BY DEF Interrupt, ReadDone, WriteDone, IOError
<1> DEFINE fl == [b_flags EXCEPT ![b] = G]
<1>3. /\ fl \in [Buf -> SUBSET Flag] /\ fl[b] = G /\ b_flags[b] \subseteq G
      /\ \A c \in Buf \ {b} : fl[c] = b_flags[c]
  BY <1>1, <1>2 DEF Flag
<1>4. CASE "ASYNC" \in G
  <2>1. brelse(b, fl, avail) /\ b_blkno' = b_blkno
    BY <1>2, <1>4 DEF biodone
  <2> HIDE DEF fl
  <2>2. \A c \in Buf : Waited(c) => {"BUSY", "WANTED"} \subseteq fl[c]
    BY <1>3 DEF Waited, Has
  <2> QED
    BY <1>1, <1>3, <2>1, <2>2, WakeRelease
<1>5. CASE "ASYNC" \notin G
  <2>1. /\ b_flags' = [fl EXCEPT ![b] = @ \ {"WANTED"}] /\ b_blkno' = b_blkno
        /\ wchan' = Awake({b}) /\ UNCHANGED <<avail, flwanted>>
    BY <1>2, <1>5 DEF biodone
  <2> HIDE DEF fl
  <2>2. \A c \in Buf \ {b} : b_flags'[c] = b_flags[c]
    BY <1>3, <2>1
  <2> SUFFICES ASSUME NEW q \in Proc PROVE SleepOK(q)'
    BY DEF WakeInv
  <2>3. SleepOK(q) /\ wchan'[q] = IF wchan[q] = b THEN None ELSE wchan[q]
    BY <1>1, <2>1 DEF WakeInv, Awake
  <2>4. ASSUME NEW c \in Buf, wchan'[q] = c PROVE Waited(c)'
    BY <2>1, <2>2, <2>3, <2>4 DEF SleepOK, Waited, Has
  <2> QED
    BY <2>1, <2>3, <2>4 DEF SleepOK, Waited, Has
<1> QED
  BY <1>4, <1>5

(* Every step leaves the sleepers someone who will wake them.              *)
LEMMA NextWake ==
  ASSUME PlaceInv, WakeInv, [Next]_vars
  PROVE  WakeInv'
<1>1. ASSUME NEW p \in Proc, Request(p) PROVE WakeInv'
  BY <1>1, WakeStill DEF Request, bread, getblk, blkflush, breada, ngeteblk, bflush, bdwait, close,
                         Call
<1>2. ASSUME NEW p \in Proc, Step(p) PROVE WakeInv'
  <2>1. CASE \/ GetblkFind(p) \/ GetblkMiss(p) \/ GotReady(p) \/ GotAhead(p)
             \/ AheadBegin(p) \/ AheadSkip(p) \/ BiowaitRead(p) \/ BwriteAsync(p) \/ BwriteSync(p) \/ BflushReturn(p)
             \/ BlkflushReturn(p) \/ BdwaitDelay(p) \/ BdwaitReturn(p)
    BY <2>1, WakeStill DEF GetblkFind, GetblkMiss, GotReady, GotAhead, AheadBegin, AheadSkip, BiowaitRead,
         BwriteAsync, BwriteSync, BflushReturn, BlkflushReturn, BdwaitDelay, BdwaitReturn
  <2> QED
    BY <1>2, <2>1, WakeFlags, WakeTaken, WakeHit, WakeReleases, WakeSleep DEF Step
<1>3. CASE UNCHANGED vars
  BY <1>3, WakeStill DEF vars
<1> QED
  BY <1>1, <1>2, <1>3, WakeInterrupt DEF Next

(* Whoever sleeps on a buffer or on the free list will be awakened:        *)
(* brelse() and biodone() are still to come and see the wanted flag.       *)
THEOREM NoWakeupLost == Spec => []NoLostWakeup
<1>1. Init => WakeInv
  BY BufAssumption DEF Init, WakeInv, SleepOK
<1>2. PlaceInv /\ WakeInv /\ [Next]_vars => WakeInv'
  BY NextWake
<1>3. WakeInv => NoLostWakeup
  BY DEF WakeInv, SleepOK, NoLostWakeup
<1> QED
  BY <1>1, <1>2, <1>3, PlaceCorrect, PTL DEF Spec

-----------------------------------------------------------------------------
(* What the buffers and the disk hold.                                     *)

(* The order of the requests.                                              *)
LEMMA BeforeFacts ==
  ASSUME NEW s \in Seq(Buf)
  PROVE  /\ \A x, y : Before(s, x, y) => x \in ToSet(s) /\ y \in ToSet(s)
         /\ \A x, y \in ToSet(s) : x = y \/ Before(s, x, y) \/ Before(s, y, x)
<1>1. DOMAIN s = 1 .. Len(s)
  OBVIOUS
<1>2. ASSUME NEW x, NEW y, Before(s, x, y) PROVE x \in ToSet(s) /\ y \in ToSet(s)
  BY <1>1, <1>2, Members DEF Before
<1>3. ASSUME NEW x \in ToSet(s), NEW y \in ToSet(s), x # y
      PROVE  Before(s, x, y) \/ Before(s, y, x)
  <2>1. PICK i \in 1 .. Len(s), j \in 1 .. Len(s) : s[i] = x /\ s[j] = y
    BY Members
  <2>2. i < j \/ j < i
    BY <1>3, <2>1
  <2> QED
    BY <1>1, <2>1, <2>2 DEF Before
<1> QED
  BY <1>2, <1>3

(* The only buffer in use for its block.                                   *)
LEMMA OnlyOne ==
  ASSUME PlaceInv, NEW b \in Buf, InUse(b), NEW c \in Buf, c # b, b_blkno[c] = b_blkno[b]
  PROVE  /\ ~InUse(c) /\ Has(c, "STALE")
         /\ ContentOK(c) => ~Has(c, "DELWRI") /\ ~Kept(c)
<1>1. ~InUse(c)
  BY DEF PlaceInv, HashOK
<1>2. Has(c, "STALE")
  BY <1>1 DEF InUse
<1> QED
  BY <1>1, <1>2 DEF ContentOK

(* A buffer that says the same as before, or nothing before and after.     *)
Same(c) ==
  /\ b_blkno'[c] = b_blkno[c] /\ b_addr'[c] = b_addr[c]
  /\ AtDevice(c)' <=> AtDevice(c)
  /\ Has(c, "DELWRI")' <=> Has(c, "DELWRI")
  /\ Has(c, "STALE") => Has(c, "STALE")'
  /\ (Kept(c) \/ Has(c, "DELWRI"))' /\ Has(c, "STALE")' =>
       (Kept(c) \/ Has(c, "DELWRI")) /\ Has(c, "STALE")
  /\ AtDevice(c) => (Has(c, "READ")' <=> Has(c, "READ"))
  /\ InUse(c)' /\ Has(c, "DONE")' /\ ~Has(c, "ERROR")' => Has(c, "DONE") /\ ~Has(c, "ERROR")
Vacant(c) ==
  /\ ~AtDevice(c) /\ ~AtDevice(c)' /\ ~Has(c, "DELWRI") /\ ~Has(c, "DELWRI")'
  /\ ~(InUse(c)' /\ Has(c, "DONE")')
  /\ b_blkno'[c] # None => ~Has(c, "STALE")'

SameBlock(k) == latest'[k] = latest[k] /\ disk'[k] = disk[k] /\ (k \in lost' <=> k \in lost)

LEMMA ContentKept ==
  ASSUME NEW k \in Block, SameBlock(k), NEW c \in Buf, b_blkno[c] = k, ContentOK(c), Same(c)
  PROVE  ContentOK(c)'
<1>1. (Writing(c)' <=> Writing(c)) /\ (InUse(c)' => InUse(c))
  BY DEF Same, Writing, InUse
<1>2. Current(b_blkno[c])' = Current(b_blkno[c])
  BY DEF SameBlock, Current, Same
<1> QED
  BY <1>1, <1>2 DEF Same, ContentOK, SameBlock

LEMMA DiskKept ==
  ASSUME NEW k \in Block, DiskOK(k), SameBlock(k),
         \A c \in Buf : b_blkno[c] = k /\ b_addr[c] = Current(k) /\ (Has(c, "DELWRI") \/ Writing(c)) =>
           /\ b_blkno'[c] = k /\ b_addr'[c] = b_addr[c]
           /\ Has(c, "DELWRI")' \/ Writing(c)'
  PROVE  DiskOK(k)'
<1>1. Current(k)' = Current(k)
  BY DEF SameBlock, Current
<1> QED
  BY <1>1 DEF DiskOK, SameBlock

LEMMA OrderedKept ==
  ASSUME NEW x \in Buf, NEW y \in Buf, Ordered(x, y), Same(x), Same(y),
         Before(queue', x, y) => Before(queue, x, y)
  PROVE  Ordered(x, y)'
<1>1. (Writing(x)' <=> Writing(x)) /\ (Writing(y)' <=> Writing(y))
  BY DEF Same, Writing
<1> QED
  BY <1>1 DEF Same, Ordered

(* A step that says nothing new about the block.                           *)
LEMMA BlockQuiet ==
  ASSUME PlaceInv, PlaceInv', NEW k \in Block, BlockInv(k), SameBlock(k),
         \A c \in Buf : b_blkno[c] = k \/ b_blkno'[c] = k => Same(c) \/ Vacant(c),
         \A x, y \in Buf : b_blkno[x] = k /\ b_blkno[y] = k /\ Before(queue', x, y) =>
                             Before(queue, x, y)
  PROVE  BlockInv(k)'
<1> USE BufAssumption
<1>1. /\ \A b \in Buf : b_blkno[b] = k => ContentOK(b)
      /\ \A b, c \in Buf : b_blkno[b] = k /\ b_blkno[c] = k => Ordered(b, c)
      /\ DiskOK(k)
  BY DEF BlockInv
<1>2. k # None
  OBVIOUS
<1>3. ASSUME NEW c \in Buf, b_blkno'[c] = k, ~Same(c)
      PROVE  /\ ContentOK(c)' /\ ~AtDevice(c)' /\ ~Has(c, "DELWRI")'
  BY <1>2, <1>3 DEF Vacant, ContentOK, Writing
<1>4. ASSUME NEW c \in Buf, b_blkno'[c] = k, Same(c) PROVE b_blkno[c] = k /\ ContentOK(c)'
  <2>1. b_blkno[c] = k
    BY <1>4 DEF Same
  <2> QED
    BY <1>1, <1>4, <2>1, ContentKept
<1>5. ASSUME NEW x \in Buf, NEW y \in Buf, b_blkno'[x] = k, b_blkno'[y] = k PROVE Ordered(x, y)'
  <2>1. Before(queue', x, y) => AtDevice(x)' /\ AtDevice(y)'
    BY BeforeFacts DEF PlaceInv, TypeInv, AtDevice
  <2>2. CASE Same(x) /\ Same(y)
    BY <1>1, <1>4, <1>5, <2>2, OrderedKept
  <2>3. CASE ~Same(x) \/ ~Same(y)
    BY <1>3, <1>5, <2>1, <2>3 DEF Ordered, Writing
  <2> QED
    BY <2>2, <2>3
<1>6. DiskOK(k)'
  <2>1. \A c \in Buf : b_blkno[c] = k /\ (Has(c, "DELWRI") \/ Writing(c)) =>
           /\ b_blkno'[c] = k /\ b_addr'[c] = b_addr[c]
           /\ Has(c, "DELWRI")' \/ Writing(c)'
    BY DEF Same, Vacant, Writing
  <2> QED
    BY <1>1, <2>1, DiskKept
<1> QED
  BY <1>3, <1>4, <1>5, <1>6 DEF BlockInv

(* A step that says nothing new about any block.                           *)
LEMMA DataQuiet ==
  ASSUME PlaceInv, PlaceInv', DataInv, UNCHANGED <<queue, disk, latest, lost>>,
         astray \subseteq astray',
         \A c \in Buf : \/ Same(c) \/ Vacant(c)
                        \/ b_blkno'[c] = b_blkno[c] /\ b_blkno[c] \in astray'
  PROVE  DataInv'
<1> SUFFICES ASSUME NEW k \in Block, k \notin astray' PROVE BlockInv(k)'
  BY DEF DataInv
<1>1. BlockInv(k) /\ SameBlock(k)
  BY DEF DataInv, SameBlock
<1>2. \A c \in Buf : b_blkno[c] = k \/ b_blkno'[c] = k => Same(c) \/ Vacant(c)
  OBVIOUS
<1>3. \A x, y \in Buf : b_blkno[x] = k /\ b_blkno[y] = k /\ Before(queue', x, y) =>
                          Before(queue, x, y)
  OBVIOUS
<1> QED
  BY <1>1, <1>2, <1>3, BlockQuiet

(* A step about one buffer, and its block.                                 *)
LEMMA DataFrame ==
  ASSUME PlaceInv, PlaceInv', DataInv, astray' = astray, NEW b \in Buf, NEW k \in Block,
         b_blkno[b] = k, b_blkno'[b] = k,
         \A c \in Buf \ {b} : Same(c),
         \A j \in Block \ {k} : SameBlock(j),
         \A x, y : Before(queue', x, y) => Before(queue, x, y) \/ x = b \/ y = b,
         BlockInv(k) => BlockInv(k)'
  PROVE  DataInv'
<1> SUFFICES ASSUME NEW j \in Block, j \notin astray PROVE BlockInv(j)'
  BY DEF DataInv
<1>1. BlockInv(j)
  BY DEF DataInv
<1>2. CASE j = k
  BY <1>1, <1>2
<1>3. CASE j # k
  <2>1. /\ \A c \in Buf : b_blkno[c] = j \/ b_blkno'[c] = j => Same(c) \/ Vacant(c)
        /\ \A x, y \in Buf : b_blkno[x] = j /\ b_blkno[y] = j /\ Before(queue', x, y) =>
                               Before(queue, x, y)
    BY <1>3
  <2> QED
    BY <1>1, <1>3, <2>1, BlockQuiet
<1> QED
  BY <1>2, <1>3

(* A buffer whose flags change in nothing that matters.                    *)
LEMMA SameFlags ==
  ASSUME NEW c, b_blkno'[c] = b_blkno[c], b_addr'[c] = b_addr[c], queue' = queue,
         \A f \in {"DELWRI", "STALE", "READ", "DONE", "ERROR"} : f \in b_flags'[c] <=> f \in b_flags[c],
         Kept(c)' /\ Has(c, "STALE") => Kept(c)
  PROVE  Same(c)
BY DEF Same, Has, AtDevice, InUse

(* The steps that leave the buffers alone, or only mark them as wanted.    *)
LEMMA DataStill ==
  ASSUME PlaceInv, PlaceInv', DataInv, UNCHANGED <<b_blkno, b_addr, dev, hist>>,
         \/ b_flags' = b_flags
         \/ \E b : b_flags' = [b_flags EXCEPT ![b] = @ \cup {"WANTED"}]
  PROVE  DataInv'
<1>1. UNCHANGED <<queue, disk, latest, lost, astray>>
  BY DEF dev, hist
<1>2. ASSUME NEW c \in Buf PROVE Same(c)
  <2>1. \A f \in Flag \ {"WANTED"} : f \in b_flags'[c] <=> f \in b_flags[c]
    <3>1. b_flags \in [Buf -> SUBSET Flag]
      BY DEF PlaceInv, TypeInv
    <3>2. b_flags'[c] = b_flags[c] \/ b_flags'[c] = b_flags[c] \cup {"WANTED"}
      BY <3>1
    <3> QED
      BY <3>2
  <2>2. /\ \A f \in {"DELWRI", "STALE", "READ", "DONE", "ERROR"} :
             f \in b_flags'[c] <=> f \in b_flags[c]
        /\ Kept(c)' <=> Kept(c)
    BY <2>1 DEF Flag, Kept, Has
  <2> QED
    BY <1>1, <2>2, SameFlags
<1> QED
  BY <1>1, <1>2, DataQuiet

(* The steps that release a buffer: one with an error is given up.         *)
LEMMA DataRelease ==
  ASSUME PlaceInv, PlaceInv', DataInv, NEW p \in Proc,
         Release(p) \/ BiowaitWritten(p) \/ AheadValid(p)
  PROVE  DataInv'
<1> USE BufAssumption
<1>1. TypeInv /\ ProcOK(p) /\ b_flags \in [Buf -> SUBSET Flag]
  BY DEF PlaceInv, TypeInv
<1>2. PICK b \in Buf : brelse(b, b_flags, avail)
  <2>1. CASE Release(p) \/ BiowaitWritten(p)
    <3>1. bp[p] \in Buf /\ brelse(bp[p], b_flags, avail)
      BY <1>1, <2>1 DEF Release, BiowaitWritten, At, ProcOK, TypeInv
    <3> QED
      BY <3>1
  <2>2. CASE AheadValid(p)
    <3>1. nbp[p] \in Buf /\ brelse(nbp[p], b_flags, avail)
      BY <1>1, <2>2 DEF AheadValid, At, ProcOK, TypeInv
    <3> QED
      BY <3>1
  <2> QED
    BY <2>1, <2>2
<1>3. UNCHANGED <<b_blkno, b_addr, queue, disk, latest, lost, astray>>
  BY DEF Release, BiowaitWritten, AheadValid, dev, hist
<1>4. b_flags'[b] = Released(b_flags[b]) /\ \A c \in Buf \ {b} : b_flags'[c] = b_flags[c]
  BY <1>1, <1>2 DEF brelse
<1>5. ASSUME NEW c \in Buf \ {b} PROVE Same(c)
  BY <1>3, <1>4, SameFlags DEF Kept, Has
<1>6. Same(b)
  <2>1. Has(b, "DELWRI") => ~Has(b, "ERROR")
    BY DEF PlaceInv, BufOK
  <2>2. /\ ~Has(b, "BUSY")' /\ (Has(b, "DELWRI")' <=> Has(b, "DELWRI"))
        /\ Has(b, "STALE")' <=> Has(b, "STALE") \/ Has(b, "ERROR")
        /\ Has(b, "DONE")' <=> Has(b, "DONE")
        /\ Has(b, "READ")' <=> Has(b, "READ")
    BY <1>1, <1>4, <2>1, ReleasedFlags DEF Has
  <2> QED
    BY <1>3, <2>1, <2>2 DEF Same, AtDevice, InUse, Kept
<1> QED
  BY <1>3, <1>5, <1>6, DataQuiet

(* The last close: what is given up is on the disk.                        *)
LEMMA DataBinval ==
  ASSUME PlaceInv, PlaceInv', DataInv, NEW p \in Proc, binval(p)
  PROVE  DataInv'
<1>1. \A b \in Buf : ~Has(b, "DELWRI")
  BY BinvalKeeps
<1>0. \A b \in Buf : ~Kept(b)
  <2>1. \A q \in Proc : None2(q)
    BY DEF binval, At, PlaceInv, CloseOK, ProcOK
  <2>2. \A q \in Proc, b \in Buf : ~Holds(q, b)
    BY <2>1, BufAssumption DEF None2, Holds
  <2> QED
    BY <2>2 DEF PlaceInv, BufOK, Kept
<1>2. UNCHANGED <<b_blkno, b_addr, queue, disk, latest, lost, astray>>
  BY DEF binval, dev, hist
<1>3. ASSUME NEW c \in Buf PROVE Same(c)
  <2>1. b_flags'[c] = IF b_blkno[c] # None THEN b_flags[c] \cup {"STALE", "AGE"} ELSE b_flags[c]
    BY DEF binval
  <2> QED
    BY <1>0, <1>1, <1>2, <2>1 DEF Same, Has, AtDevice, InUse, Kept
<1> QED
  BY <1>2, <1>3, DataQuiet

(* A buffer is taken that is of no block, or will be of another.           *)
LEMMA DataTaken ==
  ASSUME PlaceInv, PlaceInv', DataInv, NEW p \in Proc,
         GetfreeReuse(p) \/ GetfreeAlloc(p) \/ GetblkNew(p)
  PROVE  DataInv'
<1> USE BufAssumption
<1>1. /\ TypeInv /\ ProcOK(p) /\ avail \in Seq(Buf) /\ Distinct(avail)
      /\ b_flags \in [Buf -> SUBSET Flag] /\ \A b \in Buf : BufOK(b)
  BY DEF PlaceInv, TypeInv
<1>2. UNCHANGED <<queue, disk, latest, lost, astray>>
  BY DEF GetfreeReuse, GetfreeAlloc, GetblkNew, dev, hist
<1>3. PICK b \in Buf :
        /\ ~AtDevice(b) /\ ~Has(b, "DELWRI")
        /\ \E F : b_flags' = [b_flags EXCEPT ![b] = F] /\ "DELWRI" \notin F
                    /\ (b_blkno'[b] # None => "DONE" \notin F /\ "STALE" \notin F)
        /\ \A c \in Buf \ {b} : b_blkno'[c] = b_blkno[c] /\ b_addr'[c] = b_addr[c]
  <2>1. CASE GetfreeReuse(p)
    <3>1. PICK b : b = Head(avail)
      OBVIOUS
    <3>2. b \in ToSet(avail)
      BY <1>1, <2>1, <3>1, TailList DEF GetfreeReuse, TakesHead
    <3>3. b \in Buf /\ ~AtDevice(b)
      BY <3>2, OnFreeList
    <3>4. /\ ~Has(b, "DELWRI") /\ GotFree(p, b, {p})
          /\ b_blkno' = [b_blkno EXCEPT ![b] = None] /\ b_addr' = [b_addr EXCEPT ![b] = None]
      BY <2>1, <3>1 DEF GetfreeReuse
    <3>5. \E F : b_flags' = [b_flags EXCEPT ![b] = F] /\ "DELWRI" \notin F
      BY <1>1, <3>3, <3>4 DEF GotFree, Has
    <3>6. b_blkno'[b] = None /\ \A c \in Buf \ {b} : b_blkno'[c] = b_blkno[c] /\ b_addr'[c] = b_addr[c]
      BY <1>1, <3>3, <3>4 DEF TypeInv
    <3> QED
      BY <3>3, <3>4, <3>5, <3>6
  <2>2. CASE GetfreeAlloc(p)
    <3>1. PICK b \in bhdrlist : GotFree(p, b, {None, p})
      BY <2>2 DEF GetfreeAlloc
    <3>2. b \in Buf
      BY <1>1 DEF TypeInv
    <3>3. b_blkno[b] = None /\ ~AtDevice(b) /\ ~Has(b, "DELWRI")
      BY <1>1, <3>2 DEF BufOK
    <3>4. \E F : b_flags' = [b_flags EXCEPT ![b] = F] /\ "DELWRI" \notin F
      BY <1>1, <3>1, <3>2, <3>3 DEF GotFree, Has
    <3>5. UNCHANGED <<b_blkno, b_addr>>
      BY <2>2 DEF GetfreeAlloc
    <3> QED
      BY <3>2, <3>3, <3>4, <3>5
  <2>3. CASE GetblkNew(p)
    <3>1. nbp[p] \in Buf /\ ~AtDevice(nbp[p]) /\ b_blkno[nbp[p]] = None
      BY <1>1, <2>3 DEF GetblkNew, At, ProcOK, TypeInv
    <3>2. ~Has(nbp[p], "DELWRI")
      BY <1>1, <3>1 DEF BufOK
    <3>3. /\ b_flags' = [b_flags EXCEPT ![nbp[p]] = {"BUSY"}] /\ b_addr' = b_addr
          /\ \A c \in Buf \ {nbp[p]} : b_blkno'[c] = b_blkno[c]
      BY <1>1, <2>3 DEF GetblkNew, TypeInv
    <3> QED
      BY <3>1, <3>2, <3>3, {"DONE", "STALE", "DELWRI"} \cap {"BUSY"} = {}
  <2> QED
    BY <2>1, <2>2, <2>3
<1>4. PICK F : /\ b_flags' = [b_flags EXCEPT ![b] = F] /\ "DELWRI" \notin F
               /\ (b_blkno'[b] # None => "DONE" \notin F /\ "STALE" \notin F)
  BY <1>3
<1>5. b_flags'[b] = F /\ \A c \in Buf \ {b} : b_flags'[c] = b_flags[c]
  BY <1>1, <1>4
<1>6. Vacant(b)
  BY <1>2, <1>3, <1>4, <1>5 DEF Vacant, InUse, Has, AtDevice
<1>7. ASSUME NEW c \in Buf \ {b} PROVE Same(c)
  BY <1>2, <1>3, <1>5, SameFlags DEF Kept, Has
<1> QED
  BY <1>2, <1>6, <1>7, DataQuiet

(* The block has a buffer.                                                 *)
LEMMA DataHit ==
  ASSUME PlaceInv, PlaceInv', DataInv, NEW p \in Proc, GetblkHit(p)
  PROVE  DataInv'
<1> USE BufAssumption
<1>1. TypeInv /\ ProcOK(p) /\ b_flags \in [Buf -> SUBSET Flag]
  BY DEF PlaceInv, TypeInv
<1> DEFINE T(b) == [b_flags EXCEPT ![b] = (b_flags[b] \ {"AGE"}) \cup {"BUSY"}]
<1>0. PICK b : b = hit[p]
  OBVIOUS
<1>2. /\ ~Has(b, "BUSY")
      /\ IF nbp[p] = None
           THEN b_flags' = T(b)
           ELSE brelse(nbp[p], [T(b) EXCEPT ![nbp[p]] = {"BUSY"}], Unlinked(avail, b))
  BY <1>0 DEF GetblkHit
<1>3. /\ b \in Buf /\ b_blkno[b] = call[p].blk /\ b_blkno[b] # None /\ pc[p] = "found"
      /\ UNCHANGED <<b_blkno, b_addr, queue, disk, latest, lost>>
      /\ astray' = IF Has(b, "STALE") THEN astray \cup {call[p].blk} ELSE astray
  BY <1>0, <1>1 DEF GetblkHit, At, ProcOK, dev
<1>4. \A c \in Buf : \A f \in {"DELWRI", "STALE", "READ", "DONE", "ERROR"} :
        f \in T(b)[c] <=> f \in b_flags[c]
  BY <1>1, <1>3
<1>5. T(b) \in [Buf -> SUBSET Flag]
  BY <1>1, <1>3 DEF Flag
<1>8. /\ \A c \in Buf \ {b} : T(b)[c] = b_flags[c]
      /\ astray \subseteq astray' /\ (Has(b, "STALE") => b_blkno[b] \in astray')
  BY <1>1, <1>3
<1> HIDE DEF T
<1>6. CASE nbp[p] = None
  <2>1. \A c \in Buf : c # b \/ ~Has(b, "STALE") => Same(c)
    BY <1>2, <1>3, <1>4, <1>6, <1>8, SameFlags DEF Kept, Has
  <2> QED
    BY <1>3, <1>8, <2>1, DataQuiet
<1>7. CASE nbp[p] # None
  <2>1. nbp[p] \in Buf /\ b_blkno[nbp[p]] = None /\ ~AtDevice(nbp[p])
    BY <1>1, <1>3, <1>7 DEF TypeInv, ProcOK
  <2>2. ~Has(nbp[p], "DELWRI")
    BY <2>1 DEF PlaceInv, BufOK
  <2>3. b_flags'[nbp[p]] = Released({"BUSY"}) /\ \A c \in Buf \ {nbp[p]} : b_flags'[c] = T(b)[c]
    BY <1>2, <1>5, <1>7, <2>1 DEF brelse
  <2>4. Released({"BUSY"}) = {}
    BY DEF Released
  <2>5. PICK s \in Buf : s = nbp[p]
    BY <2>1
  <2>6. Vacant(s)
    BY <1>3, <2>1, <2>2, <2>3, <2>4, <2>5 DEF Vacant, InUse, Has, AtDevice
  <2>7. \A c \in Buf \ {s} : c # b \/ ~Has(b, "STALE") => Same(c)
    BY <1>3, <1>4, <1>8, <2>3, <2>5, SameFlags DEF Kept, Has
  <2> QED
    BY <1>3, <1>8, <2>6, <2>7, DataQuiet
<1> QED
  BY <1>6, <1>7

(* A request joins the queue: those before it for the same block are of    *)
(* buffers that have been given up.                                        *)
LEMMA Queued ==
  ASSUME PlaceInv, NEW b \in Buf, ~AtDevice(b), queue' = Append(queue, b)
  PROVE  /\ \A c : AtDevice(c)' <=> AtDevice(c) \/ c = b
         /\ \A x, y : Before(queue', x, y) => Before(queue, x, y) \/ (y = b /\ AtDevice(x))
         /\ \A x \in Buf : AtDevice(x) /\ b_blkno[x] = b_blkno[b] /\ InUse(b) =>
              x # b /\ Has(x, "STALE")
<1>1. queue \in Seq(Buf) /\ Distinct(queue)
  BY DEF PlaceInv, TypeInv
<1>2. ToSet(queue') = ToSet(queue) \cup {b}
  BY <1>1, AppendList DEF AtDevice
<1>3. \A x, y : Before(queue', x, y) => Before(queue, x, y) \/ (y = b /\ x \in ToSet(queue))
  BY <1>1, AppendList DEF AtDevice
<1> QED
  BY <1>2, <1>3, OnlyOne DEF AtDevice

(* A read is requested.                                                    *)
LEMMA DataRead ==
  ASSUME PlaceInv, PlaceInv', DataInv, NEW p \in Proc, GotRead(p) \/ AheadRead(p)
  PROVE  DataInv'
<1> USE BufAssumption
<1>1. TypeInv /\ ProcOK(p) /\ b_flags \in [Buf -> SUBSET Flag]
  BY DEF PlaceInv, TypeInv
<1>2. PICK b : b = nbp[p]
  OBVIOUS
<1>3. /\ b \in Buf /\ ~AtDevice(b) /\ ~Has(b, "DONE") /\ Kept(b) /\ b_blkno[b] # None
      /\ ~Has(b, "DELWRI")
  <2>1. b \in Buf /\ ~AtDevice(b) /\ ~Has(b, "DONE") /\ b_blkno[b] # None /\ Holds(p, b)
    BY <1>1, <1>2 DEF GotRead, AheadRead, At, ProcOK, TypeInv, Holds
  <2> QED
    BY <2>1 DEF PlaceInv, BufOK, Kept
<1>4. /\ UNCHANGED <<b_blkno, b_addr, disk, latest, lost, astray>> /\ queue' = Append(queue, b)
      /\ \E F : F \in {b_flags[b] \cup {"READ"}, b_flags[b] \cup {"READ", "ASYNC"}}
                  /\ b_flags' = [b_flags EXCEPT ![b] = F]
  BY <1>2 DEF GotRead, AheadRead, strategy, hist
<1>5. /\ Has(b, "READ")' /\ (\A f \in {"DELWRI", "STALE", "DONE", "ERROR"} : Has(b, f)' <=> Has(b, f))
      /\ \A c \in Buf \ {b} : b_flags'[c] = b_flags[c]
  BY <1>1, <1>3, <1>4 DEF Has
<1>7. PICK k \in Block : k = b_blkno[b]
  BY <1>1, <1>3 DEF TypeInv
<1>6. /\ \A c : AtDevice(c)' <=> AtDevice(c) \/ c = b
      /\ \A x, y : Before(queue', x, y) => Before(queue, x, y) \/ (y = b /\ AtDevice(x))
      /\ InUse(b) => \A x \in Buf : AtDevice(x) /\ b_blkno[x] = k => Has(x, "STALE")
  BY <1>3, <1>4, <1>7, Queued
<1>8. \A c \in Buf \ {b} : Same(c)
  BY <1>4, <1>5, <1>6 DEF Same, Has, InUse, Kept
<1>9. \A j \in Block : SameBlock(j)
  BY <1>4 DEF SameBlock
<1>10. ASSUME BlockInv(k) PROVE BlockInv(k)'
  <2>1. /\ \A c \in Buf : b_blkno[c] = k => ContentOK(c)
        /\ \A x, y \in Buf : b_blkno[x] = k /\ b_blkno[y] = k => Ordered(x, y)
        /\ DiskOK(k)
    BY <1>10 DEF BlockInv
  <2>2. ~Has(b, "STALE") /\ InUse(b)
    BY <1>3, <1>7, <2>1 DEF ContentOK, InUse
  <2>3. ASSUME NEW c \in Buf, b_blkno[c] = k PROVE ContentOK(c)'
    <3>1. CASE c = b
      BY <1>3, <1>5, <2>2, <3>1 DEF ContentOK, Writing
    <3>2. CASE c # b
      BY <1>8, <1>9, <2>1, <2>3, <3>2, ContentKept
    <3> QED
      BY <3>1, <3>2
  <2>4. ASSUME NEW x \in Buf, NEW y \in Buf, b_blkno[x] = k, b_blkno[y] = k PROVE Ordered(x, y)'
    <3>1. Ordered(x, y)
      BY <2>1, <2>4
    <3>2. CASE x = b
      <4>1. ~Before(queue', x, y)
        <5>1. ~Before(queue, x, y)
          BY <1>1, <1>3, <3>2, BeforeFacts DEF AtDevice, TypeInv
        <5> QED
          BY <1>3, <1>6, <3>2, <5>1
      <4> QED
        BY <1>5, <3>2, <4>1 DEF Ordered, Writing
    <3>3. CASE x # b /\ y = b
      <4>1. Before(queue', x, y) => Has(x, "STALE")'
        BY <1>5, <1>6, <2>2, <2>4, <3>1, <3>3 DEF Ordered, Has
      <4>2. ~Writing(y)' /\ ~Has(y, "DELWRI")'
        BY <1>3, <1>5, <3>3 DEF Writing
      <4> QED
        BY <4>1, <4>2 DEF Ordered
    <3>4. CASE x # b /\ y # b
      BY <1>6, <1>8, <3>1, <3>4, OrderedKept
    <3> QED
      BY <3>2, <3>3, <3>4
  <2>5. DiskOK(k)'
    <3>1. \A c \in Buf : Has(c, "DELWRI") \/ Writing(c) => Has(c, "DELWRI")' \/ Writing(c)'
      BY <1>3, <1>8 DEF Same, Writing
    <3> QED
      BY <1>4, <1>9, <2>1, <3>1, DiskKept
  <2> QED
    BY <1>4, <2>3, <2>4, <2>5 DEF BlockInv
<1>11. /\ b_blkno[b] = k /\ b_blkno'[b] = k /\ astray' = astray
       /\ \A x, y : Before(queue', x, y) => Before(queue, x, y) \/ x = b \/ y = b
  BY <1>4, <1>6, <1>7
<1> QED
  BY <1>3, <1>8, <1>9, <1>10, <1>11, DataFrame

(* A delayed write goes out: it is the newest for its block.               *)
LEMMA DataFlush ==
  ASSUME PlaceInv, PlaceInv', DataInv, NEW b \in Buf, Has(b, "DELWRI"), ~AtDevice(b),
         NEW F \in SUBSET Flag, b_flags' = [b_flags EXCEPT ![b] = F],
         {"READ", "DONE", "ERROR", "DELWRI"} \cap F = {}, "STALE" \in F <=> Has(b, "STALE"),
         queue' = Append(queue, b), UNCHANGED <<b_blkno, b_addr, disk, latest, lost, astray>>
  PROVE  DataInv'
<1> USE BufAssumption
<1>1. TypeInv /\ b_flags \in [Buf -> SUBSET Flag]
  BY DEF PlaceInv, TypeInv
<1>2. PICK k \in Block : k = b_blkno[b]
  BY <1>1, DelayedFlags DEF TypeInv
<1>3. /\ ~Has(b, "READ")' /\ ~Has(b, "DELWRI")' /\ ~Has(b, "DONE")'
      /\ Has(b, "STALE")' <=> Has(b, "STALE")
      /\ \A c \in Buf \ {b} : b_flags'[c] = b_flags[c]
  BY <1>1 DEF Has
<1>4. /\ \A c : AtDevice(c)' <=> AtDevice(c) \/ c = b
      /\ \A x, y : Before(queue', x, y) => Before(queue, x, y) \/ (y = b /\ AtDevice(x))
      /\ InUse(b) => \A x \in Buf : AtDevice(x) /\ b_blkno[x] = k => Has(x, "STALE")
  BY <1>2, Queued
<1>5. \A c \in Buf \ {b} : Same(c)
  BY <1>3, <1>4 DEF Same, Has, InUse, Kept
<1>6. \A j \in Block : SameBlock(j)
  BY DEF SameBlock
<1>7. ASSUME BlockInv(k) PROVE BlockInv(k)'
  <2>1. /\ \A c \in Buf : b_blkno[c] = k => ContentOK(c)
        /\ \A x, y \in Buf : b_blkno[x] = k /\ b_blkno[y] = k => Ordered(x, y)
        /\ DiskOK(k)
    BY <1>7 DEF BlockInv
  <2>2. ~Has(b, "STALE") /\ b_addr[b] = <<k, latest[k]>> /\ k \notin lost
    BY <1>2, <2>1 DEF ContentOK, Current
  <2>3. InUse(b) /\ Writing(b)'
    BY <1>2, <1>3, <1>4, <2>2 DEF InUse, Writing
  <2>4. ASSUME NEW c \in Buf, b_blkno[c] = k PROVE ContentOK(c)'
    <3>1. CASE c = b
      <4>1. latest[k] \in Nat
        BY <1>1 DEF TypeInv
      <4>2. b_addr[b] \in Data /\ b_addr[b][2] = latest[k]
        BY <2>2, <4>1 DEF Data
      <4>3. Current(k)' = <<k, latest[k]>>
        BY DEF Current
      <4>4. /\ ~Has(b, "STALE")' /\ ~Has(b, "DELWRI")' /\ ~Has(b, "DONE")'
            /\ disk[k][2] <= latest[k]
        BY <1>3, <2>1, <2>2 DEF DiskOK
      <4>5. b_addr'[b] = Current(k)' /\ b_addr'[b] \in Data /\ b_addr'[b][2] = latest'[k]
            /\ disk'[k][2] <= latest'[k] /\ latest'[k] <= latest'[k]
        BY <2>2, <4>1, <4>2, <4>3, <4>4
      <4> QED
        BY <1>2, <2>2, <3>1, <4>3, <4>4, <4>5 DEF ContentOK
    <3>2. CASE c # b
      BY <1>5, <1>6, <2>1, <2>4, <3>2, ContentKept
    <3> QED
      BY <3>1, <3>2
  <2>5. ASSUME NEW x \in Buf, NEW y \in Buf, b_blkno[x] = k, b_blkno[y] = k PROVE Ordered(x, y)'
    <3>1. Ordered(x, y)
      BY <2>1, <2>5
    <3>2. CASE x = b
      <4>1. ~Before(queue', x, y)
        <5>1. ~Before(queue, x, y)
          BY <1>1, <3>2, BeforeFacts DEF AtDevice, TypeInv
        <5> QED
          BY <1>4, <3>2, <5>1
      <4>2. ~Has(y, "DELWRI")'
        <5>1. y # b => ~Has(y, "DELWRI")
          BY <1>2, <2>1, <2>3, <2>5, OnlyOne
        <5> QED
          BY <1>3, <5>1 DEF Has
      <4> QED
        BY <4>1, <4>2 DEF Ordered
    <3>3. CASE x # b /\ y = b
      <4>1. Before(queue', x, y) => Has(x, "STALE")'
        BY <1>3, <1>4, <2>3, <2>5, <3>1, <3>3 DEF Ordered, Has
      <4>2. ~Has(y, "DELWRI")'
        BY <1>3, <3>3
      <4>3. Writing(x)' => b_addr[x][2] < b_addr[y][2]
        <5>1. Writing(x)' => Writing(x)
          BY <1>5, <3>3 DEF Same, Writing
        <5> QED
          BY <3>1, <3>3, <5>1 DEF Ordered
      <4> QED
        BY <4>1, <4>2, <4>3 DEF Ordered
    <3>4. CASE x # b /\ y # b
      BY <1>4, <1>5, <3>1, <3>4, OrderedKept
    <3> QED
      BY <3>2, <3>3, <3>4
  <2>6. DiskOK(k)'
    <3>1. \A c \in Buf : Has(c, "DELWRI") \/ Writing(c) => Has(c, "DELWRI")' \/ Writing(c)'
      BY <1>5, <2>3 DEF Same, Writing
    <3> QED
      BY <1>6, <2>1, <3>1, DiskKept
  <2> QED
    BY <2>4, <2>5, <2>6 DEF BlockInv
<1>8. /\ b_blkno[b] = k /\ b_blkno'[b] = k
      /\ \A x, y : Before(queue', x, y) => Before(queue, x, y) \/ x = b \/ y = b
  BY <1>2, <1>4
<1> QED
  BY <1>5, <1>6, <1>7, <1>8, DataFrame

(* Those who write delayed data out.                                       *)
LEMMA DataFlushers ==
  ASSUME PlaceInv, PlaceInv', DataInv, NEW p \in Proc,
         GetfreeWrite(p) \/ BflushWrite(p) \/ BlkflushWrite(p)
  PROVE  DataInv'
<1>1. /\ avail \in Seq(Buf) /\ Distinct(avail) /\ b_flags \in [Buf -> SUBSET Flag]
  BY DEF PlaceInv, TypeInv
<1>2. PICK b \in Buf, A \in SUBSET {"BUSY", "ASYNC", "AGE"} :
        /\ Has(b, "DELWRI") /\ ~Has(b, "BUSY")
        /\ b_flags' = [b_flags EXCEPT ![b] = WriteFlags(b_flags[b] \cup A)]
        /\ queue' = Append(queue, b)
  <2>1. CASE GetfreeWrite(p)
    <3>1. PICK b : b = Head(avail)
      OBVIOUS
    <3>2. b \in ToSet(avail)
      BY <1>1, <2>1, <3>1, TailList DEF GetfreeWrite, TakesHead
    <3>3. b \in Buf /\ ~Has(b, "BUSY")
      BY <3>2, OnFreeList
    <3>4. /\ Has(b, "DELWRI") /\ queue' = Append(queue, b)
          /\ b_flags' = [b_flags EXCEPT ![b] = WriteFlags(b_flags[b] \cup {"BUSY", "ASYNC", "AGE"})]
      BY <2>1, <3>1 DEF GetfreeWrite, strategy
    <3> QED
      BY <3>3, <3>4 DEF Flag
  <2>2. CASE BflushWrite(p)
    <3>1. PICK i \in Delayed :
            /\ b_flags' = [b_flags EXCEPT ![avail[i]] = WriteFlags(@ \cup {"BUSY", "ASYNC"})]
            /\ strategy(avail[i])
      BY <2>2 DEF BflushWrite
    <3>2. PICK b : b = avail[i]
      OBVIOUS
    <3>3. b \in ToSet(avail) /\ Has(b, "DELWRI")
      BY <1>1, <3>2, Members DEF Delayed
    <3>4. b \in Buf /\ ~Has(b, "BUSY")
      BY <3>3, OnFreeList
    <3>5. /\ queue' = Append(queue, b)
          /\ b_flags' = [b_flags EXCEPT ![b] = WriteFlags(b_flags[b] \cup {"BUSY", "ASYNC"})]
      BY <3>1, <3>2 DEF strategy
    <3> QED
      BY <3>3, <3>4, <3>5 DEF Flag
  <2>3. CASE BlkflushWrite(p)
    <3>1. PICK b \in Hashed(call[p].blk) :
            /\ ~Has(b, "BUSY") /\ Has(b, "DELWRI") /\ strategy(b)
            /\ b_flags' = [b_flags EXCEPT ![b] = WriteFlags(@ \cup {"BUSY"})]
      BY <2>3 DEF BlkflushWrite
    <3>2. b \in Buf
      BY DEF Hashed
    <3> QED
      BY <3>1, <3>2 DEF Flag, strategy
  <2> QED
    BY <2>1, <2>2, <2>3
<1>3. UNCHANGED <<b_blkno, b_addr, disk, latest, lost, astray>>
  BY DEF GetfreeWrite, BflushWrite, BlkflushWrite, hist
<1>4. ~AtDevice(b) /\ b_flags[b] \cup A \in SUBSET Flag
  BY <1>1, <1>2 DEF PlaceInv, BufOK, Flag
<1>5. /\ WriteFlags(b_flags[b] \cup A) \in SUBSET Flag
      /\ {"READ", "DONE", "ERROR", "DELWRI"} \cap WriteFlags(b_flags[b] \cup A) = {}
      /\ "STALE" \in WriteFlags(b_flags[b] \cup A) <=> Has(b, "STALE")
  BY <1>4, WrittenFlags DEF Has
<1> QED
  BY <1>2, <1>3, <1>4, <1>5, DataFlush

(* New data for a block, which will be written late or goes out at once.   *)
LEMMA DataNew ==
  ASSUME PlaceInv, PlaceInv', DataInv, NEW p \in Proc, NewData(p), NEW b \in Buf, b = bp[p],
         b_blkno' = b_blkno, disk' = disk, \A c \in Buf \ {b} : b_flags'[c] = b_flags[c],
         Has(b, "STALE")' => Has(b, "STALE"),
         \/ queue' = queue /\ Has(b, "DELWRI")'
         \/ /\ queue' = Append(queue, b) /\ ~Has(b, "DELWRI")' /\ ~Has(b, "READ")'
  PROVE  DataInv'
<1> USE BufAssumption
<1>1. TypeInv
  BY DEF PlaceInv
<1>2. PICK k : k = b_blkno[b]
  OBVIOUS
<1>3. k \in Block /\ ~AtDevice(b) /\ Kept(b) /\ astray' = astray
  <2>1. k \in Block /\ ~AtDevice(b) /\ Holds(p, b) /\ astray' = astray
    BY <1>2, NewDataFacts
  <2> QED
    BY <2>1 DEF PlaceInv, BufOK, Kept
<1>4. /\ latest' = [latest EXCEPT ![k] = latest[k] + 1] /\ lost' = lost \ {k}
      /\ b_addr' = [b_addr EXCEPT ![b] = <<k, latest[k] + 1>>]
  BY <1>2 DEF NewData
<1>5. /\ latest[k] \in Nat /\ latest'[k] = latest[k] + 1 /\ (\A j \in Block \ {k} : SameBlock(j))
      /\ b_addr'[b] = <<k, latest[k] + 1>> /\ \A c \in Buf \ {b} : b_addr'[c] = b_addr[c]
  BY <1>1, <1>3, <1>4 DEF TypeInv, SameBlock
<1>6. /\ \A c : AtDevice(c)' <=> AtDevice(c) \/ (c = b /\ ~Has(b, "DELWRI")')
      /\ \A x, y : Before(queue', x, y) => Before(queue, x, y) \/ (y = b /\ AtDevice(x))
  <2>1. CASE queue' = queue /\ Has(b, "DELWRI")'
    BY <2>1 DEF AtDevice
  <2>2. CASE queue' = Append(queue, b) /\ ~Has(b, "DELWRI")'
    BY <1>3, <2>2, Queued
  <2> QED
    BY <2>1, <2>2
<1>7. \A c \in Buf \ {b} : Same(c)
  BY <1>5, <1>6 DEF Same, Has, InUse, Kept
<1>8. ASSUME BlockInv(k) PROVE BlockInv(k)'
  <2>1. /\ \A c \in Buf : b_blkno[c] = k => ContentOK(c)
        /\ \A x, y \in Buf : b_blkno[x] = k /\ b_blkno[y] = k => Ordered(x, y)
        /\ DiskOK(k)
    BY <1>8 DEF BlockInv
  <2>2. ~Has(b, "STALE") /\ ~Has(b, "STALE")' /\ InUse(b)
    BY <1>2, <1>3, <2>1 DEF ContentOK, InUse
  <2>3. ASSUME NEW c \in Buf \ {b}, b_blkno[c] = k
        PROVE  ~InUse(c) /\ ~Has(c, "DELWRI") /\ Has(c, "STALE") /\ ~Kept(c)
    BY <1>2, <2>1, <2>2, <2>3, OnlyOne
  <2>4. \A c \in Buf \ {b} : /\ Writing(c)' <=> Writing(c)
                             /\ \A f \in Flag : Has(c, f)' <=> Has(c, f)
                             /\ InUse(c)' <=> InUse(c)
                             /\ Kept(c)' <=> Kept(c)
    BY <1>7 DEF Same, Writing, Has, InUse, Kept
  <2>5. "DELWRI" \in Flag /\ "STALE" \in Flag
    BY DEF Flag
  <2>6. disk[k][2] \in Nat
    BY <2>1 DEF DiskOK, Data
  <2>7. Current(k)' = <<k, latest[k] + 1>> /\ k \notin lost' /\ b_addr'[b][2] = latest[k] + 1
        /\ b_addr'[b] \in Data
    BY <1>3, <1>4, <1>5 DEF Current, Data
  <2>8. ASSUME NEW c \in Buf \ {b}, b_blkno[c] = k, Writing(c)
        PROVE  /\ b_addr[c] \in Data /\ b_addr[c] = <<k, b_addr[c][2]>> /\ b_addr[c][2] \in Nat
               /\ disk[k][2] <= b_addr[c][2] /\ b_addr[c][2] <= latest[k]
    BY <2>1, <2>8 DEF ContentOK, Data
  <2>9. ASSUME NEW c \in Buf, b_blkno[c] = k PROVE ContentOK(c)'
    <3>1. CASE c = b
      BY <1>2, <1>5, <2>1, <2>2, <2>6, <2>7, <3>1 DEF ContentOK, DiskOK
    <3>2. CASE c # b
      <4>1. ~Has(c, "DELWRI")' /\ ~InUse(c)' /\ Has(c, "STALE")' /\ ~Kept(c)'
        BY <2>3, <2>4, <2>5, <2>9, <3>2
      <4>2. Writing(c)' => /\ b_addr'[c] \in Data /\ b_addr'[c] = <<k, b_addr'[c][2]>>
                           /\ disk'[k][2] <= b_addr'[c][2] /\ b_addr'[c][2] <= latest'[k]
        BY <1>5, <2>4, <2>6, <2>8, <2>9, <3>2
      <4> QED
        BY <2>9, <4>1, <4>2 DEF ContentOK
    <3> QED
      BY <3>1, <3>2
  <2>10. ASSUME NEW x \in Buf, NEW y \in Buf, b_blkno[x] = k, b_blkno[y] = k PROVE Ordered(x, y)'
    <3>1. Ordered(x, y)
      BY <2>1, <2>10
    <3>2. CASE x = b
      <4>1. ~Before(queue', x, y)
        <5>1. ~Before(queue, x, y)
          BY <1>1, <1>3, <3>2, BeforeFacts DEF AtDevice, TypeInv
        <5> QED
          BY <1>3, <1>6, <3>2, <5>1
      <4>2. ~(Writing(x)' /\ Has(y, "DELWRI")')
        <5>1. CASE y = b
          BY <1>3, <1>6, <3>2, <5>1 DEF Writing
        <5>2. CASE y # b
          BY <2>3, <2>4, <2>5, <2>10, <5>2
        <5> QED
          BY <5>1, <5>2
      <4> QED
        BY <4>1, <4>2 DEF Ordered
    <3>3. CASE x # b /\ y = b
      <4>1. Has(x, "STALE")'
        BY <2>3, <2>4, <2>5, <2>10, <3>3
      <4>2. Writing(x)' => b_addr'[x][2] < b_addr'[y][2]
        BY <1>5, <2>4, <2>7, <2>8, <2>10, <3>3
      <4> QED
        BY <4>1, <4>2 DEF Ordered
    <3>4. CASE x # b /\ y # b
      BY <1>6, <1>7, <3>1, <3>4, OrderedKept
    <3> QED
      BY <3>2, <3>3, <3>4
  <2>11. DiskOK(k)'
    <3>1. Has(b, "DELWRI")' \/ Writing(b)'
      BY <1>6 DEF Writing
    <3>2. disk'[k] \in Data /\ disk'[k] = <<k, disk'[k][2]>> /\ disk'[k][2] <= latest'[k]
      BY <1>5, <2>1, <2>6 DEF DiskOK
    <3>3. b_blkno'[b] = k /\ b_addr'[b] = Current(k)'
      BY <1>2, <1>5, <2>7
    <3> QED
      BY <3>1, <3>2, <3>3 DEF DiskOK
  <2> QED
    BY <2>9, <2>10, <2>11 DEF BlockInv
<1>9. /\ b_blkno[b] = k /\ b_blkno'[b] = k
      /\ \A x, y : Before(queue', x, y) => Before(queue, x, y) \/ x = b \/ y = b
  BY <1>2, <1>6
<1> QED
  BY <1>3, <1>5, <1>7, <1>8, <1>9, DataFrame

(* bdwrite(), bwrite() and bawrite().                                      *)
LEMMA DataWrites ==
  ASSUME PlaceInv, PlaceInv', DataInv, NEW p \in Proc, bdwrite(p) \/ bwrite(p) \/ bawrite(p)
  PROVE  DataInv'
<1>1. b_flags \in [Buf -> SUBSET Flag]
  BY DEF PlaceInv, TypeInv
<1>2. NewData(p) /\ b_blkno' = b_blkno /\ disk' = disk
  BY DEF bdwrite, bwrite, bawrite, StartWrite, dev
<1>3. PICK b \in Buf : b = bp[p]
  BY <1>2, NewDataFacts
<1>4. CASE bdwrite(p)
  <2>1. queue' = queue /\ ~Has(b, "ERROR")
    BY <1>3, <1>4 DEF bdwrite, dev, NewData
  <2> DEFINE F == b_flags[b] \cup {"DELWRI", "DONE"}
             fl == [b_flags EXCEPT ![b] = F]
  <2>2. brelse(b, fl, avail)
    BY <1>3, <1>4 DEF bdwrite
  <2>3. F \in SUBSET Flag /\ "DELWRI" \in F /\ "ERROR" \notin F
    BY <1>1, <2>1 DEF Flag, Has
  <2>4. fl \in [Buf -> SUBSET Flag] /\ fl[b] = F /\ \A c \in Buf \ {b} : fl[c] = b_flags[c]
    BY <1>1, <2>3
  <2> HIDE DEF F, fl
  <2>5. b_flags'[b] = Released(F) /\ \A c \in Buf \ {b} : b_flags'[c] = b_flags[c]
    BY <2>2, <2>4 DEF brelse
  <2>6. Has(b, "DELWRI")' /\ (Has(b, "STALE")' => Has(b, "STALE"))
    <3>1. "STALE" \in F => Has(b, "STALE")
      BY DEF F, Has
    <3> QED
      BY <2>3, <2>5, <3>1, ReleasedFlags DEF Has
  <2> QED
    BY <1>2, <1>3, <2>1, <2>5, <2>6, DataNew
<1>5. ASSUME NEW A \in SUBSET {"ASYNC"}, StartWrite(p, b_flags[b] \cup A) PROVE DataInv'
  <2> DEFINE F == WriteFlags(b_flags[b] \cup A)
  <2>1. queue' = Append(queue, b) /\ b_flags' = [b_flags EXCEPT ![b] = F]
    BY <1>3, <1>5 DEF StartWrite, strategy
  <2>2. "DELWRI" \notin F /\ "READ" \notin F /\ ("STALE" \in F => Has(b, "STALE"))
    BY DEF WriteFlags, Has
  <2> HIDE DEF F
  <2>3. ~Has(b, "DELWRI")' /\ ~Has(b, "READ")' /\ (Has(b, "STALE")' => Has(b, "STALE")) /\ \A c \in Buf \ {b} : b_flags'[c] = b_flags[c]
    BY <1>1, <2>1, <2>2 DEF Has
  <2> QED
    BY <1>2, <1>3, <2>1, <2>3, DataNew
<1>6. CASE bwrite(p) \/ bawrite(p)
  <2>1. {} \in SUBSET {"ASYNC"} /\ {"ASYNC"} \in SUBSET {"ASYNC"} /\ b_flags[b] = b_flags[b] \cup {}
    OBVIOUS
  <2>2. StartWrite(p, b_flags[b]) \/ StartWrite(p, b_flags[b] \cup {"ASYNC"})
    BY <1>3, <1>6 DEF bwrite, bawrite
  <2>3. CASE StartWrite(p, b_flags[b])
    <3>1. StartWrite(p, b_flags[b] \cup {})
      BY <2>1, <2>3, Zenon
    <3> QED
      BY <1>5, <2>1, <3>1
  <2>4. CASE StartWrite(p, b_flags[b] \cup {"ASYNC"})
    BY <1>5, <2>1, <2>4
  <2> QED
    BY <2>2, <2>3, <2>4
<1> QED
  BY <1>4, <1>6

(* A request leaves the queue.                                             *)
LEMMA DoneFacts ==
  ASSUME PlaceInv, NEW b \in Buf, Oldest(b), NEW G,
         G \in {b_flags[b] \cup {"DONE"}, b_flags[b] \cup {"DONE", "ERROR"}}, biodone(b, G)
  PROVE  /\ b_blkno[b] \in Block /\ AtDevice(b) /\ b_blkno' = b_blkno
         /\ \A c : AtDevice(c)' <=> AtDevice(c) /\ c # b
         /\ \A x, y : Before(queue', x, y) => Before(queue, x, y)
         /\ \A c \in Buf \ {b} : AtDevice(c) /\ b_blkno[c] = b_blkno[b] => Before(queue, b, c)
         /\ \A c \in Buf \ {b} : b_flags'[c] = b_flags[c]
         /\ ~Has(b, "DELWRI") /\ ~Has(b, "DELWRI")'
         /\ Has(b, "STALE") => Has(b, "STALE")'
         /\ "ERROR" \in G => Has(b, "ERROR")' \/ Has(b, "STALE")'
         /\ Kept(b)' => Kept(b) /\ (Has(b, "STALE")' => Has(b, "STALE"))
<1>1. /\ AtDevice(b) /\ ~Has(b, "DELWRI") /\ b_blkno[b] \in Block /\ b \notin ToSet(avail)
      /\ \A c \in ToSet(queue) : b_blkno[c] = b_blkno[b] => ~Before(queue, c, b)
  BY OldestFacts
<1>2. G \in SUBSET Flag /\ "DELWRI" \notin G /\ (Has(b, "STALE") => "STALE" \in G)
  BY <1>1 DEF PlaceInv, TypeInv, Flag, Has
<1>3. /\ queue' \in Seq(Buf) /\ ToSet(queue)' = ToSet(queue) \ {b}
      /\ \A x, y : Before(queue', x, y) => Before(queue, x, y)
      /\ \A c \in Buf \ {b} : b_flags'[c] = b_flags[c]
      /\ b_flags'[b] = IF "ASYNC" \in G THEN Released(G) ELSE G \ {"WANTED"}
      /\ b_blkno' = b_blkno
  BY <1>1, <1>2, BiodoneFacts
<1>4. /\ ~Has(b, "DELWRI")' /\ (Has(b, "STALE") => Has(b, "STALE")')
      /\ "ERROR" \in G => Has(b, "ERROR")' \/ Has(b, "STALE")'
  BY <1>2, <1>3, ReleasedFlags DEF Has
<1>6. Kept(b)' => Kept(b) /\ (Has(b, "STALE")' => Has(b, "STALE"))
  <2>1. CASE "ASYNC" \in G
    BY <1>2, <1>3, <2>1, ReleasedFlags DEF Kept, Has
  <2>2. CASE "ASYNC" \notin G
    BY <1>3, <2>2 DEF Kept, Has
  <2> QED
    BY <2>1, <2>2
<1>5. ASSUME NEW c \in Buf \ {b}, AtDevice(c), b_blkno[c] = b_blkno[b] PROVE Before(queue, b, c)
  BY <1>1, <1>5, BeforeFacts DEF AtDevice, PlaceInv, TypeInv
<1> QED
  BY <1>1, <1>3, <1>4, <1>5, <1>6 DEF AtDevice

(* What the interrupt leaves of the other buffers of the block.            *)
LEMMA DataDone ==
  ASSUME PlaceInv, PlaceInv', DataInv, NEW b \in Buf, NEW k \in Block, k = b_blkno[b],
         b_blkno' = b_blkno, latest' = latest, astray' = astray,
         \A c : AtDevice(c)' <=> AtDevice(c) /\ c # b,
         \A x, y : Before(queue', x, y) => Before(queue, x, y),
         \A c \in Buf \ {b} : b_flags'[c] = b_flags[c] /\ b_addr'[c] = b_addr[c],
         \A j \in Block \ {k} : SameBlock(j), ~Has(b, "DELWRI")',
         BlockInv(k) => (\A c \in Buf : b_blkno[c] = k => ContentOK(c)') /\ DiskOK(k)'
  PROVE  DataInv'
<1>1. \A c \in Buf \ {b} : Same(c)
  BY DEF Same, Has, InUse, Kept
<1>2. ~AtDevice(b)'
  OBVIOUS
<1>3. ASSUME BlockInv(k) PROVE BlockInv(k)'
  <2>1. ASSUME NEW x \in Buf, NEW y \in Buf, b_blkno[x] = k, b_blkno[y] = k PROVE Ordered(x, y)'
    <3>1. Ordered(x, y)
      BY <1>3, <2>1 DEF BlockInv
    <3>2. CASE x = b \/ y = b
      <4>1. ~Before(queue', x, y)
        BY <1>2, <3>2, BeforeFacts DEF PlaceInv, TypeInv, AtDevice
      <4> QED
        BY <1>2, <3>2, <4>1 DEF Ordered, Writing
    <3>3. CASE x # b /\ y # b
      BY <1>1, <3>1, <3>3, OrderedKept
    <3> QED
      BY <3>2, <3>3
  <2> QED
    BY <1>3, <2>1 DEF BlockInv
<1>4. b_blkno[b] = k /\ b_blkno'[b] = k
  OBVIOUS
<1> QED
  BY <1>1, <1>3, <1>4, DataFrame

(* The device has read a block: the data is current, if the buffer is the  *)
(* block's.                                                                *)
LEMMA DataReadDone ==
  ASSUME PlaceInv, PlaceInv', DataInv, NEW b \in Buf, ReadDone(b)
  PROVE  DataInv'
<1> USE BufAssumption
<1>1. TypeInv
  BY DEF PlaceInv
<1>2. PICK k : k = b_blkno[b]
  OBVIOUS
<1>3. /\ Oldest(b) /\ Has(b, "READ") /\ biodone(b, b_flags[b] \cup {"DONE"})
      /\ b_addr' = [b_addr EXCEPT ![b] = disk[k]] /\ UNCHANGED <<disk, latest, lost, astray>>
  BY <1>2 DEF ReadDone, hist
<1>4. /\ k \in Block /\ AtDevice(b) /\ b_blkno' = b_blkno
      /\ \A c : AtDevice(c)' <=> AtDevice(c) /\ c # b
      /\ \A x, y : Before(queue', x, y) => Before(queue, x, y)
      /\ \A c \in Buf \ {b} : AtDevice(c) /\ b_blkno[c] = k => Before(queue, b, c)
      /\ \A c \in Buf \ {b} : b_flags'[c] = b_flags[c]
      /\ ~Has(b, "DELWRI") /\ ~Has(b, "DELWRI")'
      /\ Has(b, "STALE") => Has(b, "STALE")'
      /\ Kept(b)' => Kept(b) /\ (Has(b, "STALE")' => Has(b, "STALE"))
  BY <1>2, <1>3, DoneFacts
<1>5. b_addr'[b] = disk[k] /\ \A c \in Buf \ {b} : b_addr'[c] = b_addr[c]
  BY <1>1, <1>3 DEF TypeInv
<1>6. (\A j \in Block : SameBlock(j)) /\ Current(k)' = Current(k)
  BY <1>3 DEF SameBlock, Current
<1>7. ASSUME BlockInv(k)
      PROVE  (\A c \in Buf : b_blkno[c] = k => ContentOK(c)') /\ DiskOK(k)'
  <2>1. /\ \A c \in Buf : b_blkno[c] = k => ContentOK(c)
        /\ \A x, y \in Buf : b_blkno[x] = k /\ b_blkno[y] = k => Ordered(x, y)
        /\ DiskOK(k)
    BY <1>7 DEF BlockInv
  <2>2. InUse(b) /\ k \notin lost => disk[k] = Current(k)
    <3> SUFFICES ASSUME InUse(b), NEW c \in Buf, b_blkno[c] = k, Has(c, "DELWRI") \/ Writing(c)
                 PROVE  FALSE
      BY <2>1 DEF DiskOK
    <3>1. c # b
      BY <1>3, <1>4 DEF Writing
    <3>2. Writing(c)
      BY <1>2, <2>1, <3>1, OnlyOne
    <3>3. Before(queue, b, c)
      BY <1>4, <3>1, <3>2 DEF Writing
    <3>4. Has(b, "STALE")
      BY <1>2, <2>1, <3>3 DEF Ordered
    <3> QED
      BY <3>4 DEF InUse
  <2>3. ASSUME NEW c \in Buf, b_blkno[c] = k PROVE ContentOK(c)'
    <3>1. CASE c = b
      <4>1. InUse(b)' => InUse(b)
        BY <1>4 DEF InUse
      <4>2. Kept(b)' \/ Has(b, "DELWRI")' => ~Has(b, "STALE")'
        BY <1>2, <1>4, <2>1 DEF ContentOK
      <4> QED
        BY <1>2, <1>3, <1>4, <1>5, <1>6, <2>2, <3>1, <4>1, <4>2 DEF ContentOK, Writing
    <3>2. CASE c # b
      <4>1. Same(c)
        BY <1>4, <1>5, <3>2 DEF Same, Has, InUse, Kept
      <4> QED
        BY <1>4, <1>6, <2>1, <2>3, <4>1, ContentKept
    <3> QED
      BY <3>1, <3>2
  <2>4. DiskOK(k)'
    <3>1. \A c \in Buf : Has(c, "DELWRI") \/ Writing(c) =>
             c # b /\ b_addr'[c] = b_addr[c] /\ (Has(c, "DELWRI")' \/ Writing(c)')
      BY <1>3, <1>4, <1>5 DEF Writing, Has
    <3> QED
      BY <1>4, <1>6, <2>1, <3>1, DiskKept
  <2> QED
    BY <2>3, <2>4
<1> QED
  BY <1>2, <1>3, <1>4, <1>5, <1>6, <1>7, DataDone

(* The device has written a block, with no older data than it had.         *)
LEMMA DataWriteDone ==
  ASSUME PlaceInv, PlaceInv', DataInv, NEW b \in Buf, WriteDone(b)
  PROVE  DataInv' /\ \A k \in Block \ astray : disk'[k][2] >= disk[k][2]
<1> USE BufAssumption
<1>1. TypeInv
  BY DEF PlaceInv
<1>2. PICK k : k = b_blkno[b]
  OBVIOUS
<1>3. /\ Oldest(b) /\ ~Has(b, "READ") /\ biodone(b, b_flags[b] \cup {"DONE"})
      /\ disk' = [disk EXCEPT ![k] = b_addr[b]] /\ UNCHANGED <<b_addr, latest, lost, astray>>
  BY <1>2 DEF WriteDone, hist
<1>4. /\ k \in Block /\ AtDevice(b) /\ b_blkno' = b_blkno
      /\ \A c : AtDevice(c)' <=> AtDevice(c) /\ c # b
      /\ \A x, y : Before(queue', x, y) => Before(queue, x, y)
      /\ \A c \in Buf \ {b} : AtDevice(c) /\ b_blkno[c] = k => Before(queue, b, c)
      /\ \A c \in Buf \ {b} : b_flags'[c] = b_flags[c]
      /\ ~Has(b, "DELWRI") /\ ~Has(b, "DELWRI")'
      /\ Has(b, "STALE") => Has(b, "STALE")'
      /\ Kept(b)' => Kept(b) /\ (Has(b, "STALE")' => Has(b, "STALE"))
  BY <1>2, <1>3, DoneFacts
<1>5. /\ disk'[k] = b_addr[b] /\ (\A j \in Block \ {k} : SameBlock(j))
      /\ Current(k)' = Current(k) /\ latest[k] \in Nat
  BY <1>1, <1>3, <1>4 DEF TypeInv, SameBlock, Current
<1>6. ASSUME BlockInv(k)
      PROVE  /\ \A c \in Buf : b_blkno[c] = k => ContentOK(c)
             /\ \A x, y \in Buf : b_blkno[x] = k /\ b_blkno[y] = k => Ordered(x, y)
             /\ DiskOK(k) /\ disk[k][2] \in Nat
             /\ b_addr[b] \in Data /\ b_addr[b] = <<k, b_addr[b][2]>> /\ b_addr[b][2] \in Nat
             /\ disk[k][2] <= b_addr[b][2] /\ b_addr[b][2] <= latest[k]
             /\ ~Has(b, "STALE") => b_addr[b] = Current(k)
  <2>1. /\ \A c \in Buf : b_blkno[c] = k => ContentOK(c)
        /\ \A x, y \in Buf : b_blkno[x] = k /\ b_blkno[y] = k => Ordered(x, y)
        /\ DiskOK(k)
    BY <1>6 DEF BlockInv
  <2>2. disk[k][2] \in Nat
    BY <2>1 DEF DiskOK, Data
  <2>3. /\ b_addr[b] \in Data /\ b_addr[b] = <<k, b_addr[b][2]>> /\ b_addr[b][2] \in Nat
        /\ disk[k][2] <= b_addr[b][2] /\ b_addr[b][2] <= latest[k]
        /\ ~Has(b, "STALE") => b_addr[b] = Current(k)
    BY <1>2, <1>3, <1>4, <2>1 DEF ContentOK, Writing, Data
  <2> QED
    BY <2>1, <2>2, <2>3
<1>7. ASSUME BlockInv(k)
      PROVE  (\A c \in Buf : b_blkno[c] = k => ContentOK(c)') /\ DiskOK(k)'
  <2>1. ASSUME NEW c \in Buf, b_blkno[c] = k PROVE ContentOK(c)'
    <3>1. CASE c = b
      <4>1. InUse(b)' => ~Has(b, "STALE")
        BY <1>4 DEF InUse
      <4>2. Kept(b)' \/ Has(b, "DELWRI")' => ~Has(b, "STALE")'
        BY <1>2, <1>4, <1>6, <1>7 DEF ContentOK
      <4> QED
        BY <1>2, <1>3, <1>4, <1>5, <1>6, <1>7, <3>1, <4>1, <4>2 DEF ContentOK, Writing
    <3>2. CASE c # b
      <4>1. Writing(c)' => Writing(c) /\ Before(queue, b, c)
        BY <1>4, <2>1, <3>2 DEF Writing, Has
      <4>2. Writing(c)' => b_addr[b][2] < b_addr[c][2]
        BY <1>2, <1>3, <1>4, <1>6, <1>7, <2>1, <4>1 DEF Ordered, Writing
      <4>3. Writing(c) => b_addr[c][2] \in Nat
        BY <1>6, <1>7, <2>1 DEF ContentOK, Data
      <4>4. /\ \A f \in {"DELWRI", "STALE", "DONE", "ERROR"} : Has(c, f)' <=> Has(c, f)
            /\ InUse(c)' <=> InUse(c)
            /\ Kept(c)' <=> Kept(c)
        BY <1>4, <3>2 DEF Has, InUse, Kept
      <4>5. ContentOK(c)
        BY <1>6, <1>7, <2>1
      <4>6. Writing(c)' => disk'[k][2] <= b_addr[c][2]
        BY <1>5, <1>6, <1>7, <4>1, <4>2, <4>3
      <4> QED
        BY <1>3, <1>4, <1>5, <2>1, <4>1, <4>4, <4>5, <4>6 DEF ContentOK
    <3> QED
      BY <3>1, <3>2
  <2>2. DiskOK(k)'
    <3>1. disk'[k] \in Data /\ disk'[k] = <<k, disk'[k][2]>> /\ disk'[k][2] <= latest'[k]
      BY <1>3, <1>5, <1>6, <1>7
    <3>2. CASE disk[k] = Current(k)
      <4>1. disk[k][2] = latest[k]
        BY <3>2 DEF Current
      <4>2. b_addr[b][2] = latest[k]
        BY <1>5, <1>6, <1>7, <4>1
      <4>3. disk'[k] = Current(k)'
        BY <1>5, <1>6, <1>7, <4>2 DEF Current
      <4> QED
        BY <3>1, <4>3 DEF DiskOK
    <3>3. CASE disk[k] # Current(k) /\ k \notin lost
      <4>1. PICK c \in Buf : /\ b_blkno[c] = k /\ b_addr[c] = Current(k)
                             /\ Has(c, "DELWRI") \/ Writing(c)
        BY <1>6, <1>7, <3>3 DEF DiskOK
      <4>2. c # b => Has(c, "DELWRI")' \/ Writing(c)'
        BY <1>4, <4>1 DEF Writing, Has
      <4> QED
        BY <1>3, <1>4, <1>5, <3>1, <4>1, <4>2 DEF DiskOK
    <3>4. CASE k \in lost
      BY <1>3, <3>1, <3>4 DEF DiskOK
    <3> QED
      BY <3>2, <3>3, <3>4
  <2> QED
    BY <2>1, <2>2
<1>8. ASSUME NEW j \in Block \ astray PROVE disk'[j][2] >= disk[j][2]
  <2>1. BlockInv(j) /\ disk[j][2] \in Nat
    BY DEF DataInv, BlockInv, DiskOK, Data
  <2> QED
    BY <1>5, <1>6, <2>1 DEF SameBlock
<1>9. DataInv'
  BY <1>2, <1>3, <1>4, <1>5, <1>7, DataDone
<1> QED
  BY <1>8, <1>9

(* The device has failed: if the data was current, it is lost, and nothing *)
(* else claims to have it.                                                 *)
LEMMA DataError ==
  ASSUME PlaceInv, PlaceInv', DataInv, NEW b \in Buf, IOError(b)
  PROVE  DataInv'
<1> USE BufAssumption
<1>1. TypeInv
  BY DEF PlaceInv
<1>2. PICK k : k = b_blkno[b]
  OBVIOUS
<1>3. /\ Oldest(b) /\ biodone(b, b_flags[b] \cup {"DONE", "ERROR"})
      /\ UNCHANGED <<b_addr, disk, latest, astray>>
      /\ lost' = IF ~Has(b, "READ") /\ b_addr[b] = Current(k) THEN lost \cup {k} ELSE lost
  BY <1>2 DEF IOError, Current
<1>4. /\ k \in Block /\ AtDevice(b) /\ b_blkno' = b_blkno
      /\ \A c : AtDevice(c)' <=> AtDevice(c) /\ c # b
      /\ \A x, y : Before(queue', x, y) => Before(queue, x, y)
      /\ \A c \in Buf \ {b} : AtDevice(c) /\ b_blkno[c] = k => Before(queue, b, c)
      /\ \A c \in Buf \ {b} : b_flags'[c] = b_flags[c]
      /\ ~Has(b, "DELWRI") /\ ~Has(b, "DELWRI")'
      /\ Has(b, "ERROR")' \/ Has(b, "STALE")'
      /\ Kept(b)' => Kept(b) /\ (Has(b, "STALE")' => Has(b, "STALE"))
  <2>1. "ERROR" \in b_flags[b] \cup {"DONE", "ERROR"}
    OBVIOUS
  <2> QED
    BY <1>2, <1>3, <2>1, DoneFacts
<1>5. (\A j \in Block \ {k} : SameBlock(j)) /\ Current(k)' = Current(k)
  BY <1>3 DEF SameBlock, Current
<1>6. lost' = lost \/ (lost' = lost \cup {k} /\ Writing(b) /\ b_addr[b] = Current(k))
  BY <1>3, <1>4 DEF Writing
<1>7. ASSUME BlockInv(k)
      PROVE  (\A c \in Buf : b_blkno[c] = k => ContentOK(c)') /\ DiskOK(k)'
  <2>1. /\ \A c \in Buf : b_blkno[c] = k => ContentOK(c)
        /\ \A x, y \in Buf : b_blkno[x] = k /\ b_blkno[y] = k => Ordered(x, y)
        /\ DiskOK(k)
    BY <1>7 DEF BlockInv
  <2>2. Writing(b) /\ b_addr[b] = Current(k) =>
          \A c \in Buf \ {b} : b_blkno[c] = k =>
            /\ ~Has(c, "DELWRI")
            /\ Writing(c) => Has(c, "STALE")
    <3> SUFFICES ASSUME Writing(b), b_addr[b] = Current(k), NEW c \in Buf \ {b}, b_blkno[c] = k,
                        Has(c, "DELWRI") \/ (Writing(c) /\ ~Has(c, "STALE"))
                 PROVE  FALSE
      OBVIOUS
    <3>1. b_addr[c] = Current(k)
      BY <2>1 DEF ContentOK
    <3>2. Writing(c) => Before(queue, b, c)
      BY <1>4 DEF Writing
    <3>3. b_addr[b][2] < b_addr[c][2]
      BY <1>2, <2>1, <3>2 DEF Ordered
    <3>4. latest[k] \in Nat
      BY <1>1, <1>4 DEF TypeInv
    <3> QED
      BY <3>1, <3>3, <3>4 DEF Current
  <2>3. ASSUME NEW c \in Buf, b_blkno[c] = k PROVE ContentOK(c)'
    <3>1. CASE c = b
      <4>1. Kept(b)' \/ Has(b, "DELWRI")' => ~Has(b, "STALE")'
        BY <1>2, <1>4, <2>1 DEF ContentOK
      <4> QED
        BY <1>4, <3>1, <4>1 DEF ContentOK, Writing, InUse
    <3>2. CASE c # b
      <4>1. /\ \A f \in {"DELWRI", "STALE", "DONE", "ERROR"} : Has(c, f)' <=> Has(c, f)
            /\ InUse(c)' <=> InUse(c)
            /\ Writing(c)' <=> Writing(c)
            /\ Kept(c)' <=> Kept(c)
        BY <1>4, <3>2 DEF Has, InUse, Writing, Kept
      <4>2. ContentOK(c)
        BY <2>1, <2>3
      <4> QED
        BY <1>3, <1>4, <1>5, <1>6, <2>2, <2>3, <3>2, <4>1, <4>2 DEF ContentOK
    <3> QED
      BY <3>1, <3>2
  <2>4. DiskOK(k)'
    <3>1. CASE k \in lost'
      BY <1>3, <2>1, <3>1 DEF DiskOK
    <3>2. CASE k \notin lost'
      <4>1. lost' = lost /\ ~(Writing(b) /\ b_addr[b] = Current(k))
        BY <1>3, <1>6, <3>2 DEF Writing
      <4>2. SameBlock(k)
        BY <1>3, <4>1 DEF SameBlock
      <4>3. \A c \in Buf : b_addr[c] = Current(k) /\ (Has(c, "DELWRI") \/ Writing(c)) =>
              Has(c, "DELWRI")' \/ Writing(c)'
        BY <1>4, <4>1 DEF Writing, Has
      <4> QED
        BY <1>3, <1>4, <2>1, <4>2, <4>3, DiskKept
    <3> QED
      BY <3>1, <3>2
  <2> QED
    BY <2>3, <2>4
<1> QED
  BY <1>2, <1>3, <1>4, <1>5, <1>7, DataDone

(* Every step keeps what the buffers and the disk hold.                    *)
LEMMA NextData ==
  ASSUME PlaceInv, PlaceInv', DataInv, [Next]_vars
  PROVE  DataInv'
<1>1. ASSUME NEW p \in Proc, Request(p) PROVE DataInv'
  BY <1>1, DataStill DEF Request, bread, getblk, blkflush, breada, ngeteblk, bflush, bdwait, close,
                         Call, bufs
<1>2. ASSUME NEW p \in Proc, Step(p) PROVE DataInv'
  <2>1. CASE \/ GetblkFind(p) \/ GetblkMiss(p) \/ GotReady(p) \/ GotAhead(p)
             \/ AheadBegin(p) \/ AheadSkip(p) \/ BiowaitRead(p) \/ BwriteAsync(p) \/ BwriteSync(p) \/ BflushReturn(p)
             \/ BlkflushReturn(p) \/ BdwaitDelay(p) \/ BdwaitReturn(p) \/ GetfreeSleep(p)
    BY <2>1, DataStill DEF GetblkFind, GetblkMiss, GotReady, GotAhead, AheadBegin, AheadSkip, BiowaitRead,
         BwriteAsync, BwriteSync, BflushReturn, BlkflushReturn, BdwaitDelay, BdwaitReturn,
         GetfreeSleep, bufs
  <2>2. CASE BusySleep(p) \/ BiowaitSleep(p)
    BY <2>2, DataStill DEF BusySleep, BiowaitSleep
  <2> QED
    BY <1>2, <2>1, <2>2, DataRelease, DataBinval, DataTaken, DataHit, DataRead, DataFlushers,
       DataWrites DEF Step
<1>3. CASE UNCHANGED vars
  BY <1>3, DataStill DEF vars, bufs
<1> QED
  BY <1>1, <1>2, <1>3, DataReadDone, DataWriteDone, DataError DEF Next, Interrupt

(* At the start the disk has everything.                                   *)
LEMMA InitData ==
  ASSUME Init
  PROVE  DataInv
<1>1. \A b : ~Has(b, "DELWRI") \/ b \notin Buf
  BY DEF Init, Has
<1>2. \A b \in Buf : ~AtDevice(b) /\ ~Has(b, "DELWRI") /\ ~InUse(b)
  BY DEF Init, AtDevice, Has, InUse, ToSet
<1>3. \A b, c : ~Before(queue, b, c)
  BY DEF Init, Before
<1>4. \A b \in Buf : ~Kept(b)
  BY DEF Init, Kept, Has
<1>5. (\A b \in Buf : ContentOK(b)) /\ (\A b, c \in Buf : Ordered(b, c))
  BY <1>2, <1>3, <1>4 DEF ContentOK, Ordered, Writing
<1>6. \A k \in Block : DiskOK(k)
  BY DEF Init, DiskOK, Current, Data
<1> QED
  BY <1>5, <1>6 DEF DataInv, BlockInv

(* The contents of the cache are right, always.                            *)
THEOREM DataCorrect == Spec => [](PlaceInv /\ DataInv)
<1>1. Init => DataInv
  BY InitData
<1>2. PlaceInv /\ PlaceInv' /\ DataInv /\ [Next]_vars => DataInv'
  BY NextData
<1> QED
  BY <1>1, <1>2, PlaceCorrect, PTL DEF Spec

(* A valid buffer holds the last data written to its block, whatever was   *)
(* flushed, invalidated, reused and read ahead in the meantime, until      *)
(* getblk() hands out a stale buffer of the block.                         *)
THEOREM CoherentAlways == Spec => []Coherent
<1>1. PlaceInv /\ DataInv => Coherent
  <2> SUFFICES ASSUME PlaceInv, DataInv, NEW b \in Buf, b_blkno[b] \in Block \ (lost \cup astray),
                      Has(b, "DONE"), ~Has(b, "ERROR"), ~Has(b, "STALE")
               PROVE  b_addr[b] = Current(b_blkno[b])
    BY DEF Coherent, Current
  <2>1. ContentOK(b) /\ InUse(b)
    BY BufAssumption DEF DataInv, BlockInv, InUse
  <2> QED
    BY <2>1 DEF ContentOK
<1> QED
  BY <1>1, DataCorrect, PTL

(* Data that was accepted for writing is on the disk, in a delayed-write   *)
(* buffer that can still be found, or on its way, unless the device failed *)
(* or getblk() handed out a stale buffer of the block.                     *)
THEOREM NothingLostAlways == Spec => []NothingLost
<1>1. PlaceInv /\ DataInv => NothingLost
  <2> SUFFICES ASSUME PlaceInv, DataInv, NEW k \in Block \ (lost \cup astray), disk[k] # Current(k)
               PROVE  \E b \in Buf :
                        /\ b_blkno[b] = k /\ b_addr[b] = Current(k)
                        /\ \/ Has(b, "DELWRI") /\ ~Has(b, "STALE")
                           \/ b \in ToSet(queue) /\ ~Has(b, "READ")
    BY DEF NothingLost, Current
  <2>1. PICK b \in Buf : /\ b_blkno[b] = k /\ b_addr[b] = Current(k)
                         /\ Has(b, "DELWRI") \/ Writing(b)
    BY DEF DataInv, BlockInv, DiskOK
  <2>2. Has(b, "DELWRI") => ~Has(b, "STALE")
    BY <2>1 DEF DataInv, BlockInv, ContentOK
  <2> QED
    BY <2>1, <2>2 DEF Writing, AtDevice
<1> QED
  BY <1>1, DataCorrect, PTL

(* A write never puts older data over newer data, but for the delayed      *)
(* write of a stale buffer.                                                *)
THEOREM DiskMonotonicAlways == Spec => DiskMonotonic
<1>1. ASSUME PlaceInv, PlaceInv', DataInv, [Next]_vars
      PROVE  \A k \in Block \ astray : disk'[k][2] >= disk[k][2]
  <2>1. \A k \in Block \ astray : disk[k][2] \in Nat
    BY <1>1 DEF DataInv, BlockInv, DiskOK, Data
  <2>2. CASE disk' = disk
    BY <2>1, <2>2
  <2>3. CASE \E b \in Buf : WriteDone(b)
    BY <1>1, <2>3, DataWriteDone
  <2>4. ASSUME NEW p \in Proc, Request(p) \/ Step(p) PROVE disk' = disk
    <3>1. CASE Request(p)
      BY <3>1 DEF Request, bread, getblk, blkflush, breada, ngeteblk, bflush, bdwait, close, Call,
                  dev
    <3>2. CASE Step(p)
      BY <3>2 DEF Step, GetblkFind, GetblkHit, GetblkMiss, GetblkNew, BusySleep, GetfreeWrite, GetfreeReuse,
           GetfreeSleep, GetfreeAlloc, GotReady, GotRead, GotAhead, AheadBegin, AheadSkip, AheadRead,
           AheadValid, BiowaitSleep, BiowaitRead, BiowaitWritten, Release, bdwrite, bwrite, bawrite,
           StartWrite, BwriteAsync, BwriteSync, BflushWrite, BflushReturn, binval, BlkflushWrite,
           BlkflushReturn, BdwaitDelay, BdwaitReturn, dev
    <3> QED
      BY <2>4, <3>1, <3>2
  <2>5. CASE \E b \in Buf : ReadDone(b) \/ IOError(b)
    <3>1. disk' = disk
      BY <2>5 DEF ReadDone, IOError
    <3> QED
      BY <2>2, <3>1
  <2>6. CASE UNCHANGED vars
    <3>1. disk' = disk
      BY <2>6 DEF vars, dev
    <3> QED
      BY <2>2, <3>1
  <2> QED
    BY <1>1, <2>2, <2>3, <2>4, <2>5, <2>6 DEF Next, Interrupt
<1>2. PlaceInv /\ PlaceInv' /\ DataInv /\ [Next]_vars =>
        [\A k \in Block \ astray : disk'[k][2] >= disk[k][2]]_vars
  BY <1>1
<1> QED
  BY <1>2, DataCorrect, PlaceCorrect, PTL DEF Spec, DiskMonotonic

-----------------------------------------------------------------------------
(* The number of asynchronous writes.                                      *)
AsyncWrite(b) == AtDevice(b) /\ Has(b, "ASYNC") /\ ~Has(b, "READ")
Uncounted(p) == pc[p] = "bwrote" /\ call[p].op = "bawrite"
Alone(p) == \A q \in Proc \ {p} : Uncounted(q)' <=> Uncounted(q)
Writes == {b \in ToSet(queue) : Has(b, "ASYNC") /\ ~Has(b, "READ")}
Pending == {p \in Proc : pc[p] = "bwrote" /\ call[p].op = "bawrite"}

(* Both sets are finite.                                                   *)
LEMMA CountSets ==
  ASSUME TypeInv
  PROVE  /\ Writes = {b \in Buf : AsyncWrite(b)} /\ Pending = {p \in Proc : Uncounted(p)}
         /\ IsFiniteSet(Writes) /\ IsFiniteSet(Pending)
         /\ Cardinality(Writes) \in Nat /\ Cardinality(Pending) \in Nat
<1> USE BufAssumption
<1>1. ToSet(queue) \subseteq Buf
  BY Members DEF TypeInv
<1>2. Writes = {b \in Buf : AsyncWrite(b)} /\ Pending = {p \in Proc : Uncounted(p)}
  BY <1>1 DEF Writes, Pending, AsyncWrite, Uncounted, AtDevice
<1>3. Writes \in SUBSET Buf /\ Pending \in SUBSET Proc
  BY <1>2
<1>4. IsFiniteSet(Writes) /\ IsFiniteSet(Pending)
  BY <1>3, FS_Subset
<1> QED
  BY <1>2, <1>4, FS_CardinalityType

(* The same of the next state.                                             *)
LEMMA CountSetsPrime ==
  ASSUME TypeInv'
  PROVE  /\ Writes' = {b \in Buf : AsyncWrite(b)'} /\ Pending' = {p \in Proc : Uncounted(p)'}
<1>1. queue' \in Seq(Buf)
  BY DEF TypeInv
<1>2. ToSet(queue') \subseteq Buf
  BY <1>1, Members
<1> QED
  BY <1>2 DEF Writes, Pending, AsyncWrite, Uncounted, AtDevice, ToSet

(* What AsyncCount says.                                                   *)
LEMMA CountDef == AsyncCount <=> basyncnt + Cardinality(Pending) = Cardinality(Writes)
BY DEF AsyncCount, Pending, Writes

LEMMA CountDefPrime ==
  AsyncCount' <=> basyncnt' + Cardinality(Pending') = Cardinality(Writes')
BY DEF AsyncCount, Pending, Writes

(* Steps that neither start nor end an asynchronous write.                 *)
LEMMA CountKept ==
  ASSUME TypeInv, TypeInv', AsyncCount, basyncnt' = basyncnt,
         \A c \in Buf : AsyncWrite(c)' <=> AsyncWrite(c),
         \A q \in Proc : Uncounted(q)' <=> Uncounted(q)
  PROVE  AsyncCount'
<1>1. Writes = {b \in Buf : AsyncWrite(b)} /\ Pending = {p \in Proc : Uncounted(p)}
  BY CountSets
<1>2. Writes' = {b \in Buf : AsyncWrite(b)'} /\ Pending' = {p \in Proc : Uncounted(p)'}
  BY CountSetsPrime
<1>3. Writes' = Writes /\ Pending' = Pending
  BY <1>1, <1>2
<1> QED
  BY <1>3, CountDef, CountDefPrime

(* An asynchronous write starts, and is counted.                           *)
LEMMA CountMore ==
  ASSUME TypeInv, TypeInv', AsyncCount, basyncnt' = basyncnt + 1, NEW b \in Buf,
         ~AsyncWrite(b), AsyncWrite(b)',
         \A c \in Buf \ {b} : AsyncWrite(c)' <=> AsyncWrite(c),
         \A q \in Proc : Uncounted(q)' <=> Uncounted(q)
  PROVE  AsyncCount'
<1>1. /\ Writes = {c \in Buf : AsyncWrite(c)} /\ Pending = {q \in Proc : Uncounted(q)}
      /\ IsFiniteSet(Writes) /\ Cardinality(Writes) \in Nat /\ Cardinality(Pending) \in Nat
  BY CountSets
<1>2. Writes' = {c \in Buf : AsyncWrite(c)'} /\ Pending' = {q \in Proc : Uncounted(q)'}
  BY CountSetsPrime
<1>3. Writes' = Writes \cup {b} /\ b \notin Writes /\ Pending' = Pending
  BY <1>1, <1>2
<1>4. Cardinality(Writes') = Cardinality(Writes) + 1
  BY <1>1, <1>3, FS_AddElement
<1>5. basyncnt \in Int
  BY DEF TypeInv
<1> QED
  BY <1>1, <1>3, <1>4, <1>5, CountDef, CountDefPrime

(* The device has done one.                                                *)
LEMMA CountLess ==
  ASSUME TypeInv, TypeInv', AsyncCount, basyncnt' = basyncnt - 1, NEW b \in Buf,
         AsyncWrite(b), ~AsyncWrite(b)',
         \A c \in Buf \ {b} : AsyncWrite(c)' <=> AsyncWrite(c),
         \A q \in Proc : Uncounted(q)' <=> Uncounted(q)
  PROVE  AsyncCount'
<1>1. /\ Writes = {c \in Buf : AsyncWrite(c)} /\ Pending = {q \in Proc : Uncounted(q)}
      /\ IsFiniteSet(Writes) /\ Cardinality(Writes) \in Nat /\ Cardinality(Pending) \in Nat
  BY CountSets
<1>2. Writes' = {c \in Buf : AsyncWrite(c)'} /\ Pending' = {q \in Proc : Uncounted(q)'}
  BY CountSetsPrime
<1>3. Writes' = Writes \ {b} /\ b \in Writes /\ Pending' = Pending
  BY <1>1, <1>2
<1>4. Cardinality(Writes') = Cardinality(Writes) - 1
  BY <1>1, <1>3, FS_RemoveElement
<1>5. basyncnt \in Int
  BY DEF TypeInv
<1> QED
  BY <1>1, <1>3, <1>4, <1>5, CountDef, CountDefPrime

(* bwrite() starts one, which it will count when the driver returns.       *)
LEMMA CountLater ==
  ASSUME TypeInv, TypeInv', AsyncCount, basyncnt' = basyncnt, NEW b \in Buf, NEW p \in Proc,
         ~AsyncWrite(b), AsyncWrite(b)', ~Uncounted(p), Uncounted(p)',
         \A c \in Buf \ {b} : AsyncWrite(c)' <=> AsyncWrite(c),
         \A q \in Proc \ {p} : Uncounted(q)' <=> Uncounted(q)
  PROVE  AsyncCount'
<1>1. /\ Writes = {c \in Buf : AsyncWrite(c)} /\ Pending = {q \in Proc : Uncounted(q)}
      /\ IsFiniteSet(Writes) /\ IsFiniteSet(Pending)
      /\ Cardinality(Writes) \in Nat /\ Cardinality(Pending) \in Nat
  BY CountSets
<1>2. Writes' = {c \in Buf : AsyncWrite(c)'} /\ Pending' = {q \in Proc : Uncounted(q)'}
  BY CountSetsPrime
<1>3. Writes' = Writes \cup {b} /\ b \notin Writes
  BY <1>1, <1>2
<1>4. Pending' = Pending \cup {p} /\ p \notin Pending
  BY <1>1, <1>2
<1>5. Cardinality(Writes') = Cardinality(Writes) + 1
  BY <1>1, <1>3, FS_AddElement
<1>6. Cardinality(Pending') = Cardinality(Pending) + 1
  BY <1>1, <1>4, FS_AddElement
<1>7. basyncnt \in Int
  BY DEF TypeInv
<1> QED
  BY <1>1, <1>5, <1>6, <1>7, CountDef, CountDefPrime

(* bwrite() counts the write it has started.                               *)
LEMMA CountNow ==
  ASSUME TypeInv, TypeInv', AsyncCount, basyncnt' = basyncnt + 1, NEW p \in Proc,
         Uncounted(p), ~Uncounted(p)',
         \A c \in Buf : AsyncWrite(c)' <=> AsyncWrite(c),
         \A q \in Proc \ {p} : Uncounted(q)' <=> Uncounted(q)
  PROVE  AsyncCount'
<1>1. /\ Writes = {c \in Buf : AsyncWrite(c)} /\ Pending = {q \in Proc : Uncounted(q)}
      /\ IsFiniteSet(Pending) /\ Cardinality(Writes) \in Nat /\ Cardinality(Pending) \in Nat
  BY CountSets
<1>2. Writes' = {c \in Buf : AsyncWrite(c)'} /\ Pending' = {q \in Proc : Uncounted(q)'}
  BY CountSetsPrime
<1>3. Writes' = Writes /\ Pending' = Pending \ {p} /\ p \in Pending
  BY <1>1, <1>2
<1>4. Cardinality(Pending') = Cardinality(Pending) - 1
  BY <1>1, <1>3, FS_RemoveElement
<1>5. basyncnt \in Int
  BY DEF TypeInv
<1> QED
  BY <1>1, <1>3, <1>4, <1>5, CountDef, CountDefPrime

(* The steps of a process that starts no write, and of one that releases   *)
(* a buffer or sets flags of one that is not at the device.                *)
LEMMA CountQuiet ==
  ASSUME TypeInv, TypeInv', AsyncCount, basyncnt' = basyncnt, NEW p \in Proc, Alone(p),
         ~Uncounted(p), ~Uncounted(p)', \A c \in Buf : AsyncWrite(c)' <=> AsyncWrite(c)
  PROVE  AsyncCount'
<1>1. \A q \in Proc : Uncounted(q)' <=> Uncounted(q)
  BY DEF Alone
<1> QED
  BY <1>1, CountKept

(* Steps that leave buffers and requests alone.                            *)
LEMMA CountStill ==
  ASSUME PlaceInv, TypeInv', AsyncCount, NEW p \in Proc, UNCHANGED <<b_flags, queue, basyncnt>>,
         Alone(p), ~Uncounted(p), ~Uncounted(p)'
  PROVE  AsyncCount'
<1>1. \A c \in Buf : AsyncWrite(c)' <=> AsyncWrite(c)
  BY DEF AsyncWrite, AtDevice, Has
<1> QED
  BY <1>1, CountQuiet DEF PlaceInv

(* Steps that change buffers which are not at the device.                  *)
LEMMA CountAway ==
  ASSUME PlaceInv, TypeInv', AsyncCount, NEW p \in Proc, UNCHANGED <<queue, basyncnt>>,
         Alone(p), ~Uncounted(p), ~Uncounted(p)',
         \A c \in Buf : AtDevice(c) => b_flags'[c] \cap {"ASYNC", "READ"} = b_flags[c] \cap {"ASYNC", "READ"}
  PROVE  AsyncCount'
<1>1. \A c \in Buf : AsyncWrite(c)' <=> AsyncWrite(c)
  <2> SUFFICES ASSUME NEW c \in Buf PROVE AsyncWrite(c)' <=> AsyncWrite(c)
    OBVIOUS
  <2>1. AtDevice(c)' <=> AtDevice(c)
    BY DEF AtDevice
  <2>2. AtDevice(c) => (Has(c, "ASYNC")' <=> Has(c, "ASYNC")) /\ (Has(c, "READ")' <=> Has(c, "READ"))
    BY DEF Has
  <2> QED
    BY <2>1, <2>2 DEF AsyncWrite
<1> QED
  BY <1>1, CountQuiet DEF PlaceInv

(* Steps that send a buffer to the device.                                 *)
LEMMA CountSent ==
  ASSUME PlaceInv, TypeInv', AsyncCount, NEW p \in Proc, NEW b \in Buf, NEW F \in SUBSET Flag,
         ~AtDevice(b), queue' = Append(queue, b), b_flags' = [b_flags EXCEPT ![b] = F],
         Alone(p), ~Uncounted(p),
         \/ basyncnt' = basyncnt /\ ("ASYNC" \notin F \/ "READ" \in F) /\ ~Uncounted(p)'
         \/ basyncnt' = basyncnt /\ "ASYNC" \in F /\ "READ" \notin F /\ Uncounted(p)'
         \/ basyncnt' = basyncnt + 1 /\ "ASYNC" \in F /\ "READ" \notin F /\ ~Uncounted(p)'
  PROVE  AsyncCount'
<1>1. TypeInv /\ queue \in Seq(Buf) /\ Distinct(queue) /\ b_flags \in [Buf -> SUBSET Flag]
  BY DEF PlaceInv, TypeInv
<1>2. ToSet(queue') = ToSet(queue) \cup {b}
  BY <1>1, AppendList DEF AtDevice
<1>3. \A c : AtDevice(c)' <=> AtDevice(c) \/ c = b
  BY <1>2 DEF AtDevice, ToSet
<1>4. b_flags'[b] = F /\ \A c \in Buf \ {b} : b_flags'[c] = b_flags[c]
  BY <1>1
<1>5. ~AsyncWrite(b) /\ (AsyncWrite(b)' <=> "ASYNC" \in F /\ "READ" \notin F)
  BY <1>3, <1>4 DEF AsyncWrite, Has
<1>6. \A c \in Buf \ {b} : AsyncWrite(c)' <=> AsyncWrite(c)
  BY <1>3, <1>4 DEF AsyncWrite, Has
<1>7. \A q \in Proc \ {p} : Uncounted(q)' <=> Uncounted(q)
  BY DEF Alone
<1>8. CASE basyncnt' = basyncnt /\ ("ASYNC" \notin F \/ "READ" \in F) /\ ~Uncounted(p)'
  BY <1>1, <1>5, <1>6, <1>8, CountQuiet
<1>9. CASE basyncnt' = basyncnt /\ "ASYNC" \in F /\ "READ" \notin F /\ Uncounted(p)'
  BY <1>1, <1>5, <1>6, <1>7, <1>9, CountLater
<1>10. CASE basyncnt' = basyncnt + 1 /\ "ASYNC" \in F /\ "READ" \notin F /\ ~Uncounted(p)'
  <2>1. \A q \in Proc : Uncounted(q)' <=> Uncounted(q)
    BY <1>7, <1>10
  <2> QED
    BY <1>1, <1>5, <1>6, <1>10, <2>1, CountMore
<1> QED
  BY <1>8, <1>9, <1>10

(* The interrupt counts the write that is done.                            *)
LEMMA CountInterrupt ==
  ASSUME PlaceInv, TypeInv', AsyncCount, NEW b \in Buf, Interrupt(b)
  PROVE  AsyncCount'
<1>1. TypeInv /\ b_flags \in [Buf -> SUBSET Flag]
  BY DEF PlaceInv, TypeInv
<1>2. PICK G : /\ G \in {b_flags[b] \cup {"DONE"}, b_flags[b] \cup {"DONE", "ERROR"}}
               /\ biodone(b, G) /\ Oldest(b)
  BY DEF Interrupt, ReadDone, WriteDone, IOError
<1>3. /\ AtDevice(b) /\ \A c : AtDevice(c)' <=> AtDevice(c) /\ c # b
      /\ \A c \in Buf \ {b} : b_flags'[c] = b_flags[c]
  BY <1>2, DoneFacts
<1>4. ("ASYNC" \in G <=> Has(b, "ASYNC")) /\ ("READ" \in G <=> Has(b, "READ"))
  BY <1>1, <1>2 DEF Has
<1>5. basyncnt' = (IF "ASYNC" \in G /\ "READ" \notin G THEN basyncnt - 1 ELSE basyncnt)
  BY <1>2 DEF biodone
<1>6. UNCHANGED <<pc, call>>
  BY <1>2 DEF biodone, proc
<1>7. \A q \in Proc : Uncounted(q)' <=> Uncounted(q)
  BY <1>6 DEF Uncounted
<1>8. ~AsyncWrite(b)' /\ (AsyncWrite(b) <=> "ASYNC" \in G /\ "READ" \notin G)
  BY <1>3, <1>4 DEF AsyncWrite
<1>9. \A c \in Buf \ {b} : AsyncWrite(c)' <=> AsyncWrite(c)
  BY <1>3 DEF AsyncWrite, Has
<1>10. CASE AsyncWrite(b)
  BY <1>1, <1>5, <1>7, <1>8, <1>9, <1>10, CountLess
<1>11. CASE ~AsyncWrite(b)
  <2>1. \A c \in Buf : AsyncWrite(c)' <=> AsyncWrite(c)
    BY <1>8, <1>9, <1>11
  <2> QED
    BY <1>1, <1>5, <1>7, <1>8, <1>11, <2>1, CountKept
<1> QED
  BY <1>10, <1>11

(* A step of p moves p alone.                                              *)
LEMMA CountMoves ==
  ASSUME TypeInv, NEW p \in Proc, NEW l, pc' = [pc EXCEPT ![p] = l],
         call' = call \/ \E r : call' = [call EXCEPT ![p] = r]
  PROVE  Alone(p) /\ pc'[p] = l
BY DEF TypeInv, Alone, Uncounted

(* A step from l to m, of which neither is bwrite() behind the driver.     *)
LEMMA CountGoes ==
  ASSUME TypeInv, NEW p \in Proc, NEW m, pc[p] # "bwrote", m # "bwrote",
         Goto(p, m) \/ Leave(p, m), call' = call \/ \E r : call' = [call EXCEPT ![p] = r]
  PROVE  Alone(p) /\ ~Uncounted(p) /\ ~Uncounted(p)'
<1>1. pc' = [pc EXCEPT ![p] = m]
  BY DEF Goto, Leave
<1>2. Alone(p) /\ pc'[p] = m
  BY <1>1, CountMoves
<1> QED
  BY <1>2 DEF Uncounted

(* The steps that leave buffers and requests alone.                        *)
LEMMA CountSteps ==
  ASSUME PlaceInv, TypeInv', AsyncCount, NEW p \in Proc,
         \/ GetblkFind(p) \/ GetblkMiss(p) \/ GotReady(p) \/ GotAhead(p) \/ AheadBegin(p)
         \/ AheadSkip(p) \/ BiowaitRead(p) \/ BwriteSync(p) \/ BflushReturn(p) \/ BlkflushReturn(p)
         \/ BdwaitDelay(p) \/ BdwaitReturn(p) \/ GetfreeSleep(p) \/ Request(p)
  PROVE  AsyncCount'
<1>1. TypeInv
  BY DEF PlaceInv
<1>2. UNCHANGED <<b_flags, queue, basyncnt>>
  BY DEF GetblkFind, GetblkMiss, GotReady, GotAhead, AheadBegin, AheadSkip, BiowaitRead, BwriteSync,
         BflushReturn, BlkflushReturn, BdwaitDelay, BdwaitReturn, GetfreeSleep, Request, bread,
         getblk, blkflush, breada, ngeteblk, bflush, bdwait, close, Call, bufs, dev
<1>3. Alone(p) /\ ~Uncounted(p) /\ ~Uncounted(p)'
  <2>1. CASE BwriteSync(p)
    <3>1. pc' = [pc EXCEPT ![p] = "biowait"] /\ call' = call
      BY <2>1 DEF BwriteSync, Goto
    <3>2. Alone(p) /\ pc'[p] = "biowait"
      BY <1>1, <3>1, CountMoves
    <3> QED
      BY <2>1, <3>2 DEF BwriteSync, Uncounted
  <2>2. CASE \/ GetblkFind(p) \/ GetblkMiss(p) \/ GotReady(p) \/ GotAhead(p) \/ BiowaitRead(p)
             \/ BdwaitDelay(p)
    <3>1. pc[p] # "bwrote" /\ (call' = call \/ call' = [call EXCEPT ![p] = NoCall])
      BY <2>2 DEF GetblkFind, GetblkMiss, GotReady, GotAhead, BiowaitRead, BdwaitDelay, At
    <3>2. \E m \in {"found", "getfree", "hold", "ahead", "delay"} : Goto(p, m) \/ Leave(p, m)
      BY <2>2 DEF GetblkFind, GetblkMiss, GotReady, GotAhead, BiowaitRead, BdwaitDelay
    <3> QED
      BY <1>1, <3>1, <3>2, CountGoes
  <2>3. CASE AheadBegin(p) \/ AheadSkip(p)
    <3>1. pc[p] # "bwrote" /\ \E r : call' = [call EXCEPT ![p] = r]
      BY <2>3 DEF AheadBegin, AheadSkip, AheadDone, At
    <3>2. \E m \in {"getblk", "biowait"} : Goto(p, m) \/ Leave(p, m)
      BY <2>3 DEF AheadBegin, AheadSkip, AheadDone
    <3> QED
      BY <1>1, <3>1, <3>2, CountGoes
  <2>4. CASE BflushReturn(p) \/ BlkflushReturn(p) \/ BdwaitReturn(p)
    <3>1. pc[p] # "bwrote" /\ Leave(p, "user") /\ call' = [call EXCEPT ![p] = NoCall]
      BY <2>4 DEF BflushReturn, BlkflushReturn, BdwaitReturn, Return, At
    <3> QED
      BY <1>1, <3>1, CountGoes
  <2>5. CASE GetfreeSleep(p)
    <3>1. pc[p] # "bwrote" /\ call' = call
      BY <2>5 DEF GetfreeSleep, At
    <3>2. \E m \in {"getfree", "getblk"} : Leave(p, m)
      BY <2>5 DEF GetfreeSleep, Sleep
    <3> QED
      BY <1>1, <3>1, <3>2, CountGoes
  <2>6. CASE Request(p)
    <3>1. \E o, k, r : \E m \in {"getblk", "getfree", "ahead", "bflush", "blkflush", "bdwait"} :
             Call(p, o, k, r, m)
      BY <2>6, Zenon DEF Request, bread, getblk, blkflush, breada, ngeteblk, bflush, bdwait, close
    <3>2. PICK m \in {"getblk", "getfree", "ahead", "bflush", "blkflush", "bdwait"} :
             pc[p] = "user" /\ Goto(p, m) /\ \E s : call' = [call EXCEPT ![p] = s]
      BY <3>1 DEF Call, At
    <3> QED
      BY <1>1, <3>2, CountGoes
  <2> QED
    BY <2>1, <2>2, <2>3, <2>4, <2>5, <2>6
<1> QED
  BY <1>2, <1>3, CountStill

(* brelse() of a buffer that is not at the device.                         *)
LEMMA CountRelease ==
  ASSUME PlaceInv, TypeInv', AsyncCount, NEW p \in Proc, NEW b \in Buf, ~AtDevice(b),
         NEW fl, NEW list, brelse(b, fl, list), UNCHANGED <<queue, basyncnt>>,
         \A c \in Buf \ {b} : AtDevice(c) => fl[c] = b_flags[c], fl \in [Buf -> SUBSET Flag],
         Alone(p), ~Uncounted(p), ~Uncounted(p)'
  PROVE  AsyncCount'
<1>1. \A c \in Buf \ {b} : b_flags'[c] = fl[c]
  BY DEF brelse
<1> QED
  BY <1>1, CountAway

(* The steps that release a buffer.                                        *)
LEMMA CountReleases ==
  ASSUME PlaceInv, TypeInv', AsyncCount, NEW p \in Proc,
         Release(p) \/ BiowaitWritten(p) \/ bdwrite(p) \/ AheadValid(p)
  PROVE  AsyncCount'
<1> USE BufAssumption
<1>1. TypeInv /\ ProcOK(p) /\ b_flags \in [Buf -> SUBSET Flag]
  BY DEF PlaceInv, TypeInv
<1>2. CASE Release(p)
  <2>1. /\ bp[p] \in Buf /\ ~AtDevice(bp[p]) /\ brelse(bp[p], b_flags, avail)
        /\ UNCHANGED <<queue, basyncnt>>
    BY <1>1, <1>2 DEF Release, At, ProcOK, TypeInv, dev
  <2>2. pc[p] # "bwrote" /\ Leave(p, "user") /\ call' = [call EXCEPT ![p] = NoCall]
    BY <1>2 DEF Release, Return, At
  <2>3. Alone(p) /\ ~Uncounted(p) /\ ~Uncounted(p)'
    BY <1>1, <2>2, CountGoes
  <2> QED
    BY <1>1, <2>1, <2>3, CountRelease
<1>3. CASE BiowaitWritten(p)
  <2>1. /\ bp[p] \in Buf /\ Has(bp[p], "DONE") /\ brelse(bp[p], b_flags, avail)
        /\ UNCHANGED <<queue, basyncnt>>
    BY <1>1, <1>3 DEF BiowaitWritten, At, ProcOK, TypeInv, dev
  <2>2. ~AtDevice(bp[p])
    BY <2>1 DEF PlaceInv, BufOK
  <2>3. /\ pc[p] # "bwrote" /\ (call' = call \/ \E r : call' = [call EXCEPT ![p] = r])
        /\ \E m \in {"user", "blkflush"} : Goto(p, m) \/ Leave(p, m)
    BY <1>3 DEF BiowaitWritten, Return, At
  <2>4. Alone(p) /\ ~Uncounted(p) /\ ~Uncounted(p)'
    BY <1>1, <2>3, CountGoes
  <2> QED
    BY <1>1, <2>1, <2>2, <2>4, CountRelease
<1>4. CASE bdwrite(p)
  <2>1. PICK b : b = bp[p]
    OBVIOUS
  <2>2. b \in Buf /\ ~AtDevice(b) /\ pc[p] # "bwrote"
    BY <1>1, <1>4, <2>1 DEF bdwrite, NewData, At, ProcOK, TypeInv
  <2> DEFINE fl == [b_flags EXCEPT ![b] = @ \cup {"DELWRI", "DONE"}]
  <2>3. fl \in [Buf -> SUBSET Flag] /\ \A c \in Buf \ {b} : fl[c] = b_flags[c]
    BY <1>1, <2>2 DEF Flag
  <2>4. brelse(b, fl, avail) /\ UNCHANGED <<queue, basyncnt>>
    BY <1>4, <2>1 DEF bdwrite, dev
  <2> HIDE DEF fl
  <2>5. Leave(p, "user") /\ call' = [call EXCEPT ![p] = NoCall]
    BY <1>4 DEF bdwrite, Return
  <2>6. Alone(p) /\ ~Uncounted(p) /\ ~Uncounted(p)'
    BY <1>1, <2>2, <2>5, CountGoes
  <2> QED
    BY <2>2, <2>3, <2>4, <2>6, CountRelease
<1>5. CASE AheadValid(p)
  <2>1. /\ nbp[p] \in Buf /\ ~AtDevice(nbp[p]) /\ brelse(nbp[p], b_flags, avail)
        /\ UNCHANGED <<queue, basyncnt>>
    BY <1>1, <1>5 DEF AheadValid, At, ProcOK, TypeInv, dev
  <2>2. /\ pc[p] # "bwrote" /\ \E r : call' = [call EXCEPT ![p] = r]
        /\ \E m \in {"getblk", "biowait"} : Goto(p, m)
    BY <1>5 DEF AheadValid, AheadDone, At
  <2>3. Alone(p) /\ ~Uncounted(p) /\ ~Uncounted(p)'
    BY <1>1, <2>2, CountGoes
  <2> QED
    BY <1>1, <2>1, <2>3, CountRelease
<1> QED
  BY <1>2, <1>3, <1>4, <1>5

(* The steps that set flags, or take a buffer.                             *)
LEMMA CountFlags ==
  ASSUME PlaceInv, TypeInv', AsyncCount, NEW p \in Proc,
         \/ BusySleep(p) \/ BiowaitSleep(p) \/ GetfreeReuse(p) \/ GetfreeAlloc(p)
         \/ GetblkNew(p) \/ GetblkHit(p) \/ binval(p)
  PROVE  AsyncCount'
<1> USE BufAssumption
<1>1. TypeInv /\ ProcOK(p) /\ b_flags \in [Buf -> SUBSET Flag] /\ avail \in Seq(Buf)
  BY DEF PlaceInv, TypeInv
<1>2. UNCHANGED <<queue, basyncnt>>
  BY DEF BusySleep, BiowaitSleep, GetfreeReuse, GetfreeAlloc, GetblkNew, GetblkHit, binval, dev
<1>3. ASSUME NEW b \in Buf, NEW F, b_flags' = [b_flags EXCEPT ![b] = F],
             ~AtDevice(b) \/ F = b_flags[b] \cup {"WANTED"},
             Alone(p), ~Uncounted(p), ~Uncounted(p)'
      PROVE  AsyncCount'
  <2>1. \A c \in Buf : AtDevice(c) =>
           b_flags'[c] \cap {"ASYNC", "READ"} = b_flags[c] \cap {"ASYNC", "READ"}
    <3> SUFFICES ASSUME NEW c \in Buf, AtDevice(c)
                 PROVE  b_flags'[c] \cap {"ASYNC", "READ"} = b_flags[c] \cap {"ASYNC", "READ"}
      OBVIOUS
    <3>1. b_flags'[c] = b_flags[c] \/ b_flags'[c] = b_flags[c] \cup {"WANTED"}
      BY <1>1, <1>3
    <3> QED
      BY <3>1
  <2> QED
    BY <1>2, <1>3, <2>1, CountAway
<1>4. CASE BusySleep(p) \/ BiowaitSleep(p)
  <2>1. PICK b \in Buf : b_flags' = [b_flags EXCEPT ![b] = b_flags[b] \cup {"WANTED"}]
    <3>1. CASE BusySleep(p)
      BY <3>1 DEF BusySleep
    <3>2. CASE BiowaitSleep(p)
      <4>1. bp[p] \in Buf
        BY <1>1, <3>2 DEF BiowaitSleep, At, ProcOK, TypeInv
      <4> QED
        BY <3>2, <4>1 DEF BiowaitSleep
    <3> QED
      BY <1>4, <3>1, <3>2
  <2>2. /\ pc[p] # "bwrote" /\ call' = call
        /\ \E m \in {"getblk", "blkflush", "biowait"} : Leave(p, m)
    BY <1>4 DEF BusySleep, BiowaitSleep, Busy, Sleep, At
  <2>3. Alone(p) /\ ~Uncounted(p) /\ ~Uncounted(p)'
    BY <1>1, <2>2, CountGoes
  <2> QED
    BY <1>3, <2>1, <2>3
<1>5. ASSUME NEW b \in Buf, ~Has(b, "BUSY"), NEW cpus, GotFree(p, b, cpus), pc[p] = "getfree",
             call' = call
      PROVE  AsyncCount'
  <2>1. ~AtDevice(b)
    BY <1>5 DEF PlaceInv, BufOK
  <2>2. \E F : b_flags' = [b_flags EXCEPT ![b] = F]
    BY <1>5 DEF GotFree
  <2>3. \E m \in {"hold", "getblk"} : pc' = [pc EXCEPT ![p] = m]
    BY <1>5 DEF GotFree, Leave
  <2>4. Alone(p) /\ pc'[p] # "bwrote"
    BY <1>1, <1>5, <2>3, CountMoves
  <2> QED
    BY <1>3, <1>5, <2>1, <2>2, <2>4 DEF Uncounted
<1>6. CASE GetfreeReuse(p)
  <2>1. avail # <<>> /\ Head(avail) \in ToSet(avail)
    BY <1>1, <1>6, TailList DEF GetfreeReuse, TakesHead, PlaceInv
  <2>2. Head(avail) \in Buf /\ ~Has(Head(avail), "BUSY")
    BY <2>1, OnFreeList
  <2>3. GotFree(p, Head(avail), {p}) /\ pc[p] = "getfree" /\ call' = call
    BY <1>6 DEF GetfreeReuse, At
  <2> QED
    BY <1>5, <2>2, <2>3
<1>7. CASE GetfreeAlloc(p)
  <2>1. PICK b \in bhdrlist : GotFree(p, b, {None, p})
    BY <1>7 DEF GetfreeAlloc
  <2>2. b \in Buf /\ ~Has(b, "BUSY")
    BY <1>1 DEF PlaceInv, BufOK, TypeInv
  <2>3. pc[p] = "getfree" /\ call' = call
    BY <1>7 DEF GetfreeAlloc, At
  <2> QED
    BY <1>5, <2>1, <2>2, <2>3
<1>8. CASE GetblkNew(p)
  <2>1. nbp[p] \in Buf /\ ~AtDevice(nbp[p]) /\ b_flags' = [b_flags EXCEPT ![nbp[p]] = {"BUSY"}]
    BY <1>1, <1>8 DEF GetblkNew, ProcOK, TypeInv
  <2>2. pc[p] # "bwrote" /\ Goto(p, "got") /\ call' = call
    BY <1>8 DEF GetblkNew, At
  <2>3. Alone(p) /\ ~Uncounted(p) /\ ~Uncounted(p)'
    BY <1>1, <2>2, CountGoes
  <2> QED
    BY <1>3, <2>1, <2>3
<1>9. CASE GetblkHit(p)
  <2> DEFINE T(b) == [b_flags EXCEPT ![b] = (b_flags[b] \ {"AGE"}) \cup {"BUSY"}]
  <2>0. PICK b : b = hit[p]
    OBVIOUS
  <2>1. /\ ~Has(b, "BUSY")
        /\ IF nbp[p] = None
             THEN b_flags' = T(b) /\ notavail(b) /\ UNCHANGED <<wchan, flwanted>>
             ELSE brelse(nbp[p], [T(b) EXCEPT ![nbp[p]] = {"BUSY"}], Unlinked(avail, b))
    BY <1>9, <2>0 DEF GetblkHit
  <2>2. b \in Buf /\ ~AtDevice(b)
    <3>1. b \in Buf
      BY <1>1, <1>9, <2>0 DEF GetblkHit, At, ProcOK
    <3> QED
      BY <2>1, <3>1 DEF PlaceInv, BufOK
  <2>3. pc[p] # "bwrote" /\ Goto(p, "got") /\ call' = call
    BY <1>9 DEF GetblkHit, At
  <2>4. Alone(p) /\ ~Uncounted(p) /\ ~Uncounted(p)'
    BY <1>1, <2>3, CountGoes
  <2>5. CASE nbp[p] = None
    BY <1>3, <2>1, <2>2, <2>4, <2>5
  <2>6. CASE nbp[p] # None
    <3>1. nbp[p] \in Buf /\ ~AtDevice(nbp[p])
      BY <1>1, <2>6 DEF TypeInv, ProcOK
    <3> DEFINE fl == [T(b) EXCEPT ![nbp[p]] = {"BUSY"}]
    <3>2. T(b) \in [Buf -> SUBSET Flag] /\ \A c \in Buf \ {b} : T(b)[c] = b_flags[c]
      BY <1>1, <2>2 DEF Flag
    <3> HIDE DEF T
    <3>3. fl \in [Buf -> SUBSET Flag] /\ \A c \in Buf \ {b, nbp[p]} : fl[c] = b_flags[c]
      BY <3>1, <3>2 DEF Flag
    <3>4. brelse(nbp[p], fl, Unlinked(avail, b))
      BY <2>1, <2>6
    <3> HIDE DEF fl
    <3> QED
      BY <1>2, <2>2, <2>4, <3>1, <3>3, <3>4, CountRelease
  <2> QED
    BY <2>5, <2>6
<1>10. CASE binval(p)
  <2>1. \A c \in Buf : b_flags'[c] \cap {"ASYNC", "READ"} = b_flags[c] \cap {"ASYNC", "READ"}
    BY <1>10 DEF binval
  <2>2. pc[p] # "bwrote" /\ Leave(p, "user") /\ call' = [call EXCEPT ![p] = NoCall]
    BY <1>10 DEF binval, Return, At
  <2>3. Alone(p) /\ ~Uncounted(p) /\ ~Uncounted(p)'
    BY <1>1, <2>2, CountGoes
  <2> QED
    BY <1>2, <2>1, <2>3, CountAway
<1> QED
  BY <1>4, <1>6, <1>7, <1>8, <1>9, <1>10

(* The steps that start a read, or a write that is waited for.             *)
LEMMA CountSyncs ==
  ASSUME PlaceInv, TypeInv', AsyncCount, NEW p \in Proc,
         GotRead(p) \/ AheadRead(p) \/ BlkflushWrite(p)
  PROVE  AsyncCount'
<1> USE BufAssumption
<1>1. TypeInv /\ ProcOK(p) /\ b_flags \in [Buf -> SUBSET Flag]
  BY DEF PlaceInv, TypeInv
<1>2. basyncnt' = basyncnt
  BY DEF GotRead, AheadRead, BlkflushWrite
<1>3. CASE GotRead(p) \/ AheadRead(p)
  <2>1. PICK b : b = nbp[p]
    OBVIOUS
  <2>2. b \in Buf /\ ~AtDevice(b)
    BY <1>1, <1>3, <2>1 DEF GotRead, AheadRead, At, ProcOK, TypeInv
  <2>3. PICK F \in SUBSET Flag :
          b_flags' = [b_flags EXCEPT ![b] = F] /\ "READ" \in F /\ queue' = Append(queue, b)
    <3>1. b_flags[b] \cup {"READ"} \in SUBSET Flag /\ b_flags[b] \cup {"READ", "ASYNC"} \in SUBSET Flag
      BY <1>1, <2>2 DEF Flag
    <3>2. CASE GotRead(p)
      BY <2>1, <3>1, <3>2 DEF GotRead, strategy
    <3>3. CASE AheadRead(p)
      BY <2>1, <3>1, <3>3 DEF AheadRead, strategy
    <3> QED
      BY <1>3, <3>2, <3>3
  <2>4. /\ pc[p] # "bwrote" /\ (call' = call \/ \E r : call' = [call EXCEPT ![p] = r])
        /\ \E m \in {"biowait", "ahead", "getblk"} : Goto(p, m)
    BY <1>3 DEF GotRead, AheadRead, AheadDone, At
  <2>5. Alone(p) /\ ~Uncounted(p) /\ ~Uncounted(p)'
    BY <1>1, <2>4, CountGoes
  <2> QED
    BY <1>2, <2>2, <2>3, <2>5, CountSent
<1>4. CASE BlkflushWrite(p)
  <2>1. PICK b \in Hashed(call[p].blk) :
          /\ ~Has(b, "BUSY") /\ queue' = Append(queue, b)
          /\ b_flags' = [b_flags EXCEPT ![b] = WriteFlags(b_flags[b] \cup {"BUSY"})]
    BY <1>4 DEF BlkflushWrite, strategy
  <2>2. b \in Buf /\ ~AtDevice(b) /\ ~Has(b, "ASYNC")
    BY <2>1 DEF Hashed, PlaceInv, BufOK
  <2>3. b_flags[b] \cup {"BUSY"} \in SUBSET Flag /\ "ASYNC" \notin b_flags[b] \cup {"BUSY"}
    BY <1>1, <2>2 DEF Flag, Has
  <2>4. /\ WriteFlags(b_flags[b] \cup {"BUSY"}) \in SUBSET Flag
        /\ "ASYNC" \notin WriteFlags(b_flags[b] \cup {"BUSY"})
    BY <2>3, WrittenFlags
  <2>5. pc[p] = "blkflush" /\ pc' = [pc EXCEPT ![p] = "bwrote"] /\ call' = call
    BY <1>4 DEF BlkflushWrite, At, Goto
  <2>6. Alone(p) /\ ~Uncounted(p) /\ ~Uncounted(p)'
    <3>1. Alone(p)
      BY <1>1, <2>5, CountMoves
    <3>2. call[p].op = "blkflush"
      BY <1>1, <2>5 DEF ProcOK
    <3> QED
      BY <2>5, <3>1, <3>2 DEF Uncounted
  <2> QED
    BY <1>2, <2>1, <2>2, <2>4, <2>6, CountSent
<1> QED
  BY <1>3, <1>4

(* bwrite() and bawrite(), up to the return of the driver.                 *)
LEMMA CountWrites ==
  ASSUME PlaceInv, TypeInv', AsyncCount, NEW p \in Proc, bwrite(p) \/ bawrite(p)
  PROVE  AsyncCount'
<1> USE BufAssumption
<1>1. TypeInv /\ ProcOK(p) /\ b_flags \in [Buf -> SUBSET Flag]
  BY DEF PlaceInv, TypeInv
<1>2. PICK b : b = bp[p]
  OBVIOUS
<1>3. PICK G : StartWrite(p, G) /\ G \in {b_flags[b], b_flags[b] \cup {"ASYNC"}}
  BY <1>2 DEF bwrite, bawrite
<1>4. b \in Buf /\ ~AtDevice(b) /\ pc[p] = "hold"
  BY <1>1, <1>2, <1>3 DEF StartWrite, NewData, At, ProcOK, TypeInv
<1>5. G \in SUBSET Flag
  BY <1>1, <1>3, <1>4 DEF Flag
<1>6. PICK F : F = WriteFlags(G)
  OBVIOUS
<1>7. F \in SUBSET Flag /\ "READ" \notin F /\ ("ASYNC" \in F <=> "ASYNC" \in G)
  BY <1>5, <1>6, WrittenFlags
<1>8. /\ b_flags' = [b_flags EXCEPT ![b] = F] /\ queue' = Append(queue, b) /\ basyncnt' = basyncnt
      /\ pc' = [pc EXCEPT ![p] = "bwrote"]
      /\ call' = [call EXCEPT ![p] = [op |-> IF "ASYNC" \in G THEN "bawrite" ELSE "bwrite",
                                      blk |-> None, ra |-> None]]
  BY <1>2, <1>3, <1>6 DEF StartWrite, strategy, Goto
<1>9. Alone(p) /\ pc'[p] = "bwrote"
  BY <1>1, <1>8, CountMoves
<1>10. ~Uncounted(p) /\ (Uncounted(p)' <=> "ASYNC" \in G)
  BY <1>1, <1>4, <1>8, <1>9 DEF Uncounted, TypeInv
<1> QED
  BY <1>4, <1>7, <1>8, <1>9, <1>10, CountSent

(* getfreeblk() and bflush() start an asynchronous write and count it.     *)
LEMMA CountFlushes ==
  ASSUME PlaceInv, TypeInv', AsyncCount, NEW p \in Proc, GetfreeWrite(p) \/ BflushWrite(p)
  PROVE  AsyncCount'
<1> USE BufAssumption
<1>1. TypeInv /\ avail \in Seq(Buf) /\ Distinct(avail) /\ b_flags \in [Buf -> SUBSET Flag]
  BY DEF PlaceInv, TypeInv
<1>2. ASSUME NEW b \in ToSet(avail), NEW G, {"BUSY", "ASYNC"} \subseteq G,
             G \subseteq {"BUSY", "ASYNC", "AGE"}, queue' = Append(queue, b),
             b_flags' = [b_flags EXCEPT ![b] = WriteFlags(@ \cup G)]
      PROVE  AsyncCount'
  <2>1. b \in Buf /\ ~Has(b, "BUSY")
    BY OnFreeList
  <2>2. ~AtDevice(b)
    BY <2>1 DEF PlaceInv, BufOK
  <2>3. PICK F : F = WriteFlags(b_flags[b] \cup G)
    OBVIOUS
  <2>4. b_flags[b] \cup G \in SUBSET Flag /\ "ASYNC" \in b_flags[b] \cup G
    BY <1>1, <1>2, <2>1 DEF Flag
  <2>5. F \in SUBSET Flag /\ "READ" \notin F /\ "ASYNC" \in F
    BY <2>3, <2>4, WrittenFlags
  <2>6. b_flags' = [b_flags EXCEPT ![b] = F]
    BY <1>2, <2>3
  <2>7. /\ pc[p] # "bwrote" /\ call' = call /\ basyncnt' = basyncnt + 1
        /\ \E m \in {"getfree", "bflush"} : Goto(p, m)
    BY DEF GetfreeWrite, BflushWrite, At
  <2>8. Alone(p) /\ ~Uncounted(p) /\ ~Uncounted(p)'
    BY <1>1, <2>7, CountGoes
  <2> QED
    BY <1>2, <2>1, <2>2, <2>5, <2>6, <2>7, <2>8, CountSent
<1>3. CASE GetfreeWrite(p)
  <2>1. Head(avail) \in ToSet(avail)
    BY <1>1, <1>3, TailList DEF GetfreeWrite, TakesHead
  <2>2. /\ b_flags' = [b_flags EXCEPT ![Head(avail)] = WriteFlags(@ \cup {"BUSY", "ASYNC", "AGE"})]
        /\ queue' = Append(queue, Head(avail))
    BY <1>3 DEF GetfreeWrite, strategy
  <2> QED
    BY <1>2, <2>1, <2>2
<1>4. CASE BflushWrite(p)
  <2>1. PICK i \in Delayed :
          /\ b_flags' = [b_flags EXCEPT ![avail[i]] = WriteFlags(@ \cup {"BUSY", "ASYNC"})]
          /\ queue' = Append(queue, avail[i])
    BY <1>4 DEF BflushWrite, strategy
  <2>2. avail[i] \in ToSet(avail)
    BY <1>1, Members DEF Delayed
  <2> QED
    BY <1>2, <2>1, <2>2
<1> QED
  BY <1>3, <1>4

(* Every step counts the asynchronous writes.                              *)
LEMMA NextCount ==
  ASSUME PlaceInv, TypeInv', AsyncCount, [Next]_vars
  PROVE  AsyncCount'
<1>1. TypeInv
  BY DEF PlaceInv
<1>2. ASSUME NEW p \in Proc, BwriteAsync(p) PROVE AsyncCount'
  <2>1. /\ Uncounted(p) /\ basyncnt' = basyncnt + 1 /\ UNCHANGED <<b_flags, queue>>
        /\ pc' = [pc EXCEPT ![p] = "user"] /\ call' = [call EXCEPT ![p] = NoCall]
    BY <1>2 DEF BwriteAsync, Uncounted, At, Return, Leave, bufs, dev
  <2>2. Alone(p) /\ pc'[p] = "user"
    BY <1>1, <2>1, CountMoves
  <2>3. ~Uncounted(p)' /\ \A c \in Buf : AsyncWrite(c)' <=> AsyncWrite(c)
    BY <2>1, <2>2 DEF Uncounted, AsyncWrite, AtDevice, Has
  <2> QED
    BY <1>1, <2>1, <2>2, <2>3, CountNow DEF Alone
<1>3. ASSUME NEW p \in Proc, Step(p) PROVE AsyncCount'
  BY <1>2, <1>3, CountSteps, CountReleases, CountFlags, CountSyncs, CountWrites, CountFlushes
     DEF Step
<1>4. CASE UNCHANGED vars
  <2>1. (\A c \in Buf : AsyncWrite(c)' <=> AsyncWrite(c)) /\ \A q \in Proc : Uncounted(q)' <=> Uncounted(q)
    BY <1>4 DEF vars, bufs, dev, proc, AsyncWrite, AtDevice, Has, Uncounted
  <2> QED
    BY <1>1, <1>4, <2>1, CountKept DEF vars
<1> QED
  BY <1>3, <1>4, CountSteps, CountInterrupt DEF Next

(* basyncnt is the number of asynchronous writes at the device, up to the  *)
(* increment that bwrite() does after the driver has returned.             *)
THEOREM AsyncCountAlways == Spec => []AsyncCount
<1>1. Init => AsyncCount
  <2> SUFFICES ASSUME Init PROVE AsyncCount
    OBVIOUS
  <2>1. Pending = {} /\ Writes = {} /\ basyncnt = 0
    BY DEF Init, Pending, Writes, ToSet
  <2>2. Cardinality({}) = 0
    BY FS_EmptySet
  <2> QED
    BY <2>1, <2>2, CountDef
<1>2. PlaceInv /\ PlaceInv' /\ AsyncCount /\ [Next]_vars => AsyncCount'
  BY NextCount DEF PlaceInv
<1> QED
  BY <1>1, <1>2, PlaceCorrect, PTL DEF Spec

=============================================================================
