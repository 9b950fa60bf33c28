--------------------------- MODULE ProcessProofs ---------------------------
(***************************************************************************)
(* FamilyOK holds in every state, whatever the size of the process table.  *)
(*                                                                         *)
(* FamilyOK is not inductive.  To free a slot is safe because a process    *)
(* that has exited, or that fork() has not finished, is nobody's parent    *)
(* (Kin); what waitid() reports as exited is a zombie, and what fork()     *)
(* gives up is its own child (InCall).  To hand orphans over is safe        *)
(* because a next of kin is never among its own descendants (NoCycle), and *)
(* init is there to inherit because no signal makes it exit (InitLives).   *)
(*                                                                         *)
(* ReportTrue and WaiterBlocked need each other's company less than that   *)
(* of the chains: a child that has something to report wakes its parent,   *)
(* which is asleep on the child or on itself (WaitInv), and the chains say *)
(* who the parent is.                                                      *)
(***************************************************************************)
EXTENDS Process, TLAPS

Stat == {"free", "SIDL", "SRUN", "SSLEEP", "SSTOP", "SZOMB"}
Code == {"0", "CLD_STOPPED", "CLD_CONTINUED", "CLD_EXITED"}
Pending == {"SIGKILL", "SIGSTOP", "SIGCLD"}
Sent == {"SIGKILL", "SIGSTOP", "SIGCONT"}
Active == {"SRUN", "SSLEEP", "SSTOP"}

Tables ==
  [stat : [Proc -> Stat], wchan : [Proc -> Proc \cup {None}],
   wcode : [Proc -> Code], sig : [Proc -> SUBSET Pending]]

Waits == [op : {"waitid"}, id : Proc \cup {None}, jobs : BOOLEAN]

CallType ==
  [op : {"user", "childeath", "exit", "dying"}] \cup Waits
    \cup [op : {"fork"}, child : Proc] \cup [op : {"kill"}, to : Proc, sig : Sent]

Typed ==
  /\ Table \in Tables
  /\ p_parent \in [Proc -> Proc \cup {None}]
  /\ p_nextofkin \in [Proc -> Proc \cup {None}]
  /\ p_child \in [Proc -> SUBSET Proc]
  /\ p_orphan \in [Proc -> SUBSET Proc]
  /\ call \in [Proc -> CallType]

Chains ==
  \A p \in Proc :
    /\ p_child[p] = {q \in Alive : p_parent[q] = p}
    /\ p_orphan[p] = {q \in Alive : p_nextofkin[q] = p}

Settled(p) == p \in Proc /\ p_stat[p] \in Active /\ call[p].op # "dying"

Kin ==
  \A p \in Proc :
    p_stat[p] # "free" /\ p # init => Settled(p_parent[p]) /\ Settled(p_nextofkin[p])

NoCycle ==
  \A S \in SUBSET Proc : S # {} => \E q \in S : p_nextofkin[q] \notin S

InCall ==
  \A p \in Proc :
    /\ p_stat[p] \notin Active => call[p] = User
    /\ call[p].op = "fork" => p_stat[call[p].child] = "SIDL" /\ p_parent[call[p].child] = p
    /\ p_wcode[p] = "CLD_EXITED" => p_stat[p] = "SZOMB"

InitLives ==
  /\ p_stat[init] \in Active /\ call[init].op \notin {"exit", "dying"}
  /\ "SIGKILL" \notin p_sig[init]
  /\ p_parent[init] = None /\ p_nextofkin[init] = None
  /\ \A p \in Proc : call[p].op = "kill" /\ call[p].to = init => call[p].sig = "SIGCONT"

FreeAlone == \A p \in Proc : p_stat[p] = "free" => p_nextofkin[p] = None

IInv == Typed /\ Chains /\ Kin /\ FreeAlone /\ NoCycle /\ InCall /\ InitLives

-----------------------------------------------------------------------------
(* What signals and wakeups do to the process table: they move processes   *)
(* between the active states only, report nobody as exited, and do not     *)
(* kill init.                                                              *)
Calm(t, u) ==
  /\ u \in Tables
  /\ \A p \in Proc :
       /\ u.stat[p] = t.stat[p] \/ (t.stat[p] \in Active /\ u.stat[p] \in Active)
       /\ u.wcode[p] = "CLD_EXITED" => t.wcode[p] = "CLD_EXITED"
  /\ "SIGKILL" \in u.sig[init] => "SIGKILL" \in t.sig[init]

(* wakeprocs() makes runnable only those that sleep.                       *)
LEMMA WakeCalm ==
  ASSUME NEW t \in Tables, NEW chans
  PROVE  Calm(t, wakeprocs(t, chans)) /\ wakeprocs(t, chans) \in Tables
BY InitAssumption DEF Calm, wakeprocs, Tables, Active, Stat

(* unsleep() only empties p_wchan.                                         *)
LEMMA UnsleepCalm ==
  ASSUME NEW t \in Tables, NEW p \in Proc
  PROVE  Calm(t, unsleep(t, p))
BY InitAssumption DEF Calm, unsleep, Tables

(* setrun() runs a process that slept or was stopped.                      *)
LEMMA SetrunCalm ==
  ASSUME NEW t \in Tables, NEW p \in Proc, t.stat[p] \in Active
  PROVE  Calm(t, setrun(t, p))
BY InitAssumption DEF Calm, setrun, unsleep, Tables, Active, Stat, Code

(* Two changes of this kind make one.                                      *)
LEMMA CalmTwice ==
  ASSUME NEW t \in Tables, NEW u \in Tables, NEW v, Calm(t, u), Calm(u, v)
  PROVE  Calm(t, v)
BY DEF Calm

(* SIGCONT takes a pending SIGSTOP back and runs a stopped process.        *)
LEMMA ContinuedCalm ==
  ASSUME NEW t \in Tables, NEW p \in Proc
  PROVE  Calm(t, Continued(t, p))
<1> DEFINE u == [t EXCEPT !.sig[p] = @ \ {"SIGSTOP"}]
<1>1. u \in Tables /\ Calm(t, u) /\ u.stat = t.stat
  BY InitAssumption DEF Calm, Tables
<1>2. CASE t.stat[p] = "SSTOP"
  <2>1. Calm(u, setrun(u, p))
    BY <1>1, <1>2, SetrunCalm DEF Active
  <2> QED
    BY <1>1, <1>2, <2>1, CalmTwice DEF Continued
<1>3. CASE t.stat[p] # "SSTOP"
  BY <1>1, <1>3 DEF Continued
<1> QED
  BY <1>2, <1>3

(* A signal that is posted wakes those that sleep interruptibly.           *)
LEMMA NoticedCalm ==
  ASSUME NEW t \in Tables, NEW p \in Proc, NEW s
  PROVE  Calm(t, Noticed(t, p, s))
<1>1. Calm(t, t)
  BY DEF Calm
<1>2. CASE t.stat[p] = "SSLEEP"
  BY <1>2, SetrunCalm DEF Noticed, Active
<1>3. CASE t.stat[p] = "SSTOP" /\ s = "SIGKILL"
  BY <1>3, SetrunCalm DEF Noticed, Active
<1>4. CASE t.stat[p] = "SSTOP" /\ s # "SIGKILL"
  BY <1>4, UnsleepCalm DEF Noticed
<1>5. CASE t.stat[p] \notin {"SSLEEP", "SSTOP"}
  BY <1>1, <1>5 DEF Noticed
<1> QED
  BY <1>2, <1>3, <1>4, <1>5

(* sigtoproc(), unless it sends SIGKILL to init.                           *)
LEMMA SigtoprocCalm ==
  ASSUME NEW t \in Tables, NEW p \in Proc, NEW s \in Sent \cup {"SIGCLD"},
         p = init => s # "SIGKILL"
  PROVE  Calm(t, sigtoproc(t, p, s))
<1> DEFINE u == IF s = "SIGCONT" THEN Continued(t, p) ELSE t
           v == [u EXCEPT !.sig[p] = @ \cup {s}]
<1>1. u \in Tables /\ Calm(t, u)
  BY ContinuedCalm DEF Calm
<1>2. CASE Ignores(p, s)
  BY <1>1, <1>2 DEF sigtoproc
<1>3. CASE ~Ignores(p, s)
  <2>1. s \in Pending
    BY <1>3 DEF Ignores, Sent, Pending
  <2>2. v \in Tables /\ Calm(u, v)
    BY <1>1, <2>1, InitAssumption, SMTT(30) DEF Calm, Tables
  <2>3. Calm(u, Noticed(v, p, s))
    <3>1. Calm(v, Noticed(v, p, s))
      BY <2>2, NoticedCalm
    <3> HIDE DEF u, v
    <3> QED
      BY <1>1, <2>2, <3>1, CalmTwice
  <2>4. Calm(t, Noticed(v, p, s))
    <3> HIDE DEF u, v
    <3> QED
      BY <1>1, <2>3, CalmTwice
  <2> QED
    BY <1>3, <2>4 DEF sigtoproc
<1> QED
  BY <1>2, <1>3

(* sigcld() wakes the parent, or posts SIGCLD to it.                       *)
LEMMA SigcldCalm ==
  ASSUME NEW t \in Tables, NEW c \in Proc, NEW parent \in Proc
  PROVE  Calm(t, sigcld(t, c, parent))
<1> DEFINE u == wakeprocs(t, {c, parent})
<1>1. t.wcode[c] \in Code
  BY DEF Tables
<1>2. Calm(t, t) /\ Calm(t, u) /\ u \in Tables
  BY WakeCalm DEF Calm
<1>3. Calm(u, sigtoproc(u, parent, "SIGCLD"))
  BY <1>2, SigtoprocCalm
<1>4. Calm(t, sigtoproc(u, parent, "SIGCLD"))
  <2> HIDE DEF u
  <2> QED
    BY <1>2, <1>3, CalmTwice
<1> QED
  BY <1>1, <1>2, <1>4 DEF sigcld, Code

-----------------------------------------------------------------------------
(* What the table becomes.                                                 *)
LEMMA BecomesTable ==
  ASSUME NEW t \in Tables, Becomes(t)
  PROVE  Table' = t
BY DEF Becomes, Table, Tables

(* Who begins or ends a call, other than fork() and the end of exit().     *)
Fresh(p, r) ==
  /\ p_stat[p] \in Active /\ r.op \notin {"dying", "fork"}
  /\ r.op = "exit" => p # init
  /\ r.op = "kill" /\ r.to = init => r.sig = "SIGCONT"

(* Steps that leave the chains alone and free nobody.                      *)
LEMMA QuietKeeps ==
  ASSUME IInv, UNCHANGED chain, Calm(Table, Table'), call' \in [Proc -> CallType],
         \A p \in Proc : call'[p] = call[p] \/ Fresh(p, call'[p])
  PROVE  IInv'
<1> USE InitAssumption
<1>1. /\ p_stat \in [Proc -> Stat] /\ p_stat' \in [Proc -> Stat]
      /\ \A p \in Proc :
           /\ p_stat'[p] = p_stat[p] \/ (p_stat[p] \in Active /\ p_stat'[p] \in Active)
           /\ p_wcode'[p] = "CLD_EXITED" => p_wcode[p] = "CLD_EXITED"
      /\ "SIGKILL" \in p_sig'[init] => "SIGKILL" \in p_sig[init]
  BY DEF IInv, Typed, Calm, Table, Tables
<1>2. Typed'
  BY DEF IInv, Typed, Calm, chain
<1>3. Alive' = Alive
  BY <1>1 DEF Alive, Active
<1>4. Chains'
  BY <1>3 DEF IInv, Chains, chain
<1>5. Kin'
  <2>1. \A p \in Proc : Settled(p) => Settled(p)'
    BY <1>1 DEF Settled, Active, Fresh
  <2>2. \A p : Settled(p) => p \in Proc
    BY DEF Settled
  <2>3. p_parent' = p_parent /\ p_nextofkin' = p_nextofkin
    BY DEF chain
  <2>4. ASSUME NEW p \in Proc, (p_stat[p] # "free" /\ p # init)'
        PROVE  (Settled(p_parent[p]) /\ Settled(p_nextofkin[p]))'
    <3>1. p_stat[p] # "free"
      BY <1>1, <2>4 DEF Active
    <3>2. Settled(p_parent[p]) /\ Settled(p_nextofkin[p])
      BY <2>4, <3>1 DEF IInv, Kin
    <3> QED
      BY <2>1, <2>2, <2>3, <3>2 DEF Settled
  <2> QED
    BY <2>4 DEF Kin
<1>6. NoCycle'
  BY DEF IInv, NoCycle, chain
<1>7. InCall'
  <2> SUFFICES ASSUME NEW p \in Proc
               PROVE  /\ (p_stat[p] \notin Active => call[p] = User)'
                      /\ (call[p].op = "fork" =>
                            p_stat[call[p].child] = "SIDL" /\ p_parent[call[p].child] = p)'
                      /\ (p_wcode[p] = "CLD_EXITED" => p_stat[p] = "SZOMB")'
    BY DEF InCall
  <2>1. (p_stat[p] \notin Active => call[p] = User)'
    BY <1>1 DEF IInv, InCall, Fresh
  <2>2. (p_wcode[p] = "CLD_EXITED" => p_stat[p] = "SZOMB")'
    BY <1>1 DEF IInv, InCall, Active
  <2>3. ASSUME (call[p].op = "fork")'
        PROVE  (p_stat[call[p].child] = "SIDL" /\ p_parent[call[p].child] = p)'
    <3>1. call'[p] = call[p]
      BY <2>3 DEF Fresh
    <3>2. call[p] \in CallType /\ call[p].op = "fork"
      BY <2>3, <3>1 DEF IInv, Typed
    <3>3. call[p].child \in Proc
      BY <3>2 DEF CallType, Waits
    <3>4. p_stat[call[p].child] = "SIDL" /\ p_parent[call[p].child] = p
      BY <3>2 DEF IInv, InCall
    <3> QED
      BY <1>1, <3>1, <3>3, <3>4 DEF chain, Active
  <2> QED
    BY <2>1, <2>2, <2>3
<1>8. InitLives'
  BY <1>1 DEF IInv, InitLives, Fresh, chain
<1>9. FreeAlone'
  BY <1>1 DEF IInv, FreeAlone, chain, Active
<1> QED
  BY <1>2, <1>4, <1>5, <1>6, <1>7, <1>8, <1>9 DEF IInv

(* Steps that free the slots in C: nobody's parent or next of kin, and not *)
(* the children of a fork() under way.                                     *)
LEMMA FreeKeeps ==
  ASSUME IInv, NEW p \in Proc, NEW C \in SUBSET Proc, Unchained(C),
         call' = [call EXCEPT ![p] = User], Table' \in Tables, init \notin C,
         p \in C \/ p_stat[p] \in Active,
         \A q \in C : ~Settled(q) /\ p_stat'[q] = "free" /\ p_wcode'[q] = "0"
                                  /\ (q = p \/ call[q] = User),
         \A q \in Proc \ C :
           /\ p_stat'[q] = p_stat[q] \/ (p_stat[q] \in Active /\ p_stat'[q] \in Active)
           /\ p_wcode'[q] = "CLD_EXITED" => p_wcode[q] = "CLD_EXITED",
         \A q \in Proc \ {p} : call[q].op = "fork" => call[q].child \notin C,
         "SIGKILL" \notin p_sig'[init]
  PROVE  IInv'
<1> USE InitAssumption
<1>1. /\ p_stat \in [Proc -> Stat] /\ p_stat' \in [Proc -> Stat]
      /\ p_parent \in [Proc -> Proc \cup {None}]
      /\ p_nextofkin \in [Proc -> Proc \cup {None}]
      /\ call \in [Proc -> CallType]
  BY DEF IInv, Typed, Table, Tables
<1>2. User \in CallType
  BY DEF User, CallType
<1>3. Typed'
  BY <1>1, <1>2 DEF IInv, Typed, Unchained
<1>4. Alive' = Alive \ C
  BY <1>1 DEF Alive, Active
<1>5. Chains'
  <2> SUFFICES ASSUME NEW q \in Proc
               PROVE  (/\ p_child[q] = {c \in Alive : p_parent[c] = q}
                       /\ p_orphan[q] = {c \in Alive : p_nextofkin[c] = q})'
    BY DEF Chains
  <2>1. p_child[q] = {c \in Alive : p_parent[c] = q}
    BY DEF IInv, Chains
  <2>2. p_orphan[q] = {c \in Alive : p_nextofkin[c] = q}
    BY DEF IInv, Chains
  <2>3. (p_child[q] = {c \in Alive : p_parent[c] = q})'
    BY <1>1, <1>4, <2>1 DEF Unchained, Alive
  <2>4. (p_orphan[q] = {c \in Alive : p_nextofkin[c] = q})'
    BY <1>1, <1>4, <2>2 DEF Unchained, Alive
  <2> QED
    BY <2>3, <2>4
<1>6. Kin'
  <2>1. \A q \in Proc : Settled(q) => Settled(q)' /\ q \notin C
    BY <1>1 DEF Settled, Active, User
  <2>2. ASSUME NEW q \in Proc, (p_stat[q] # "free" /\ q # init)'
        PROVE  (Settled(p_parent[q]) /\ Settled(p_nextofkin[q]))'
    <3>1. q \notin C /\ p_stat[q] # "free"
      BY <1>1, <2>2 DEF Active
    <3>2. Settled(p_parent[q]) /\ Settled(p_nextofkin[q])
      BY <2>2, <3>1 DEF IInv, Kin
    <3>3. p_parent'[q] = p_parent[q] /\ p_nextofkin'[q] = p_nextofkin[q]
      BY <3>1 DEF Unchained
    <3>4. p_parent[q] \in Proc /\ p_nextofkin[q] \in Proc
      BY <3>2 DEF Settled
    <3> QED
      BY <2>1, <3>2, <3>3, <3>4 DEF Settled
  <2> QED
    BY <2>2 DEF Kin
<1>7. NoCycle'
  <2> SUFFICES ASSUME NEW S \in SUBSET Proc, S # {}
               PROVE  \E q \in S : p_nextofkin'[q] \notin S
    BY DEF NoCycle
  <2>1. PICK q \in S : p_nextofkin[q] \notin S
    BY DEF IInv, NoCycle
  <2>2. p_nextofkin'[q] \notin S
    BY <2>1 DEF Unchained
  <2> QED
    BY <2>2
<1>8. InCall'
  <2> SUFFICES ASSUME NEW q \in Proc
               PROVE  /\ (p_stat[q] \notin Active => call[q] = User)'
                      /\ (call[q].op = "fork" =>
                            p_stat[call[q].child] = "SIDL" /\ p_parent[call[q].child] = q)'
                      /\ (p_wcode[q] = "CLD_EXITED" => p_stat[q] = "SZOMB")'
    BY DEF InCall
  <2>1. (p_stat[q] \notin Active => call[q] = User)'
    BY <1>1 DEF IInv, InCall, Active
  <2>2. (p_wcode[q] = "CLD_EXITED" => p_stat[q] = "SZOMB")'
    BY <1>1 DEF IInv, InCall, Active
  <2>3. ASSUME (call[q].op = "fork")'
        PROVE  (p_stat[call[q].child] = "SIDL" /\ p_parent[call[q].child] = q)'
    <3>1. q # p /\ call'[q] = call[q]
      BY <1>1, <2>3 DEF User
    <3>2. call[q] \in CallType /\ call[q].op = "fork"
      BY <1>1, <2>3, <3>1
    <3>3. call[q].child \in Proc \ C
      BY <3>1, <3>2 DEF CallType, Waits
    <3>4. p_stat[call[q].child] = "SIDL" /\ p_parent[call[q].child] = q
      BY <3>2 DEF IInv, InCall
    <3> QED
      BY <1>1, <3>1, <3>3, <3>4 DEF Unchained, Active
  <2> QED
    BY <2>1, <2>2, <2>3
<1>9. InitLives'
  BY <1>1 DEF IInv, InitLives, Unchained, User, Active
<1>10. FreeAlone'
  BY <1>1 DEF IInv, FreeAlone, Unchained, Active
<1> QED
  BY <1>3, <1>5, <1>6, <1>7, <1>8, <1>9, <1>10 DEF IInv

-----------------------------------------------------------------------------
(* sigcld() for a process that stops or continues wakes its parent only.   *)
LEMMA SigcldJob ==
  ASSUME NEW t \in Tables, NEW c \in Proc, NEW parent, t.wcode[c] # "CLD_EXITED"
  PROVE  Calm(t, sigcld(t, c, parent))
<1>1. t.wcode[c] \in Code
  BY DEF Tables
<1>2. Calm(t, t) /\ Calm(t, wakeprocs(t, {c, parent}))
  BY WakeCalm DEF Calm
<1> QED
  BY <1>1, <1>2 DEF sigcld, Code

(* A process that runs, or is about to sleep, stops.                       *)
LEMMA StopCalm ==
  ASSUME Typed, NEW p \in Proc, NEW t \in Tables, Calm(Table, t), t.stat[p] \in Active,
         stop(t, p)
  PROVE  Calm(Table, Table')
<1> DEFINE u == [t EXCEPT !.sig[p] = @ \ {"SIGSTOP"}, !.stat[p] = "SSTOP",
                          !.wcode[p] = "CLD_STOPPED"]
<1>1. u \in Tables /\ Calm(t, u) /\ u.wcode[p] # "CLD_EXITED"
  BY InitAssumption DEF Tables, Calm, Active, Stat, Code
<1>2. Calm(u, Stopped(t, p)) /\ Stopped(t, p) \in Tables
  BY <1>1, SigcldJob DEF Stopped, Calm
<1>3. Calm(t, Stopped(t, p))
  <2> HIDE DEF u
  <2> QED
    BY <1>1, <1>2, CalmTwice
<1>4. Calm(Table, Stopped(t, p))
  BY <1>3, CalmTwice DEF Typed
<1> QED
  BY <1>2, <1>4, BecomesTable DEF stop

(* The end of a stop.                                                      *)
LEMMA ResumeKeeps ==
  ASSUME IInv, NEW p \in Proc, resume(p)
  PROVE  IInv'
<1> DEFINE u == [Table EXCEPT !.wcode[p] = "CLD_CONTINUED"]
<1>1. Typed /\ Table \in Tables
  BY DEF IInv, Typed
<1>2. u \in Tables /\ Calm(Table, u) /\ u.wcode[p] # "CLD_EXITED"
  BY <1>1 DEF Tables, Calm, Code, Table
<1> HIDE DEF u
<1>3. Calm(u, sigcld(u, p, p_parent[p]))
  BY <1>2, SigcldJob
<1>4. Calm(Table, sigcld(u, p, p_parent[p]))
  BY <1>1, <1>2, <1>3, CalmTwice
<1>5. Becomes(sigcld(u, p, p_parent[p]))
  BY DEF resume, u
<1>6. Calm(Table, Table')
  BY <1>4, <1>5, BecomesTable DEF Calm
<1> QED
  BY <1>1, <1>6, QuietKeeps DEF resume, Typed

(* A call that begins or ends, with no change to the table.                *)
LEMMA CallKeeps ==
  ASSUME IInv, NEW p \in Proc, NEW r \in CallType, Fresh(p, r), UNCHANGED chain,
         Calm(Table, Table'), call' = [call EXCEPT ![p] = r]
  PROVE  IInv'
<1>1. /\ call \in [Proc -> CallType] /\ call' \in [Proc -> CallType]
      /\ \A q \in Proc : call'[q] = call[q] \/ Fresh(q, call'[q])
  BY DEF IInv, Typed
<1> QED
  BY <1>1, QuietKeeps

(* The calls that end in user mode.                                        *)
LEMMA UserCall ==
  ASSUME NEW p \in Proc, p_stat[p] = "SRUN"
  PROVE  User \in CallType /\ Fresh(p, User)
BY DEF User, CallType, Fresh, Active

(* Signals on the way back to user mode; init is not sent SIGKILL.         *)
LEMMA PsigKeeps ==
  ASSUME IInv, NEW p \in Proc, psig(p)
  PROVE  IInv'
<1> USE InitAssumption
<1>1. Typed /\ Table \in Tables /\ Calm(Table, Table) /\ Table.stat[p] \in Active
  BY DEF IInv, Typed, Calm, psig, Running, Table, Active
<1>2. CASE /\ "SIGKILL" \in p_sig[p]
           /\ p_sig' = [p_sig EXCEPT ![p] = {}]
           /\ call' = [call EXCEPT ![p] = [op |-> "exit"]]
           /\ UNCHANGED <<p_stat, p_wchan, p_wcode, instop, u_sigcld>>
  <2>1. Calm(Table, Table')
    BY <1>1, <1>2 DEF Calm, Table, Tables
  <2>2. [op |-> "exit"] \in CallType /\ Fresh(p, [op |-> "exit"])
    BY <1>2 DEF CallType, Fresh, psig, Running, Active, IInv, InitLives
  <2> QED
    BY <1>2, <2>1, <2>2, CallKeeps DEF psig
<1>3. CASE /\ p_sig' = [p_sig EXCEPT ![p] = @ \ {"SIGCLD"}]
           /\ u_sigcld' = [u_sigcld EXCEPT ![p] = "SIG_DFL"]
           /\ call' = [call EXCEPT ![p] = IF p = init THEN [op |-> "childeath"] ELSE @]
           /\ UNCHANGED <<p_stat, p_wchan, p_wcode, instop>>
  <2>1. Calm(Table, Table')
    BY <1>1, <1>3 DEF Calm, Table, Tables
  <2>2. CASE p = init
    <3>1. [op |-> "childeath"] \in CallType /\ Fresh(p, [op |-> "childeath"])
      BY DEF CallType, Fresh, psig, Running, Active
    <3> QED
      BY <1>3, <2>1, <2>2, <3>1, CallKeeps DEF psig
  <2>3. CASE p # init
    <3>1. call' = call
      BY <1>1, <1>3, <2>3 DEF Typed
    <3> QED
      BY <1>1, <1>3, <2>1, <3>1, QuietKeeps DEF psig, Typed
  <2> QED
    BY <2>2, <2>3
<1>4. CASE stop(Table, p) /\ UNCHANGED <<call, u_sigcld>>
  <2>1. Calm(Table, Table')
    BY <1>1, <1>4, StopCalm
  <2> QED
    BY <1>1, <1>4, <2>1, QuietKeeps DEF psig, Typed
<1> QED
  BY <1>2, <1>3, <1>4 DEF psig

(* What the table becomes when slots are given back.                       *)
LEMMA VacatedTable ==
  ASSUME NEW t \in Tables, NEW C \in SUBSET Proc, Becomes(Vacated(t, C))
  PROVE  /\ Table' \in Tables
         /\ \A q \in C : p_stat'[q] = "free" /\ p_wcode'[q] = "0" /\ p_sig'[q] = {}
         /\ \A q \in Proc \ C :
              p_stat'[q] = t.stat[q] /\ p_wcode'[q] = t.wcode[q] /\ p_sig'[q] = t.sig[q]
<1>1. Vacated(t, C) \in Tables
  BY DEF Vacated, Tables, Stat, Code
<1>2. Table' = Vacated(t, C)
  BY <1>1, BecomesTable
<1>3. Table'.stat = p_stat' /\ Table'.wcode = p_wcode' /\ Table'.sig = p_sig'
  BY DEF Table
<1>4. /\ Vacated(t, C).stat = [q \in Proc |-> IF q \in C THEN "free" ELSE t.stat[q]]
      /\ Vacated(t, C).wcode = [q \in Proc |-> IF q \in C THEN "0" ELSE t.wcode[q]]
      /\ Vacated(t, C).sig = [q \in Proc |-> IF q \in C THEN {} ELSE t.sig[q]]
  BY DEF Vacated, Tables
<1> QED
  BY <1>1, <1>2, <1>3, <1>4

(* freeproc() of zombies leaves the rest of the table as it is.            *)
LEMMA ZombiesGo ==
  ASSUME IInv, NEW p \in Proc, p_stat[p] = "SRUN", NEW C \in SUBSET Proc,
         \A q \in C : p_stat[q] = "SZOMB", Becomes(Vacated(Table, C)), Unchained(C),
         call' = [call EXCEPT ![p] = User]
  PROVE  IInv'
<1> USE InitAssumption
<1>1. Table \in Tables
  BY DEF IInv, Typed
<1>2. Table.stat = p_stat /\ Table.wcode = p_wcode /\ Table.sig = p_sig
  BY DEF Table
<1>3. /\ Table' \in Tables
      /\ \A q \in C : p_stat'[q] = "free" /\ p_wcode'[q] = "0" /\ p_sig'[q] = {}
      /\ \A q \in Proc \ C :
           p_stat'[q] = p_stat[q] /\ p_wcode'[q] = p_wcode[q] /\ p_sig'[q] = p_sig[q]
  BY <1>1, <1>2, VacatedTable
<1>4. init \notin C /\ "SIGKILL" \notin p_sig'[init]
  BY <1>3 DEF IInv, InitLives, Active
<1>5. \A q \in C : ~Settled(q) /\ call[q] = User
  BY DEF Settled, Active, IInv, InCall
<1>6. \A q \in Proc : call[q].op = "fork" => call[q].child \notin C
  BY DEF IInv, InCall
<1>7. \A q \in C : ~Settled(q) /\ p_stat'[q] = "free" /\ p_wcode'[q] = "0"
                                /\ (q = p \/ call[q] = User)
  BY <1>3, <1>5
<1>8. \A q \in Proc \ C :
        /\ p_stat'[q] = p_stat[q] \/ (p_stat[q] \in Active /\ p_stat'[q] \in Active)
        /\ p_wcode'[q] = "CLD_EXITED" => p_wcode[q] = "CLD_EXITED"
  BY <1>3
<1>9. p_stat[p] \in Active
  BY DEF Active
<1> QED
  BY <1>3, <1>4, <1>6, <1>7, <1>8, <1>9, FreeKeeps

(* The search of waitid(): a child reported, EINTR, a stop, or sleep.      *)
LEMMA ScanKeeps ==
  ASSUME IInv, NEW p \in Proc, p_stat[p] = "SRUN", NEW w \in Waits, Scan(p, w)
  PROVE  IInv'
<1> USE InitAssumption
<1>1. Typed /\ Table \in Tables /\ Calm(Table, Table)
  BY DEF IInv, Typed, Calm
<1>2. w \in CallType /\ Fresh(p, w)
  BY DEF CallType, Waits, Fresh, Active
<1>3. Interrupted(p) => IInv'
  <2> HAVE Interrupted(p)
  <2>1. Calm(Table, Table')
    BY <1>1 DEF Interrupted, Table
  <2> QED
    BY <2>1, UserCall, CallKeeps DEF Interrupted
<1>4. ASSUME NEW c \in Reportable(p, w), Reported(p, c)
      PROVE  IInv'
  <2>1. c \in Proc
    BY DEF Reportable, Match, IInv, Typed
  <2>2. CASE p_wcode[c] = "CLD_EXITED"
    <3>1. p_stat[c] = "SZOMB"
      BY <2>1, <2>2 DEF IInv, InCall
    <3> QED
      BY <1>4, <2>1, <2>2, <3>1, ZombiesGo DEF Reported
  <2>3. CASE p_wcode[c] # "CLD_EXITED"
    <3>1. [Table EXCEPT !.wcode[c] = "0"] \in Tables
          /\ Calm(Table, [Table EXCEPT !.wcode[c] = "0"])
      BY <1>1, <2>1 DEF Tables, Calm, Code
    <3>2. Calm(Table, Table')
      BY <1>4, <2>3, <3>1, BecomesTable DEF Reported
    <3> QED
      BY <1>4, <2>3, <3>2, UserCall, CallKeeps DEF Reported
  <2> QED
    BY <2>2, <2>3
<1>5. Asleep(p, w) => IInv'
  <2> HAVE Asleep(p, w)
  <2> DEFINE t == [Table EXCEPT !.wchan[p] = IF w.id = None THEN p ELSE w.id,
                                !.stat[p] = "SSLEEP"]
  <2>1. w.id \in Proc \cup {None}
    BY DEF Waits
  <2>2. t \in Tables /\ Calm(Table, t) /\ t.stat[p] \in Active
    BY <1>1, <2>1 DEF Tables, Calm, Active, Stat, Table
  <2>3. CASE stop(t, p) /\ call' = [call EXCEPT ![p] = w] /\ UNCHANGED chain
    <3>1. Calm(Table, Table')
      <4> HIDE DEF t
      <4> QED
        BY <1>1, <2>2, <2>3, StopCalm
    <3> QED
      BY <1>2, <2>3, <3>1, CallKeeps
  <2>4. CASE Becomes(t) /\ call' = [call EXCEPT ![p] = w] /\ UNCHANGED <<chain, instop>>
    <3>1. Calm(Table, Table')
      <4> HIDE DEF t
      <4> QED
        BY <2>2, <2>4, BecomesTable
    <3> QED
      BY <1>2, <2>4, <3>1, CallKeeps
  <2> QED
    BY <1>3, <2>3, <2>4 DEF Asleep
<1> QED
  BY <1>3, <1>4, <1>5 DEF Scan

(* waitid(), and what it does when it is awakened; the wait of init.       *)
LEMMA WaitKeeps ==
  ASSUME IInv, NEW p \in Proc,
         waitAgain(p) \/ childeath(p) \/ \E a \in WaitArgs : waitid(p, Wait(a))
  PROVE  IInv'
<1>0. \A a \in (Proc \cup {None}) \X BOOLEAN : Wait(a) \in Waits
  BY DEF Wait, Waits
<1>1. ASSUME NEW a \in WaitArgs, waitid(p, Wait(a))
      PROVE  IInv'
  <2>1. Wait(a) \in Waits
    BY <1>0, WaitAssumption
  <2> QED
    BY <1>1, <2>1, ScanKeeps DEF waitid, Running
<1>3. ASSUME childeath(p)
      PROVE  IInv'
  <2>1. AnyExited \in Waits
    BY <1>0 DEF AnyExited
  <2> QED
    BY <1>3, <2>1, ScanKeeps DEF childeath, Running
<1>2. ASSUME waitAgain(p)
      PROVE  IInv'
  <2>1. call[p] \in Waits /\ p_stat[p] = "SRUN"
    BY <1>2 DEF waitAgain, Running, IInv, Typed, CallType, Waits
  <2>2. Typed /\ Table \in Tables /\ Calm(Table, Table) /\ Table.stat[p] \in Active
    BY <2>1 DEF IInv, Typed, Calm, Table, Active
  <2>3. CASE Interrupted(p)
    <3>1. Calm(Table, Table')
      BY <2>2, <2>3 DEF Interrupted, Table
    <3> QED
      BY <2>1, <2>3, <3>1, UserCall, CallKeeps DEF Interrupted
  <2>4. CASE stop(Table, p) /\ UNCHANGED <<chain, call>>
    <3>1. Calm(Table, Table')
      BY <2>2, <2>4, StopCalm
    <3> QED
      BY <2>2, <2>4, <3>1, QuietKeeps DEF Typed
  <2>5. CASE Scan(p, call[p])
    BY <2>1, <2>5, ScanKeeps
  <2> QED
    BY <1>2, <2>3, <2>4, <2>5 DEF waitAgain
<1> QED
  BY <1>1, <1>2, <1>3

(* kill(), which does not send SIGKILL to init, and the end of it.         *)
LEMMA KillKeeps ==
  ASSUME IInv, NEW p \in Proc,
         killPost(p) \/ \E q \in Proc, s \in Sent : kill(p, q, s)
  PROVE  IInv'
<1> USE InitAssumption
<1>1. Typed /\ Table \in Tables /\ Calm(Table, Table)
  BY DEF IInv, Typed, Calm
<1>2. ASSUME NEW q \in Proc, NEW s \in Sent, kill(p, q, s)
      PROVE  IInv'
  <2>1. q = init => s # "SIGKILL"
    BY <1>2 DEF kill
  <2>2. CASE Ignores(q, s)
    <3>1. Calm(Table, sigtoproc(Table, q, s))
      BY <1>1, <2>1, SigtoprocCalm
    <3>2. Calm(Table, Table')
      BY <1>2, <2>2, <3>1, BecomesTable DEF kill, Calm
    <3> QED
      BY <1>1, <1>2, <2>2, <3>2, QuietKeeps DEF kill, Typed
  <2>3. CASE ~Ignores(q, s)
    <3> DEFINE r == [op |-> "kill", to |-> q, sig |-> s]
    <3>1. Calm(Table, Table')
      BY <1>1, <1>2, <2>3 DEF kill, Table
    <3>2. r \in CallType /\ Fresh(p, r)
      BY <1>2 DEF CallType, Fresh, kill, Calls, Running, Active
    <3>3. call' = [call EXCEPT ![p] = r] /\ UNCHANGED chain
      BY <1>2, <2>3 DEF kill
    <3> QED
      BY <3>1, <3>2, <3>3, CallKeeps
  <2> QED
    BY <2>2, <2>3
<1>3. ASSUME killPost(p)
      PROVE  IInv'
  <2>1. /\ call[p].to \in Proc /\ call[p].sig \in Sent
        /\ call[p].to = init => call[p].sig # "SIGKILL"
    BY <1>3 DEF killPost, Running, IInv, Typed, CallType, Waits, InitLives
  <2>2. Calm(Table, sigtoproc(Table, call[p].to, call[p].sig))
    BY <1>1, <2>1, SigtoprocCalm
  <2>3. Calm(Table, Table')
    BY <1>3, <2>2, BecomesTable DEF killPost, Calm
  <2> QED
    BY <1>3, <2>3, UserCall, CallKeeps DEF killPost, Running
<1> QED
  BY <1>2, <1>3

(* signal(SIGCLD).                                                         *)
LEMMA SignalKeeps ==
  ASSUME IInv, NEW p \in Proc, NEW disp \in MaySet(p), signal(p, disp)
  PROVE  IInv'
<1> USE InitAssumption
<1>1. Typed /\ Table \in Tables
  BY DEF IInv, Typed
<1>2. p_stat[p] = "SRUN" /\ call[p].op = "user" /\ call' = call
  BY DEF signal, Calls, Running
<1>3. call[p] = User
  <2>1. call[p] \in [op : {"user", "childeath", "exit", "dying"}]
    BY <1>1, <1>2 DEF Typed, CallType, Waits
  <2> QED
    BY <1>2, <2>1 DEF User
<1>4. call' = [call EXCEPT ![p] = User]
  BY <1>1, <1>2, <1>3 DEF Typed
<1>5. CASE disp = "SIG_IGN"
  <2>1. Zombies(p) \in SUBSET Proc /\ \A q \in Zombies(p) : p_stat[q] = "SZOMB"
    BY <1>1 DEF Zombies, Typed
  <2> QED
    BY <1>2, <1>4, <1>5, <2>1, ZombiesGo DEF signal
<1>6. CASE disp # "SIG_IGN"
  <2>1. /\ UNCHANGED <<p_stat, p_wchan, p_wcode, chain>>
        /\ \/ p_sig' = p_sig
           \/ p_sig' = [p_sig EXCEPT ![p] = IF Zombies(p) = {} THEN @ ELSE @ \cup {"SIGCLD"}]
    BY <1>6, SigCldAssumption DEF signal, MaySet
  <2>2. Calm(Table, Table')
    BY <1>1, <1>2, <2>1 DEF Calm, Table, Tables, Pending
  <2> QED
    BY <1>1, <1>2, <2>1, <2>2, QuietKeeps DEF Typed
<1> QED
  BY <1>5, <1>6

(* exit() begins.                                                          *)
LEMMA ExitKeeps ==
  ASSUME IInv, NEW p \in Proc, exit(p)
  PROVE  IInv'
<1>1. Calm(Table, Table')
  BY DEF exit, IInv, Typed, Calm, Table
<1>2. [op |-> "exit"] \in CallType /\ Fresh(p, [op |-> "exit"])
  BY DEF CallType, Fresh, exit, Calls, Running, Active
<1> QED
  BY <1>1, <1>2, CallKeeps DEF exit

(* fork() links a child in: it is new, so it closes no circle.             *)
LEMMA ForkKeeps ==
  ASSUME IInv, NEW p \in Proc, NEW c \in Proc, fork(p, c)
  PROVE  IInv'
<1> USE InitAssumption
<1> DEFINE r == [op |-> "fork", child |-> c]
<1>1. /\ p_stat \in [Proc -> Stat] /\ call \in [Proc -> CallType]
      /\ p_parent \in [Proc -> Proc \cup {None}] /\ p_nextofkin \in [Proc -> Proc \cup {None}]
      /\ p_child \in [Proc -> SUBSET Proc] /\ p_orphan \in [Proc -> SUBSET Proc]
  BY DEF IInv, Typed, Table, Tables
<1>2. /\ p_stat[p] = "SRUN" /\ p_stat[c] = "free" /\ p # c /\ c # init
      /\ call[p].op = "user" /\ call[c] = User
      /\ p_stat' = [p_stat EXCEPT ![c] = "SIDL"]
      /\ p_parent' = [p_parent EXCEPT ![c] = p]
      /\ p_child' = [p_child EXCEPT ![p] = @ \cup {c}]
      /\ p_nextofkin' = [p_nextofkin EXCEPT ![c] = p]
      /\ p_orphan' = [p_orphan EXCEPT ![p] = @ \cup {c}]
      /\ call' = [call EXCEPT ![p] = r]
      /\ UNCHANGED <<p_wchan, p_wcode, p_sig>>
  BY DEF fork, Calls, Running, IInv, InCall, InitLives, Active
<1>3. \A q \in Proc : p_nextofkin[q] # c
  BY <1>2 DEF IInv, Kin, Settled, FreeAlone, InitLives, Active
<1>4. Typed'
  <2>1. r \in CallType
    BY DEF CallType
  <2>2. Table' \in Tables
    BY <1>1, <1>2 DEF IInv, Typed, Table, Tables, Stat
  <2> QED
    BY <1>1, <1>2, <2>1, <2>2 DEF Typed
<1>5. Alive' = Alive \cup {c} /\ c \notin Alive
  BY <1>1, <1>2 DEF Alive
<1>6. Chains'
  <2> SUFFICES ASSUME NEW q \in Proc
               PROVE  (/\ p_child[q] = {x \in Alive : p_parent[x] = q}
                       /\ p_orphan[q] = {x \in Alive : p_nextofkin[x] = q})'
    BY DEF Chains
  <2>1. p_child[q] = {x \in Alive : p_parent[x] = q}
    BY DEF IInv, Chains
  <2>2. p_orphan[q] = {x \in Alive : p_nextofkin[x] = q}
    BY DEF IInv, Chains
  <2>3. (p_child[q] = {x \in Alive : p_parent[x] = q})'
    BY <1>1, <1>2, <1>5, <2>1 DEF Alive
  <2>4. (p_orphan[q] = {x \in Alive : p_nextofkin[x] = q})'
    BY <1>1, <1>2, <1>5, <2>2 DEF Alive
  <2> QED
    BY <2>3, <2>4
<1>7. Kin'
  <2>1. \A q \in Proc : Settled(q) => Settled(q)'
    BY <1>1, <1>2 DEF Settled, Active
  <2>2. Settled(p)'
    BY <1>1, <1>2 DEF Settled, Active
  <2>3. ASSUME NEW q \in Proc, (p_stat[q] # "free" /\ q # init)'
        PROVE  (Settled(p_parent[q]) /\ Settled(p_nextofkin[q]))'
    <3>1. CASE q = c
      BY <1>1, <1>2, <2>2, <3>1
    <3>2. CASE q # c
      <4>1. Settled(p_parent[q]) /\ Settled(p_nextofkin[q])
        BY <1>1, <1>2, <2>3, <3>2 DEF IInv, Kin
      <4>2. p_parent'[q] = p_parent[q] /\ p_nextofkin'[q] = p_nextofkin[q]
        BY <1>1, <1>2, <3>2
      <4>3. p_parent[q] \in Proc /\ p_nextofkin[q] \in Proc
        BY <4>1 DEF Settled
      <4> QED
        BY <2>1, <4>1, <4>2, <4>3 DEF Settled
    <3> QED
      BY <3>1, <3>2
  <2> QED
    BY <2>3 DEF Kin
<1>8. NoCycle'
  <2> SUFFICES ASSUME NEW S \in SUBSET Proc, S # {}
               PROVE  \E q \in S : p_nextofkin'[q] \notin S
    BY DEF NoCycle
  <2>1. CASE S \ {c} = {}
    <3>1. S = {c}
      BY <2>1
    <3> QED
      BY <1>1, <1>2, <3>1
  <2>2. CASE S \ {c} # {}
    <3>1. PICK q \in S \ {c} : p_nextofkin[q] \notin S \ {c}
      BY <2>2 DEF IInv, NoCycle
    <3> QED
      BY <1>1, <1>2, <1>3, <3>1
  <2> QED
    BY <2>1, <2>2
<1>9. InCall'
  <2> SUFFICES ASSUME NEW q \in Proc
               PROVE  /\ (p_stat[q] \notin Active => call[q] = User)'
                      /\ (call[q].op = "fork" =>
                            p_stat[call[q].child] = "SIDL" /\ p_parent[call[q].child] = q)'
                      /\ (p_wcode[q] = "CLD_EXITED" => p_stat[q] = "SZOMB")'
    BY DEF InCall
  <2>1. (p_stat[q] \notin Active => call[q] = User)'
    BY <1>1, <1>2 DEF IInv, InCall, Active
  <2>2. (p_wcode[q] = "CLD_EXITED" => p_stat[q] = "SZOMB")'
    BY <1>1, <1>2 DEF IInv, InCall
  <2>3. ASSUME (call[q].op = "fork")'
        PROVE  (p_stat[call[q].child] = "SIDL" /\ p_parent[call[q].child] = q)'
    <3>1. CASE q = p
      BY <1>1, <1>2, <3>1
    <3>2. CASE q # p
      <4>1. call'[q] = call[q] /\ call[q] \in CallType /\ call[q].op = "fork"
        BY <1>1, <1>2, <2>3, <3>2
      <4>2. call[q].child \in Proc
        BY <4>1 DEF CallType, Waits
      <4>3. p_stat[call[q].child] = "SIDL" /\ p_parent[call[q].child] = q
        BY <4>1 DEF IInv, InCall
      <4> QED
        BY <1>1, <1>2, <4>1, <4>2, <4>3
    <3> QED
      BY <3>1, <3>2
  <2> QED
    BY <2>1, <2>2, <2>3
<1>10. InitLives'
  BY <1>1, <1>2 DEF IInv, InitLives
<1>11. FreeAlone'
  BY <1>1, <1>2 DEF IInv, FreeAlone
<1> QED
  BY <1>4, <1>6, <1>7, <1>8, <1>9, <1>10, <1>11 DEF IInv

(* fork() ends: the child runs, or it is given up.                         *)
LEMMA ForkEndKeeps ==
  ASSUME IInv, NEW p \in Proc, forkDone(p) \/ forkFail(p)
  PROVE  IInv'
<1> USE InitAssumption
<1> DEFINE c == call[p].child
<1>1. /\ p_stat \in [Proc -> Stat] /\ call \in [Proc -> CallType] /\ Table \in Tables
      /\ Table.stat = p_stat /\ Table.wcode = p_wcode /\ Table.sig = p_sig
  BY DEF IInv, Typed, Table, Tables
<1>2. p_stat[p] = "SRUN" /\ call[p].op = "fork" /\ call' = [call EXCEPT ![p] = User]
  BY DEF forkDone, forkFail, Running
<1>3. c \in Proc
  BY <1>1, <1>2 DEF CallType, Waits
<1>4. p_stat[c] = "SIDL" /\ p_parent[c] = p /\ call[c] = User /\ c # p /\ c # init
  BY <1>2, <1>3 DEF IInv, InCall, InitLives, Active
<1>5. \A q \in Proc \ {p} : call[q].op = "fork" => call[q].child # c
  BY <1>4 DEF IInv, InCall
<1>6. ~Settled(c)
  BY <1>4 DEF Settled, Active
<1> HIDE DEF c
<1>7. CASE forkFail(p)
  <2>1. Becomes(Vacated(Table, {c})) /\ Unchained({c})
    BY <1>7 DEF forkFail, c
  <2>2. /\ Table' \in Tables
        /\ \A q \in {c} : p_stat'[q] = "free" /\ p_wcode'[q] = "0" /\ p_sig'[q] = {}
        /\ \A q \in Proc \ {c} :
             p_stat'[q] = p_stat[q] /\ p_wcode'[q] = p_wcode[q] /\ p_sig'[q] = p_sig[q]
    BY <1>1, <1>3, <2>1, VacatedTable
  <2>3. "SIGKILL" \notin p_sig'[init]
    BY <1>4, <2>2 DEF IInv, InitLives
  <2>4. p_stat[p] \in Active
    BY <1>2 DEF Active
  <2>5. {c} \in SUBSET Proc /\ init \notin {c}
    BY <1>3, <1>4
  <2>6. \A q \in {c} : ~Settled(q) /\ p_stat'[q] = "free" /\ p_wcode'[q] = "0"
                                   /\ (q = p \/ call[q] = User)
    BY <1>4, <1>6, <2>2
  <2>7. \A q \in Proc \ {p} : call[q].op = "fork" => call[q].child \notin {c}
    BY <1>5
  <2>8. \A q \in Proc \ {c} :
          /\ p_stat'[q] = p_stat[q] \/ (p_stat[q] \in Active /\ p_stat'[q] \in Active)
          /\ p_wcode'[q] = "CLD_EXITED" => p_wcode[q] = "CLD_EXITED"
    BY <2>2
  <2> QED
    BY <1>2, <2>1, <2>2, <2>3, <2>4, <2>5, <2>6, <2>7, <2>8, FreeKeeps
<1>8. CASE forkDone(p)
  <2>1. /\ p_stat' = [p_stat EXCEPT ![c] = "SRUN"]
        /\ UNCHANGED <<p_wchan, p_wcode, p_sig, p_parent, p_child, p_nextofkin, p_orphan>>
    BY <1>8 DEF forkDone, c, chain
  <2>2. User \in CallType /\ User.op = "user"
    BY DEF User, CallType
  <2>3. Typed'
    <3>1. Table' \in Tables
      BY <1>1, <2>1 DEF Table, Tables, Stat
    <3> QED
      BY <1>1, <1>2, <2>1, <2>2, <3>1 DEF IInv, Typed
  <2>4. Alive' = Alive
    BY <1>1, <1>3, <1>4, <2>1 DEF Alive
  <2>5. Chains'
    BY <2>1, <2>4 DEF IInv, Chains
  <2>6. Kin'
    <3>1. \A q \in Proc : Settled(q) => Settled(q)'
      BY <1>1, <1>2, <1>4, <2>1, <2>2 DEF Settled, Active
    <3>2. ASSUME NEW q \in Proc, (p_stat[q] # "free" /\ q # init)'
          PROVE  (Settled(p_parent[q]) /\ Settled(p_nextofkin[q]))'
      <4>1. Settled(p_parent[q]) /\ Settled(p_nextofkin[q])
        BY <1>1, <1>4, <2>1, <3>2 DEF IInv, Kin
      <4>2. p_parent[q] \in Proc /\ p_nextofkin[q] \in Proc
        BY <4>1 DEF Settled
      <4> QED
        BY <2>1, <3>1, <4>1, <4>2 DEF Settled
    <3> QED
      BY <3>2 DEF Kin
  <2>7. NoCycle' /\ FreeAlone'
    BY <1>1, <2>1 DEF IInv, NoCycle, FreeAlone
  <2>8. InCall'
    <3> SUFFICES ASSUME NEW q \in Proc
                 PROVE  /\ (p_stat[q] \notin Active => call[q] = User)'
                        /\ (call[q].op = "fork" =>
                              p_stat[call[q].child] = "SIDL" /\ p_parent[call[q].child] = q)'
                        /\ (p_wcode[q] = "CLD_EXITED" => p_stat[q] = "SZOMB")'
      BY DEF InCall
    <3>1. (p_stat[q] \notin Active => call[q] = User)'
      BY <1>1, <1>2, <2>1 DEF IInv, InCall, Active
    <3>2. (p_wcode[q] = "CLD_EXITED" => p_stat[q] = "SZOMB")'
      BY <1>1, <1>4, <2>1 DEF IInv, InCall
    <3>3. ASSUME (call[q].op = "fork")'
          PROVE  (p_stat[call[q].child] = "SIDL" /\ p_parent[call[q].child] = q)'
      <4>1. q # p /\ call'[q] = call[q] /\ call[q].op = "fork" /\ call[q] \in CallType
        BY <1>1, <1>2, <2>2, <3>3
      <4>2. call[q].child \in Proc
        BY <4>1 DEF CallType, Waits
      <4> QED
        BY <1>1, <1>5, <2>1, <4>1, <4>2 DEF IInv, InCall
    <3> QED
      BY <3>1, <3>2, <3>3
  <2>9. InitLives'
    BY <1>1, <1>2, <1>4, <2>1, <2>2 DEF IInv, InitLives
  <2> QED
    BY <2>3, <2>5, <2>6, <2>7, <2>8, <2>9 DEF IInv
<1> QED
  BY <1>7, <1>8

(* A process hands its family over: to init, which is there, and to its    *)
(* next of kin, which is not among those handed over.                      *)
LEMMA ReleaseKeeps ==
  ASSUME IInv, NEW p \in Proc, release(p)
  PROVE  IInv'
<1> USE InitAssumption
<1> DEFINE r == [op |-> "dying"]
<1>0. PICK n \in Proc : n = p_nextofkin[p]
  <2>1. p_stat[p] # "free" /\ p # init
    BY DEF release, Running, IInv, InitLives
  <2> QED
    BY <2>1 DEF IInv, Kin, Settled
<1>1. /\ p_stat \in [Proc -> Stat] /\ call \in [Proc -> CallType] /\ Table \in Tables
      /\ p_parent \in [Proc -> Proc \cup {None}] /\ p_nextofkin \in [Proc -> Proc \cup {None}]
      /\ p_child \in [Proc -> SUBSET Proc] /\ p_orphan \in [Proc -> SUBSET Proc]
  BY DEF IInv, Typed, Table, Tables
<1>2. /\ p_stat[p] = "SRUN" /\ call[p].op = "exit" /\ p # init
      /\ p_nextofkin' = [q \in Proc |-> IF q \in p_orphan[p] THEN n ELSE p_nextofkin[q]]
      /\ p_orphan' = [p_orphan EXCEPT ![n] = @ \cup p_orphan[p], ![p] = {}]
      /\ p_parent' = [q \in Proc |-> IF q \in p_child[p] THEN init ELSE p_parent[q]]
      /\ p_child' = [p_child EXCEPT ![init] = @ \cup p_child[p], ![p] = {}]
      /\ call' = [call EXCEPT ![p] = r]
  BY <1>0 DEF release, Running, IInv, InitLives
<1>3. Settled(n)
  BY <1>0, <1>2 DEF IInv, Kin
<1>4. n # p
  <2>1. \E q \in {p} : p_nextofkin[q] \notin {p}
    BY DEF IInv, NoCycle
  <2> QED
    BY <1>0, <2>1
<1>5. Calm(Table, Table')
  <2>1. PICK chans : \/ Becomes(wakeprocs(Table, chans))
                     \/ Becomes(sigtoproc(wakeprocs(Table, chans), init, "SIGCLD"))
    BY DEF release, Inherits
  <2> DEFINE u == wakeprocs(Table, chans)
           v == sigtoproc(u, init, "SIGCLD")
  <2>2. u \in Tables /\ Calm(Table, u)
    BY <1>1, WakeCalm DEF Calm
  <2>3. v \in Tables /\ Calm(Table, v)
    <3>1. Calm(u, v)
      <4> HIDE DEF u
      <4> QED
        BY <2>2, SigtoprocCalm
    <3>2. v \in Tables
      BY <3>1 DEF Calm
    <3> HIDE DEF u, v
    <3> QED
      BY <1>1, <2>2, <3>1, <3>2, CalmTwice
  <2> QED
    BY <1>1, <2>1, <2>2, <2>3, BecomesTable
<1>6. /\ p_stat' \in [Proc -> Stat]
      /\ \A q \in Proc :
           /\ p_stat'[q] = p_stat[q] \/ (p_stat[q] \in Active /\ p_stat'[q] \in Active)
           /\ p_wcode'[q] = "CLD_EXITED" => p_wcode[q] = "CLD_EXITED"
      /\ "SIGKILL" \in p_sig'[init] => "SIGKILL" \in p_sig[init]
  BY <1>5 DEF Calm, Table, Tables
<1>7. Alive' = Alive
  BY <1>1, <1>6 DEF Alive, Active
<1>8. \A q \in Proc : /\ p_child[q] = {x \in Alive : p_parent[x] = q}
                      /\ p_orphan[q] = {x \in Alive : p_nextofkin[x] = q}
  BY DEF IInv, Chains
<1>9. Alive \subseteq Proc
  BY DEF Alive
<1>10. Typed'
  <2>1. r \in CallType
    BY DEF CallType
  <2> QED
    BY <1>1, <1>2, <1>3, <1>5, <2>1 DEF Typed, Calm
<1>11. Chains'
  <2>1. ASSUME NEW q \in Proc
        PROVE  (p_child[q] = {x \in Alive : p_parent[x] = q})'
    <3>1. CASE q = p
      BY <1>1, <1>2, <1>7, <1>8, <1>9, <3>1
    <3>2. CASE q = init
      BY <1>1, <1>2, <1>7, <1>8, <1>9, <3>2
    <3>3. CASE q # p /\ q # init
      BY <1>1, <1>2, <1>7, <1>8, <1>9, <3>3
    <3> QED
      BY <3>1, <3>2, <3>3
  <2>2. ASSUME NEW q \in Proc
        PROVE  (p_orphan[q] = {x \in Alive : p_nextofkin[x] = q})'
    <3>1. CASE q = p
      BY <1>1, <1>2, <1>3, <1>4, <1>7, <1>8, <1>9, <3>1
    <3>2. CASE q = n
      BY <1>1, <1>2, <1>3, <1>4, <1>7, <1>8, <1>9, <3>2
    <3>3. CASE q # p /\ q # n
      BY <1>1, <1>2, <1>3, <1>4, <1>7, <1>8, <1>9, <3>3
    <3> QED
      BY <3>1, <3>2, <3>3
  <2> QED
    BY <2>1, <2>2 DEF Chains
<1>12. Kin'
  <2>1. \A q \in Proc \ {p} : Settled(q) => Settled(q)'
    BY <1>1, <1>2, <1>6 DEF Settled
  <2>2. Settled(init)' /\ Settled(n)'
    <3>1. Settled(init)
      BY DEF IInv, InitLives, Settled
    <3> QED
      BY <1>2, <1>3, <1>4, <2>1, <3>1
  <2>3. ASSUME NEW q \in Proc, (p_stat[q] # "free" /\ q # init)'
        PROVE  (Settled(p_parent[q]) /\ Settled(p_nextofkin[q]))'
    <3>1. q \in Alive /\ q # init
      BY <1>7, <2>3 DEF Alive
    <3>2. Settled(p_parent[q]) /\ Settled(p_nextofkin[q])
      BY <3>1 DEF IInv, Kin, Alive
    <3>3. Settled(p_parent[q])'
      <4>1. CASE q \in p_child[p]
        BY <1>2, <2>2, <4>1
      <4>2. CASE q \notin p_child[p]
        <5>1. p_parent'[q] = p_parent[q] /\ p_parent[q] # p /\ p_parent[q] \in Proc
          BY <1>2, <1>8, <3>1, <3>2, <4>2 DEF Settled
        <5> QED
          BY <2>1, <3>2, <5>1 DEF Settled
      <4> QED
        BY <4>1, <4>2
    <3>4. Settled(p_nextofkin[q])'
      <4>1. CASE q \in p_orphan[p]
        BY <1>2, <2>2, <4>1 DEF Settled
      <4>2. CASE q \notin p_orphan[p]
        <5>1. p_nextofkin'[q] = p_nextofkin[q] /\ p_nextofkin[q] # p /\ p_nextofkin[q] \in Proc
          BY <1>2, <1>8, <3>1, <3>2, <4>2 DEF Settled
        <5> QED
          BY <2>1, <3>2, <5>1 DEF Settled
      <4> QED
        BY <4>1, <4>2
    <3> QED
      BY <3>3, <3>4
  <2> QED
    BY <2>3 DEF Kin
<1>13. FreeAlone'
  BY <1>1, <1>2, <1>6, <1>8, SMTT(30) DEF IInv, FreeAlone, Alive, Active
<1>14. NoCycle'
  <2> SUFFICES ASSUME NEW S \in SUBSET Proc, S # {}, \A q \in S : p_nextofkin'[q] \in S
               PROVE  FALSE
    BY DEF NoCycle
  <2>1. CASE S \cap p_orphan[p] = {}
    BY <1>2, <2>1 DEF IInv, NoCycle
  <2>2. CASE S \cap p_orphan[p] # {}
    <3>1. n \in S
      BY <1>2, <2>2
    <3>2. PICK q \in S \cup {p} : p_nextofkin[q] \notin S \cup {p}
      BY DEF IInv, NoCycle
    <3>3. CASE q \in p_orphan[p]
      BY <1>8, <3>2, <3>3
    <3>4. CASE q \notin p_orphan[p]
      BY <1>0, <1>2, <3>1, <3>2, <3>4
    <3> QED
      BY <3>3, <3>4
  <2> QED
    BY <2>1, <2>2
<1>15. InCall'
  <2> SUFFICES ASSUME NEW q \in Proc
               PROVE  /\ (p_stat[q] \notin Active => call[q] = User)'
                      /\ (call[q].op = "fork" =>
                            p_stat[call[q].child] = "SIDL" /\ p_parent[call[q].child] = q)'
                      /\ (p_wcode[q] = "CLD_EXITED" => p_stat[q] = "SZOMB")'
    BY DEF InCall
  <2>1. (p_stat[q] \notin Active => call[q] = User)'
    BY <1>1, <1>2, <1>6 DEF IInv, InCall, Active
  <2>2. (p_wcode[q] = "CLD_EXITED" => p_stat[q] = "SZOMB")'
    BY <1>6 DEF IInv, InCall, Active
  <2>3. ASSUME (call[q].op = "fork")'
        PROVE  (p_stat[call[q].child] = "SIDL" /\ p_parent[call[q].child] = q)'
    <3>1. q # p /\ call'[q] = call[q] /\ call[q].op = "fork" /\ call[q] \in CallType
      BY <1>1, <1>2, <2>3
    <3>2. call[q].child \in Proc
      BY <3>1 DEF CallType, Waits
    <3>3. p_stat[call[q].child] = "SIDL" /\ p_parent[call[q].child] = q
      BY <3>1 DEF IInv, InCall
    <3>4. call[q].child \notin p_child[p]
      BY <1>8, <3>1, <3>3
    <3> QED
      BY <1>2, <1>6, <3>1, <3>2, <3>3, <3>4 DEF Active
  <2> QED
    BY <2>1, <2>2, <2>3
<1>16. InitLives'
  <2>1. init \notin p_child[p] /\ init \notin p_orphan[p]
    BY <1>8 DEF IInv, InitLives
  <2> QED
    BY <1>1, <1>2, <1>6, <2>1 DEF IInv, InitLives
<1> QED
  BY <1>10, <1>11, <1>12, <1>13, <1>14, <1>15, <1>16 DEF IInv

(* The end of exit(): a zombie, or with SNOWAIT a free slot.               *)
LEMMA ZombieKeeps ==
  ASSUME IInv, NEW p \in Proc, zombie(p)
  PROVE  IInv'
<1> USE InitAssumption
<1> DEFINE z == [Table EXCEPT !.stat[p] = "SZOMB", !.wcode[p] = "CLD_EXITED"]
           t == sigcld(z, p, p_parent[p])
<1>1. /\ p_stat \in [Proc -> Stat] /\ call \in [Proc -> CallType] /\ Table \in Tables
      /\ Table.stat = p_stat /\ Table.wcode = p_wcode /\ Table.sig = p_sig
  BY DEF IInv, Typed, Table, Tables
<1>2. /\ p_stat[p] = "SRUN" /\ call[p].op = "dying" /\ p # init /\ ~Settled(p)
      /\ call' = [call EXCEPT ![p] = User] /\ User \in CallType /\ User.op = "user"
  BY DEF zombie, Running, IInv, InitLives, Settled, User, CallType
<1>3. p_parent[p] \in Proc
  BY <1>2 DEF IInv, Kin, Settled
<1>4. /\ z \in Tables
      /\ \A q \in Proc : z.stat[q] = IF q = p THEN "SZOMB" ELSE p_stat[q]
      /\ \A q \in Proc \ {p} : z.wcode[q] = p_wcode[q]
      /\ z.sig = p_sig
  BY <1>1 DEF Tables, Stat, Code
<1>5. Calm(z, t) /\ t \in Tables
  <2> HIDE DEF z
  <2> QED
    BY <1>3, <1>4, SigcldCalm DEF Calm
<1>6. /\ t.stat[p] = "SZOMB"
      /\ \A q \in Proc \ {p} :
           /\ t.stat[q] = p_stat[q] \/ (p_stat[q] \in Active /\ t.stat[q] \in Active)
           /\ t.wcode[q] = "CLD_EXITED" => p_wcode[q] = "CLD_EXITED"
      /\ "SIGKILL" \notin t.sig[init]
  <2> HIDE DEF z, t
  <2> QED
    BY <1>4, <1>5 DEF Calm, Active, IInv, InitLives
<1>7. \/ Becomes(Vacated(t, {p})) /\ Unchained({p})
      \/ Becomes(t) /\ UNCHANGED chain
  BY DEF zombie
<1> HIDE DEF z, t
<1>8. CASE Becomes(Vacated(t, {p})) /\ Unchained({p})
  <2>1. /\ Table' \in Tables
        /\ \A q \in {p} : p_stat'[q] = "free" /\ p_wcode'[q] = "0" /\ p_sig'[q] = {}
        /\ \A q \in Proc \ {p} :
             p_stat'[q] = t.stat[q] /\ p_wcode'[q] = t.wcode[q] /\ p_sig'[q] = t.sig[q]
    BY <1>5, <1>8, VacatedTable
  <2>2. "SIGKILL" \notin p_sig'[init] /\ {p} \in SUBSET Proc /\ init \notin {p}
    BY <1>2, <1>6, <2>1
  <2>3. \A q \in {p} : ~Settled(q) /\ p_stat'[q] = "free" /\ p_wcode'[q] = "0"
                                   /\ (q = p \/ call[q] = User)
    BY <1>2, <2>1
  <2>4. \A q \in Proc \ {p} :
          /\ p_stat'[q] = p_stat[q] \/ (p_stat[q] \in Active /\ p_stat'[q] \in Active)
          /\ p_wcode'[q] = "CLD_EXITED" => p_wcode[q] = "CLD_EXITED"
    BY <1>6, <2>1
  <2>5. \A q \in Proc \ {p} : call[q].op = "fork" => call[q].child \notin {p}
    BY <1>2 DEF IInv, InCall
  <2> QED
    BY <1>2, <1>8, <2>1, <2>2, <2>3, <2>4, <2>5, FreeKeeps
<1>9. CASE Becomes(t) /\ UNCHANGED chain
  <2>1. Table' = t /\ Table'.stat = p_stat' /\ Table'.wcode = p_wcode' /\ Table'.sig = p_sig'
    <3>1. Table' = t
      BY <1>5, <1>9, BecomesTable
    <3> QED
      BY <3>1 DEF Table
  <2>2. /\ p_stat' \in [Proc -> Stat] /\ p_stat'[p] = "SZOMB"
        /\ \A q \in Proc \ {p} :
             /\ p_stat'[q] = p_stat[q] \/ (p_stat[q] \in Active /\ p_stat'[q] \in Active)
             /\ p_wcode'[q] = "CLD_EXITED" => p_wcode[q] = "CLD_EXITED"
        /\ "SIGKILL" \notin p_sig'[init]
    BY <1>5, <1>6, <2>1 DEF Tables
  <2>3. UNCHANGED <<p_parent, p_child, p_nextofkin, p_orphan>>
    BY <1>9 DEF chain
  <2>4. Typed'
    BY <1>1, <1>2, <1>5, <2>1, <2>3 DEF IInv, Typed
  <2>5. Alive' = Alive
    BY <1>1, <1>2, <2>2 DEF Alive, Active
  <2>6. Chains'
    BY <2>3, <2>5 DEF IInv, Chains
  <2>7. Kin'
    <3>1. \A q \in Proc : Settled(q) => Settled(q)'
      BY <1>1, <1>2, <2>2 DEF Settled
    <3>2. ASSUME NEW q \in Proc, (p_stat[q] # "free" /\ q # init)'
          PROVE  (Settled(p_parent[q]) /\ Settled(p_nextofkin[q]))'
      <4>1. Settled(p_parent[q]) /\ Settled(p_nextofkin[q])
        BY <1>2, <2>2, <3>2 DEF IInv, Kin, Active
      <4>2. p_parent[q] \in Proc /\ p_nextofkin[q] \in Proc
        BY <4>1 DEF Settled
      <4> QED
        BY <2>3, <3>1, <4>1, <4>2 DEF Settled
    <3> QED
      BY <3>2 DEF Kin
  <2>8. NoCycle' /\ FreeAlone'
    BY <1>2, <2>2, <2>3 DEF IInv, NoCycle, FreeAlone, Active
  <2>9. InCall'
    <3> SUFFICES ASSUME NEW q \in Proc
                 PROVE  /\ (p_stat[q] \notin Active => call[q] = User)'
                        /\ (call[q].op = "fork" =>
                              p_stat[call[q].child] = "SIDL" /\ p_parent[call[q].child] = q)'
                        /\ (p_wcode[q] = "CLD_EXITED" => p_stat[q] = "SZOMB")'
      BY DEF InCall
    <3>1. (p_stat[q] \notin Active => call[q] = User)'
      BY <1>1, <1>2, <2>2 DEF IInv, InCall, Active
    <3>2. (p_wcode[q] = "CLD_EXITED" => p_stat[q] = "SZOMB")'
      BY <2>2 DEF IInv, InCall, Active
    <3>3. ASSUME (call[q].op = "fork")'
          PROVE  (p_stat[call[q].child] = "SIDL" /\ p_parent[call[q].child] = q)'
      <4>1. q # p /\ call'[q] = call[q] /\ call[q].op = "fork" /\ call[q] \in CallType
        BY <1>1, <1>2, <3>3
      <4>2. call[q].child \in Proc
        BY <4>1 DEF CallType, Waits
      <4>3. p_stat[call[q].child] = "SIDL" /\ p_parent[call[q].child] = q
        BY <4>1 DEF IInv, InCall
      <4>4. p_stat'[call[q].child] = "SIDL"
        BY <1>2, <2>2, <4>2, <4>3 DEF Active
      <4> QED
        BY <2>3, <4>1, <4>3, <4>4
    <3> QED
      BY <3>1, <3>2, <3>3
  <2>10. InitLives'
    BY <1>1, <1>2, <2>2, <2>3 DEF IInv, InitLives
  <2> QED
    BY <2>4, <2>6, <2>7, <2>8, <2>9, <2>10 DEF IInv
<1> QED
  BY <1>7, <1>8, <1>9

-----------------------------------------------------------------------------
(* init alone, and the other slots free.                                   *)
THEOREM InitIInv == Init => IInv
<1> SUFFICES ASSUME Init PROVE IInv
  OBVIOUS
<1> USE InitAssumption
<1>1. User \in CallType /\ User.op = "user"
  BY DEF User, CallType
<1>2. Typed
  <2>1. Table \in Tables
    BY DEF Init, Table, Tables, Stat, Code, Pending
  <2> QED
    BY <1>1, <2>1 DEF Init, Typed
<1>3. Chains
  BY DEF Init, Chains, Alive
<1>4. Kin /\ FreeAlone
  BY DEF Init, Kin, FreeAlone
<1>5. NoCycle
  BY DEF Init, NoCycle
<1>6. InCall /\ InitLives
  BY <1>1 DEF Init, InCall, InitLives, Active
<1> QED
  BY <1>2, <1>3, <1>4, <1>5, <1>6 DEF IInv

(* Every step keeps the family in order.                                   *)
THEOREM NextIInv == IInv /\ [Next]_vars => IInv'
<1> SUFFICES ASSUME IInv, [Next]_vars PROVE IInv'
  OBVIOUS
<1>1. CASE UNCHANGED vars
  <2>1. Calm(Table, Table')
    BY <1>1 DEF vars, IInv, Typed, Table, Calm
  <2> QED
    BY <1>1, <2>1, QuietKeeps DEF vars, IInv, Typed
<1>2. CASE Next
  <2>1. PICK p \in Proc : Kernel(p) \/ Program(p)
    BY <1>2 DEF Next
  <2>2. CASE Kernel(p)
    BY <2>2, ResumeKeeps, PsigKeeps, WaitKeeps, ForkEndKeeps, KillKeeps, ReleaseKeeps,
       ZombieKeeps DEF Kernel
  <2>3. CASE Program(p)
    BY <2>3, WaitKeeps, ForkKeeps, KillKeeps, SignalKeeps, ExitKeeps DEF Program, Sent
  <2> QED
    BY <2>1, <2>2, <2>3
<1> QED
  BY <1>1, <1>2

(* For every process table: no child and no orphan is ever lost, no freed  *)
(* slot stays on a chain, and nobody's parent or next of kin has gone      *)
(* (exit(), freeproc() and newproc()).                                     *)
THEOREM FamilyKept == Spec => []FamilyOK
<1>1. IInv => FamilyOK
  <2> SUFFICES ASSUME IInv, NEW p \in Proc
               PROVE  /\ p_child[p] = {q \in Alive : p_parent[q] = p}
                      /\ p_orphan[p] = {q \in Alive : p_nextofkin[q] = p}
                      /\ p \in Alive \ {init} =>
                           {p_parent[p], p_nextofkin[p]} \subseteq {q \in Proc : ~Gone(q)}
    BY DEF FamilyOK
  <2>1. /\ p_child[p] = {q \in Alive : p_parent[q] = p}
        /\ p_orphan[p] = {q \in Alive : p_nextofkin[q] = p}
    BY DEF IInv, Chains
  <2>2. \A q : Settled(q) => q \in Proc /\ ~Gone(q)
    BY DEF Settled, Gone, Active
  <2>3. p \in Alive \ {init} => Settled(p_parent[p]) /\ Settled(p_nextofkin[p])
    BY DEF IInv, Kin, Alive
  <2> QED
    BY <2>1, <2>2, <2>3
<1> QED
  BY <1>1, InitIInv, NextIInv, PTL DEF Spec

(* For every process table: no process is its own heir, nor are two or     *)
(* more each other's, so that the times of the dead reach someone alive.   *)
THEOREM HeirsEnd == Spec => []NoCycle
<1>1. IInv => NoCycle
  BY DEF IInv
<1> QED
  BY <1>1, InitIInv, NextIInv, PTL DEF Spec

-----------------------------------------------------------------------------
(* What wait() reports, and who sleeps for it.                             *)

(* ReportTrue, of a table.                                                 *)
Report(t) ==
  \A p \in Proc :
    /\ t.wcode[p] = "CLD_EXITED" <=> t.stat[p] = "SZOMB"
    /\ t.wcode[p] = "CLD_STOPPED" => t.stat[p] = "SSTOP"
    /\ t.stat[p] = "SSTOP" => "SIGKILL" \notin t.sig[p]

(* Nobody has gone to sleep or on another queue, and nothing new is there  *)
(* to report.                                                              *)
Rouses(t, u) ==
  /\ u \in Tables /\ Report(u)
  /\ \A p \in Proc :
       /\ u.stat[p] = "SSLEEP" => t.stat[p] = "SSLEEP" /\ u.wchan[p] = t.wchan[p]
       /\ u.wcode[p] \in {t.wcode[p], "0"}

(* Nobody sleeps on these channels.                                        *)
Empty(u, chans) == \A q \in Proc : u.stat[q] = "SSLEEP" => u.wchan[q] \notin chans

(* A process that sleeps in waitid() with its call: on the child it is for *)
(* or on its own address, and for a good reason.                           *)
Blocked(p) ==
  /\ call[p] \in Waits
  /\ p_wchan[p] = IF call[p].id = None THEN p ELSE call[p].id
  /\ Match(p, call[p]) # {} /\ Reportable(p, call[p]) = {}

WaitInv == \A p \in Proc : p_stat[p] = "SSLEEP" => Blocked(p)

(* One wakeup after another.                                               *)
LEMMA RousesTwice ==
  ASSUME NEW t, NEW u, NEW v, Rouses(t, u), Rouses(u, v)
  PROVE  Rouses(t, v)
BY DEF Rouses

(* Nobody goes back to a queue that has been emptied.                      *)
LEMMA EmptyKept ==
  ASSUME NEW u, NEW v, NEW chans, Rouses(u, v), Empty(u, chans)
  PROVE  Empty(v, chans)
BY DEF Rouses, Empty

(* wakeprocs() leaves nobody asleep on the channels.                       *)
LEMMA WakeRouses ==
  ASSUME NEW t \in Tables, Report(t), NEW chans
  PROVE  Rouses(t, wakeprocs(t, chans)) /\ Empty(wakeprocs(t, chans), chans)
<1> DEFINE u == wakeprocs(t, chans)
<1>1. /\ u.stat = [p \in Proc |-> IF t.wchan[p] \in chans /\ t.stat[p] = "SSLEEP"
                                  THEN "SRUN" ELSE t.stat[p]]
      /\ u.wchan = [p \in Proc |-> IF t.wchan[p] \in chans THEN None ELSE t.wchan[p]]
      /\ u.wcode = t.wcode /\ u.sig = t.sig
  BY DEF wakeprocs, Tables
<1>2. u \in Tables
  BY WakeCalm
<1>3. Report(u)
  BY <1>1 DEF Report
<1> HIDE DEF u
<1>4. Rouses(t, u) /\ Empty(u, chans)
  BY <1>1, <1>2, <1>3 DEF Rouses, Empty
<1> QED
  BY <1>4 DEF u

(* setrun() takes the report of a stop back.                               *)
LEMMA SetrunRouses ==
  ASSUME NEW t \in Tables, Report(t), NEW p \in Proc, t.stat[p] \in {"SSLEEP", "SSTOP"}
  PROVE  Rouses(t, setrun(t, p))
<1> DEFINE u == setrun(t, p)
<1>1. /\ u.stat = [t.stat EXCEPT ![p] = "SRUN"]
      /\ u.wchan = [t.wchan EXCEPT ![p] = None]
      /\ u.wcode = [t.wcode EXCEPT ![p] = IF t.stat[p] = "SSTOP" THEN "0" ELSE @]
      /\ u.sig = t.sig
  BY DEF setrun, unsleep, Tables
<1>2. u \in Tables
  BY SetrunCalm DEF Calm, Active
<1>3. t.stat \in [Proc -> Stat] /\ t.wcode \in [Proc -> Code] /\ t.wchan \in [Proc -> Proc \cup {None}]
  BY DEF Tables
<1> HIDE DEF u
<1>4. Report(u)
  BY <1>1, <1>3 DEF Report
<1>5. Rouses(t, u)
  BY <1>1, <1>2, <1>3, <1>4 DEF Rouses
<1> QED
  BY <1>5 DEF u

(* SIGCONT.                                                                *)
LEMMA ContinuedRouses ==
  ASSUME NEW t \in Tables, Report(t), NEW p \in Proc
  PROVE  Rouses(t, Continued(t, p))
<1> DEFINE u == [t EXCEPT !.sig[p] = @ \ {"SIGSTOP"}]
<1>1. /\ u.stat = t.stat /\ u.wchan = t.wchan /\ u.wcode = t.wcode
      /\ u.sig = [t.sig EXCEPT ![p] = @ \ {"SIGSTOP"}] /\ u \in Tables
  BY DEF Tables
<1>2. Continued(t, p) = IF u.stat[p] = "SSTOP" THEN setrun(u, p) ELSE u
  BY <1>1 DEF Continued
<1>3. t.sig \in [Proc -> SUBSET Pending]
  BY DEF Tables
<1> HIDE DEF u
<1>4. Report(u) /\ Rouses(t, u)
  BY <1>1, <1>3 DEF Report, Rouses
<1>5. Rouses(u, Continued(t, p))
  BY <1>1, <1>2, <1>4, SetrunRouses DEF Rouses
<1> QED
  BY <1>4, <1>5, RousesTwice

(* A signal that is posted runs a stopped process if it is SIGKILL.        *)
LEMMA NoticedRouses ==
  ASSUME NEW t \in Tables, Report(t), NEW p \in Proc, NEW s \in Pending
  PROVE  Rouses(t, Noticed([t EXCEPT !.sig[p] = @ \cup {s}], p, s))
<1> DEFINE v == [t EXCEPT !.sig[p] = @ \cup {s}]
           u == Noticed(v, p, s)
<1>1. /\ v.stat = t.stat /\ v.wchan = t.wchan /\ v.wcode = t.wcode
      /\ v.sig = [t.sig EXCEPT ![p] = @ \cup {s}] /\ v \in Tables
  BY DEF Tables
<1>2. /\ t.sig \in [Proc -> SUBSET Pending] /\ t.stat \in [Proc -> Stat]
      /\ t.wcode \in [Proc -> Code] /\ t.wchan \in [Proc -> Proc \cup {None}]
  BY DEF Tables
<1>3. u \in Tables
  <2> HIDE DEF v
  <2> QED
    BY <1>1, NoticedCalm DEF Calm
<1>4. /\ setrun(v, p).stat = [t.stat EXCEPT ![p] = "SRUN"]
      /\ setrun(v, p).wchan = [t.wchan EXCEPT ![p] = None]
      /\ setrun(v, p).wcode = [t.wcode EXCEPT ![p] = IF t.stat[p] = "SSTOP" THEN "0" ELSE @]
      /\ setrun(v, p).sig = v.sig
      /\ unsleep(v, p).stat = t.stat
      /\ unsleep(v, p).wchan = [t.wchan EXCEPT ![p] = None]
      /\ unsleep(v, p).wcode = t.wcode
      /\ unsleep(v, p).sig = v.sig
  BY DEF setrun, unsleep, Tables
<1>5. CASE t.stat[p] = "SSLEEP" \/ (t.stat[p] = "SSTOP" /\ s = "SIGKILL")
  <2>1. u = setrun(v, p)
    <3> HIDE DEF v
    <3> QED
      BY <1>1, <1>5 DEF Noticed
  <2> HIDE DEF u, v
  <2>2. Report(u)
    BY <1>1, <1>2, <1>4, <1>5, <2>1 DEF Report
  <2>3. Rouses(t, u)
    BY <1>2, <1>3, <1>4, <1>5, <2>1, <2>2 DEF Rouses
  <2> QED
    BY <2>3 DEF u, v
<1>6. CASE t.stat[p] = "SSTOP" /\ s # "SIGKILL"
  <2>1. u = unsleep(v, p)
    <3> HIDE DEF v
    <3> QED
      BY <1>1, <1>6 DEF Noticed
  <2> HIDE DEF u, v
  <2>2. Report(u)
    BY <1>1, <1>2, <1>4, <1>6, <2>1 DEF Report
  <2>3. Rouses(t, u)
    BY <1>2, <1>3, <1>4, <1>6, <2>1, <2>2 DEF Rouses
  <2> QED
    BY <2>3 DEF u, v
<1>7. CASE t.stat[p] \notin {"SSLEEP", "SSTOP"}
  <2>1. u = v
    <3> HIDE DEF v
    <3> QED
      BY <1>1, <1>7 DEF Noticed
  <2> HIDE DEF u, v
  <2>2. Report(u)
    BY <1>1, <1>2, <1>7, <2>1 DEF Report
  <2>3. Rouses(t, u)
    BY <1>1, <1>2, <1>3, <2>1, <2>2 DEF Rouses
  <2> QED
    BY <2>3 DEF u, v
<1> QED
  BY <1>5, <1>6, <1>7

(* sigtoproc().                                                            *)
LEMMA SigtoprocRouses ==
  ASSUME NEW t \in Tables, Report(t), NEW p \in Proc, NEW s \in Sent \cup {"SIGCLD"}
  PROVE  Rouses(t, sigtoproc(t, p, s))
<1> DEFINE u == IF s = "SIGCONT" THEN Continued(t, p) ELSE t
<1>1. Rouses(t, u)
  BY ContinuedRouses DEF Rouses
<1>2. u \in Tables /\ Report(u)
  BY <1>1 DEF Rouses
<1>3. CASE Ignores(p, s)
  BY <1>1, <1>3 DEF sigtoproc
<1>4. CASE ~Ignores(p, s)
  <2>1. s \in Pending
    BY <1>4 DEF Ignores, Sent, Pending
  <2>2. sigtoproc(t, p, s) = Noticed([u EXCEPT !.sig[p] = @ \cup {s}], p, s)
    BY <1>4 DEF sigtoproc
  <2> HIDE DEF u
  <2>3. Rouses(u, sigtoproc(t, p, s))
    BY <1>2, <2>1, <2>2, NoticedRouses
  <2> QED
    BY <1>1, <2>3, RousesTwice
<1> QED
  BY <1>3, <1>4

(* sigcld() wakes the parent of a process that has something to report.    *)
LEMMA SigcldRouses ==
  ASSUME NEW t \in Tables, Report(t), NEW c \in Proc, NEW parent,
         t.wcode[c] = "CLD_EXITED" => parent \in Proc
  PROVE  /\ Rouses(t, sigcld(t, c, parent))
         /\ t.wcode[c] # "0" => Empty(sigcld(t, c, parent), {c, parent})
<1> DEFINE u == wakeprocs(t, {c, parent})
<1>1. t.wcode[c] \in Code
  BY DEF Tables
<1>2. Rouses(t, t)
  BY DEF Rouses
<1>3. Rouses(t, u) /\ Empty(u, {c, parent})
  BY WakeRouses
<1>4. CASE t.wcode[c] = "CLD_EXITED"
  <2>1. sigcld(t, c, parent) = sigtoproc(u, parent, "SIGCLD")
    BY <1>4 DEF sigcld
  <2> HIDE DEF u
  <2>2. u \in Tables /\ Report(u)
    BY <1>3 DEF Rouses
  <2>3. Rouses(u, sigtoproc(u, parent, "SIGCLD"))
    BY <1>4, <2>2, SigtoprocRouses
  <2> QED
    BY <1>3, <2>1, <2>3, RousesTwice, EmptyKept
<1>5. CASE t.wcode[c] \in {"CLD_STOPPED", "CLD_CONTINUED"}
  BY <1>3, <1>5 DEF sigcld
<1>6. CASE t.wcode[c] = "0"
  BY <1>2, <1>6 DEF sigcld
<1> QED
  BY <1>1, <1>4, <1>5, <1>6 DEF Code

(* freeproc().                                                             *)
LEMMA VacatedRouses ==
  ASSUME NEW t \in Tables, Report(t), NEW C \in SUBSET Proc
  PROVE  Rouses(t, Vacated(t, C))
<1> DEFINE u == Vacated(t, C)
<1>1. /\ u.stat = [q \in Proc |-> IF q \in C THEN "free" ELSE t.stat[q]]
      /\ u.wcode = [q \in Proc |-> IF q \in C THEN "0" ELSE t.wcode[q]]
      /\ u.sig = [q \in Proc |-> IF q \in C THEN {} ELSE t.sig[q]]
      /\ u.wchan = t.wchan
  BY DEF Vacated, Tables
<1>2. u \in Tables
  BY DEF Vacated, Tables, Stat, Code
<1> HIDE DEF u
<1>3. Report(u)
  BY <1>1 DEF Report
<1>4. Rouses(t, u)
  BY <1>1, <1>2, <1>3 DEF Rouses
<1> QED
  BY <1>4 DEF u

(* The parent of c, if it is still asleep, does not wait for c.            *)
Alerted(c) ==
  \A q \in Proc : q = p_parent[c] /\ p_stat'[q] = "SSLEEP" => p_wchan'[q] \notin {c, q}

(* Those who sleep have good reason to, if every child that goes, or has   *)
(* something new to report, alerts its parent, and no child comes with     *)
(* something to report.                                                    *)
LEMMA SleepersKept ==
  ASSUME IInv, WaitInv, NEW C \in SUBSET Proc,
         \A q \in Proc : p_stat'[q] = "SSLEEP" =>
           \/ Blocked(q)'
           \/ /\ p_stat[q] = "SSLEEP" /\ p_wchan'[q] = p_wchan[q] /\ call'[q] = call[q]
              /\ p_child[q] \ C \subseteq p_child'[q]
              /\ \A c \in p_child'[q] \ p_child[q] :
                   c \in Proc /\ (p_wchan[q] \in {c, q} => p_wcode'[c] = "0"),
         \A c \in Proc : (c \notin C /\ p_wcode'[c] \in {p_wcode[c], "0"}) \/ Alerted(c)
  PROVE  WaitInv'
<1> SUFFICES ASSUME NEW q \in Proc, p_stat'[q] = "SSLEEP", ~Blocked(q)'
             PROVE  FALSE
  BY DEF WaitInv
<1>1. /\ p_stat[q] = "SSLEEP" /\ p_wchan'[q] = p_wchan[q] /\ call'[q] = call[q]
      /\ p_child[q] \ C \subseteq p_child'[q]
      /\ \A c \in p_child'[q] \ p_child[q] :
           c \in Proc /\ (p_wchan[q] \in {c, q} => p_wcode'[c] = "0")
  OBVIOUS
<1>2. Blocked(q)
  BY <1>1 DEF WaitInv
<1> DEFINE w == call[q]
<1>3. w \in Waits /\ p_wchan[q] = (IF w.id = None THEN q ELSE w.id)
  BY <1>2 DEF Blocked
<1>4. \A c \in p_child[q] : c \in Proc /\ p_parent[c] = q
  BY DEF IInv, Chains, Alive
<1>5. \A c \in p_child[q] : p_wchan[q] \in {c, q} =>
        c \notin C /\ p_wcode'[c] \in {p_wcode[c], "0"}
  BY <1>1, <1>4 DEF Alerted
<1>6. PICK c \in p_child[q] : w.id \in {None, c}
  BY <1>2 DEF Blocked, Match
<1>7. p_wchan[q] \in {c, q} /\ c \in p_child'[q]
  BY <1>1, <1>3, <1>5, <1>6
<1>8. Match(q, call[q])' # {}
  BY <1>1, <1>6, <1>7 DEF Match
<1>9. PICK d \in p_child'[q] : /\ w.id \in {None, d}
                               /\ p_wcode'[d] = "CLD_EXITED" \/ (w.jobs /\ p_wcode'[d] # "0")
  BY <1>1, <1>3, <1>8 DEF Blocked, Match, Reportable
<1>10. p_wchan[q] \in {d, q} /\ p_wcode'[d] # "0"
  <2>1. p_wchan[q] \in {d, q}
    BY <1>3, <1>9
  <2>2. p_wcode'[d] # "0"
    BY <1>9
  <2> QED
    BY <2>1, <2>2
<1>11. d \in p_child[q] /\ p_wcode'[d] = p_wcode[d]
  BY <1>1, <1>5, <1>10
<1>12. d \in Match(q, w)
  BY <1>9, <1>11 DEF Match
<1>13. d \in Reportable(q, w)
  BY <1>9, <1>11, <1>12 DEF Reportable
<1> QED
  BY <1>2, <1>13 DEF Blocked

TInv == Report(Table) /\ WaitInv

(* The fields of the table.                                                *)
LEMMA Fields ==
  ASSUME IInv
  PROVE  /\ Table \in Tables
         /\ Table.stat = p_stat /\ Table.wchan = p_wchan
         /\ Table.wcode = p_wcode /\ Table.sig = p_sig
         /\ Table'.stat = p_stat' /\ Table'.wchan = p_wchan'
         /\ Table'.wcode = p_wcode' /\ Table'.sig = p_sig'
BY DEF IInv, Typed, Table

(* ReportTrue is about the table.                                          *)
LEMMA ReportIs ==
  ASSUME IInv
  PROVE  (ReportTrue <=> Report(Table)) /\ (ReportTrue' <=> Report(Table'))
<1>1. ReportTrue <=> Report(Table)
  BY Fields DEF ReportTrue, Report
<1>2. ReportTrue' <=> Report(Table')
  BY Fields DEF ReportTrue, Report
<1> QED
  BY <1>1, <1>2

(* Steps that report nothing, in which no sleeper begins a call.           *)
LEMMA RousedKeeps ==
  ASSUME IInv, TInv, Rouses(Table, Table'), UNCHANGED chain,
         \A q \in Proc : call'[q] = call[q] \/ p_stat[q] # "SSLEEP"
  PROVE  TInv'
<1>1. \A q \in Proc :
        /\ p_stat'[q] = "SSLEEP" => p_stat[q] = "SSLEEP" /\ p_wchan'[q] = p_wchan[q]
        /\ p_wcode'[q] \in {p_wcode[q], "0"}
  BY Fields DEF Rouses
<1>2. p_child' = p_child
  BY DEF chain
<1>3. WaitInv'
  BY <1>1, <1>2, SleepersKept, {} \in SUBSET Proc DEF TInv
<1> QED
  BY <1>3 DEF TInv, Rouses

(* Steps in which p has something new to report, and says so.              *)
LEMMA ToldKeeps ==
  ASSUME IInv, TInv, NEW p \in Proc, NEW u, Rouses(u, Table'),
         \A q \in Proc : /\ u.stat[q] = "SSLEEP" => p_stat[q] = "SSLEEP" /\ u.wchan[q] = p_wchan[q]
                         /\ q # p => u.wcode[q] = p_wcode[q],
         Empty(Table', {p, p_parent[p]}), UNCHANGED chain,
         \A q \in Proc : call'[q] = call[q] \/ p_stat[q] # "SSLEEP"
  PROVE  TInv'
<1>1. \A q \in Proc :
        /\ p_stat'[q] = "SSLEEP" => p_stat[q] = "SSLEEP" /\ p_wchan'[q] = p_wchan[q]
        /\ q # p => p_wcode'[q] \in {p_wcode[q], "0"}
  BY Fields DEF Rouses
<1>2. p_child' = p_child
  BY DEF chain
<1>3. Alerted(p)
  BY Fields DEF Alerted, Empty
<1>4. WaitInv'
  BY <1>1, <1>2, <1>3, SleepersKept, {} \in SUBSET Proc DEF TInv
<1> QED
  BY <1>4 DEF TInv, Rouses

(* A process that runs, or is about to sleep, stops.                       *)
LEMMA StopReports ==
  ASSUME IInv, TInv, NEW p \in Proc, p_stat[p] = "SRUN", NEW t \in Tables,
         t.wcode = p_wcode, t.sig = p_sig,
         \A q \in Proc \ {p} : t.stat[q] = p_stat[q] /\ t.wchan[q] = p_wchan[q],
         stop(t, p), UNCHANGED chain,
         \A q \in Proc : call'[q] = call[q] \/ p_stat[q] # "SSLEEP"
  PROVE  TInv'
<1> DEFINE u == [t EXCEPT !.sig[p] = @ \ {"SIGSTOP"}, !.stat[p] = "SSTOP",
                          !.wcode[p] = "CLD_STOPPED"]
<1>1. /\ u \in Tables
      /\ u.sig = [t.sig EXCEPT ![p] = @ \ {"SIGSTOP"}]
      /\ u.stat = [t.stat EXCEPT ![p] = "SSTOP"]
      /\ u.wcode = [t.wcode EXCEPT ![p] = "CLD_STOPPED"]
      /\ u.wchan = t.wchan
  BY DEF Tables, Stat, Code
<1>2. /\ t.stat \in [Proc -> Stat] /\ t.wcode \in [Proc -> Code]
      /\ t.sig \in [Proc -> SUBSET Pending]
  BY DEF Tables
<1>3. Stopped(t, p) = sigcld(u, p, p_parent[p])
  BY DEF Stopped
<1> HIDE DEF u
<1>4. Report(u)
  <2>1. /\ u.wcode[p] = "CLD_STOPPED" /\ u.stat[p] = "SSTOP" /\ "SIGKILL" \notin u.sig[p]
    BY <1>1, <1>2 DEF stop
  <2>2. \A q \in Proc \ {p} :
          u.wcode[q] = p_wcode[q] /\ u.stat[q] = p_stat[q] /\ u.sig[q] = p_sig[q]
    BY <1>1, <1>2
  <2>3. Report(Table)
    BY DEF TInv
  <2> QED
    BY <2>1, <2>2, <2>3, Fields DEF Report
<1>5. u.wcode[p] = "CLD_STOPPED"
  BY <1>1, <1>2
<1>6. Rouses(u, Stopped(t, p)) /\ Empty(Stopped(t, p), {p, p_parent[p]})
  <2>1. /\ Rouses(u, sigcld(u, p, p_parent[p]))
        /\ Empty(sigcld(u, p, p_parent[p]), {p, p_parent[p]})
    BY <1>1, <1>4, <1>5, SigcldRouses
  <2> QED
    BY <1>3, <2>1
<1>7. Table' = Stopped(t, p)
  BY <1>6, BecomesTable DEF stop, Rouses
<1>8. \A q \in Proc : /\ u.stat[q] = "SSLEEP" => p_stat[q] = "SSLEEP" /\ u.wchan[q] = p_wchan[q]
                      /\ q # p => u.wcode[q] = p_wcode[q]
  BY <1>1, <1>2
<1> QED
  BY <1>6, <1>7, <1>8, ToldKeeps

(* The end of a stop is reported.                                          *)
LEMMA ResumeReports ==
  ASSUME IInv, TInv, NEW p \in Proc, resume(p)
  PROVE  TInv'
<1> DEFINE u == [Table EXCEPT !.wcode[p] = "CLD_CONTINUED"]
<1>1. /\ u \in Tables /\ u.sig = p_sig /\ u.stat = p_stat /\ u.wchan = p_wchan
      /\ u.wcode = [p_wcode EXCEPT ![p] = "CLD_CONTINUED"]
  BY DEF Tables, Stat, Code, IInv, Typed, Table
<1>2. Becomes(sigcld(u, p, p_parent[p])) /\ p_stat[p] = "SRUN" /\ UNCHANGED <<chain, call>>
  BY DEF resume
<1> HIDE DEF u
<1>3. p_wcode \in [Proc -> Code] /\ Report(Table)
  BY DEF IInv, Typed, Tables, Table, TInv
<1>4. Report(u) /\ u.wcode[p] = "CLD_CONTINUED"
  BY <1>1, <1>2, <1>3, Fields DEF Report
<1>5. /\ Rouses(u, sigcld(u, p, p_parent[p]))
      /\ Empty(sigcld(u, p, p_parent[p]), {p, p_parent[p]})
  BY <1>1, <1>4, SigcldRouses
<1>6. Table' = sigcld(u, p, p_parent[p])
  BY <1>2, <1>5, BecomesTable DEF Rouses
<1>7. \A q \in Proc : /\ u.stat[q] = "SSLEEP" => p_stat[q] = "SSLEEP" /\ u.wchan[q] = p_wchan[q]
                      /\ q # p => u.wcode[q] = p_wcode[q]
  BY <1>1, <1>3
<1> QED
  BY <1>2, <1>5, <1>6, <1>7, ToldKeeps

(* Steps that leave the state of every process, what it sleeps on and what *)
(* is reported of it alone, and send no SIGKILL.                           *)
LEMMA CalmReports ==
  ASSUME IInv, TInv, UNCHANGED <<p_stat, p_wchan, p_wcode, chain>>,
         p_sig' \in [Proc -> SUBSET Pending],
         \A q \in Proc : "SIGKILL" \in p_sig'[q] => "SIGKILL" \in p_sig[q],
         \A q \in Proc : call'[q] = call[q] \/ p_stat[q] # "SSLEEP"
  PROVE  TInv'
<1>1. Table' \in Tables
  BY DEF IInv, Typed, Tables, Table
<1>2. Report(Table')
  BY Fields DEF TInv, Report
<1>3. Rouses(Table, Table')
  BY <1>1, <1>2, Fields DEF Rouses
<1> QED
  BY <1>3, RousedKeeps

(* Signals on the way back to user mode.                                   *)
LEMMA PsigReports ==
  ASSUME IInv, TInv, NEW p \in Proc, psig(p)
  PROVE  TInv'
<1>1. /\ p_stat[p] = "SRUN" /\ p_sig \in [Proc -> SUBSET Pending] /\ UNCHANGED chain
      /\ call \in [Proc -> CallType]
  BY DEF psig, Running, IInv, Typed, Tables, Table
<1>2. CASE \/ /\ p_sig' = [p_sig EXCEPT ![p] = {}]
              /\ call' = [call EXCEPT ![p] = [op |-> "exit"]]
              /\ UNCHANGED <<p_stat, p_wchan, p_wcode>>
           \/ /\ p_sig' = [p_sig EXCEPT ![p] = @ \ {"SIGCLD"}]
              /\ call' = [call EXCEPT ![p] = IF p = init THEN [op |-> "childeath"] ELSE @]
              /\ UNCHANGED <<p_stat, p_wchan, p_wcode>>
  <2>1. /\ p_sig' \in [Proc -> SUBSET Pending]
        /\ \A q \in Proc : "SIGKILL" \in p_sig'[q] => "SIGKILL" \in p_sig[q]
    BY <1>1, <1>2
  <2>2. \A q \in Proc : call'[q] = call[q] \/ p_stat[q] # "SSLEEP"
    BY <1>1, <1>2
  <2> QED
    BY <1>1, <1>2, <2>1, <2>2, CalmReports
<1>3. CASE stop(Table, p) /\ UNCHANGED call
  BY <1>1, <1>3, Fields, StopReports
<1> QED
  BY <1>2, <1>3 DEF psig

(* A process that runs frees children of its own.                          *)
LEMMA FreedReports ==
  ASSUME IInv, TInv, NEW p \in Proc, p_stat[p] = "SRUN", NEW C \in SUBSET Proc,
         \A c \in C : p_parent[c] = p, Becomes(Vacated(Table, C)), Unchained(C),
         \A q \in Proc : call'[q] = call[q] \/ p_stat[q] # "SSLEEP"
  PROVE  TInv'
<1>1. Rouses(Table, Vacated(Table, C))
  BY Fields, VacatedRouses DEF TInv
<1>2. Table' = Vacated(Table, C)
  BY <1>1, BecomesTable DEF Rouses
<1>3. \A q \in Proc :
        /\ p_stat'[q] = "SSLEEP" => p_stat[q] = "SSLEEP" /\ p_wchan'[q] = p_wchan[q]
        /\ p_wcode'[q] \in {p_wcode[q], "0"}
  BY <1>1, <1>2, Fields DEF Rouses
<1>4. \A q \in Proc : p_child'[q] = p_child[q] \ C
  BY DEF Unchained
<1>5. \A c \in C : Alerted(c)
  BY <1>3 DEF Alerted
<1>6. WaitInv'
  BY <1>3, <1>4, <1>5, SleepersKept DEF TInv
<1> QED
  BY <1>1, <1>2, <1>6 DEF TInv, Rouses

(* The search of waitid() ends, or finds nothing to report and sleeps.     *)
LEMMA ScanReports ==
  ASSUME IInv, TInv, NEW p \in Proc, p_stat[p] = "SRUN", NEW w \in Waits, Scan(p, w)
  PROVE  TInv'
<1>1. /\ p_sig \in [Proc -> SUBSET Pending] /\ call \in [Proc -> CallType]
      /\ p_stat \in [Proc -> Stat] /\ p_wchan \in [Proc -> Proc \cup {None}]
      /\ p_wcode \in [Proc -> Code] /\ Table \in Tables
  BY DEF IInv, Typed, Tables, Table
<1>2. ASSUME NEW r, call' = [call EXCEPT ![p] = r]
      PROVE  \A q \in Proc : call'[q] = call[q] \/ p_stat[q] # "SSLEEP"
  BY <1>1, <1>2
<1>3. CASE Interrupted(p)
  BY <1>1, <1>2, <1>3, CalmReports DEF Interrupted
<1>4. ASSUME NEW c \in Reportable(p, w), Reported(p, c)
      PROVE  TInv'
  <2>1. c \in Proc /\ p_parent[c] = p
    BY DEF Reportable, Match, IInv, Chains, Alive
  <2>2. \A q \in Proc : call'[q] = call[q] \/ p_stat[q] # "SSLEEP"
    BY <1>2, <1>4 DEF Reported
  <2>3. CASE p_wcode[c] = "CLD_EXITED"
    BY <1>4, <2>1, <2>2, <2>3, FreedReports DEF Reported
  <2>4. CASE p_wcode[c] # "CLD_EXITED"
    <3> DEFINE u == [Table EXCEPT !.wcode[c] = "0"]
    <3>1. /\ u \in Tables /\ u.sig = p_sig /\ u.stat = p_stat /\ u.wchan = p_wchan
          /\ u.wcode = [p_wcode EXCEPT ![c] = "0"]
      BY <1>1, <2>1 DEF Tables, Code, Table
    <3>2. Becomes(u) /\ UNCHANGED chain
      BY <1>4, <2>4 DEF Reported
    <3> HIDE DEF u
    <3>3. Table' = u
      BY <3>1, <3>2, BecomesTable
    <3>4. Report(u)
      BY <1>1, <2>1, <2>4, <3>1, Fields DEF Report, TInv
    <3>5. Rouses(Table, Table')
      BY <1>1, <2>1, <3>1, <3>3, <3>4, Fields DEF Rouses
    <3> QED
      BY <2>2, <3>2, <3>5, RousedKeeps
  <2> QED
    BY <2>3, <2>4
<1>5. CASE Reportable(p, w) = {} /\ Match(p, w) # {} /\ Asleep(p, w)
  <2> DEFINE k == IF w.id = None THEN p ELSE w.id
             t == [Table EXCEPT !.wchan[p] = k, !.stat[p] = "SSLEEP"]
  <2>1. k \in Proc
    BY DEF Waits
  <2>2. /\ t \in Tables /\ t.wcode = p_wcode /\ t.sig = p_sig
        /\ t.wchan = [p_wchan EXCEPT ![p] = k]
        /\ t.stat = [p_stat EXCEPT ![p] = "SSLEEP"]
    BY <1>1, <2>1 DEF Tables, Stat, Table
  <2>3. \/ Interrupted(p)
        \/ stop(t, p) /\ call' = [call EXCEPT ![p] = w] /\ UNCHANGED chain
        \/ Becomes(t) /\ call' = [call EXCEPT ![p] = w] /\ UNCHANGED chain
    BY <1>5 DEF Asleep
  <2> HIDE DEF t, k
  <2>4. CASE stop(t, p) /\ call' = [call EXCEPT ![p] = w] /\ UNCHANGED chain
    <3>1. \A q \in Proc \ {p} : t.stat[q] = p_stat[q] /\ t.wchan[q] = p_wchan[q]
      BY <1>1, <2>2
    <3> QED
      BY <1>2, <2>2, <2>4, <3>1, StopReports
  <2>5. CASE Becomes(t) /\ call' = [call EXCEPT ![p] = w] /\ UNCHANGED chain
    <3>1. Table' = t
      BY <2>2, <2>5, BecomesTable
    <3>2. /\ p_wcode' = p_wcode /\ p_sig' = p_sig
          /\ p_wchan' = [p_wchan EXCEPT ![p] = k]
          /\ p_stat' = [p_stat EXCEPT ![p] = "SSLEEP"] /\ p_child' = p_child
      BY <2>2, <2>5, <3>1, Fields DEF chain
    <3>3. Report(Table')
      <4>1. \A q \in Proc : p_stat'[q] = IF q = p THEN "SSLEEP" ELSE p_stat[q]
        BY <1>1, <3>2
      <4>2. ReportTrue
        BY ReportIs DEF TInv
      <4>3. ReportTrue'
        BY <3>2, <4>1, <4>2 DEF ReportTrue
      <4> QED
        BY <4>3, ReportIs
    <3>4. call'[p] = w /\ p_wchan'[p] = k /\ \A q \in Proc \ {p} : call'[q] = call[q]
      BY <1>1, <2>5, <3>2
    <3>5. Match(p, call[p])' # {} /\ Reportable(p, call[p])' = {}
      BY <1>5, <3>2, <3>4 DEF Match, Reportable
    <3>6. Blocked(p)'
      BY <3>4, <3>5 DEF Blocked, k
    <3>7. \A q \in Proc \ {p} : p_stat'[q] = "SSLEEP" =>
            /\ p_stat[q] = "SSLEEP" /\ p_wchan'[q] = p_wchan[q] /\ call'[q] = call[q]
            /\ p_child'[q] = p_child[q]
      BY <1>1, <3>2, <3>4
    <3>8. WaitInv'
      BY <3>2, <3>6, <3>7, SleepersKept, {} \in SUBSET Proc DEF TInv
    <3> QED
      BY <3>3, <3>8 DEF TInv
  <2> QED
    BY <1>3, <2>3, <2>4, <2>5
<1> QED
  BY <1>3, <1>4, <1>5 DEF Scan

(* waitid(), and the handler of init.                                      *)
LEMMA WaitReports ==
  ASSUME IInv, TInv, NEW p \in Proc,
         waitAgain(p) \/ childeath(p) \/ \E a \in WaitArgs : waitid(p, Wait(a))
  PROVE  TInv'
<1>0. \A a \in (Proc \cup {None}) \X BOOLEAN : Wait(a) \in Waits
  BY DEF Wait, Waits
<1>1. ASSUME NEW a \in WaitArgs, waitid(p, Wait(a))
      PROVE  TInv'
  <2>1. Wait(a) \in Waits
    BY <1>0, WaitAssumption
  <2> QED
    BY <1>1, <2>1, ScanReports DEF waitid, Running
<1>2. ASSUME childeath(p)
      PROVE  TInv'
  <2>1. AnyExited \in Waits
    BY <1>0 DEF AnyExited
  <2> QED
    BY <1>2, <2>1, ScanReports DEF childeath, Running
<1>3. ASSUME waitAgain(p)
      PROVE  TInv'
  <2>1. call[p] \in Waits /\ p_stat[p] = "SRUN"
    BY <1>3 DEF waitAgain, Running, IInv, Typed, CallType, Waits
  <2>2. CASE Interrupted(p)
    <3>1. p_sig \in [Proc -> SUBSET Pending] /\ call \in [Proc -> CallType]
      BY DEF IInv, Typed, Tables, Table
    <3>2. \A q \in Proc : call'[q] = call[q] \/ p_stat[q] # "SSLEEP"
      BY <2>1, <2>2, <3>1 DEF Interrupted
    <3> QED
      BY <2>2, <3>1, <3>2, CalmReports DEF Interrupted
  <2>3. CASE stop(Table, p) /\ UNCHANGED <<chain, call>>
    BY <2>1, <2>3, Fields, StopReports
  <2>4. CASE Scan(p, call[p])
    BY <2>1, <2>4, ScanReports
  <2> QED
    BY <1>3, <2>2, <2>3, <2>4 DEF waitAgain
<1> QED
  BY <1>1, <1>2, <1>3

(* kill(), and the end of it.                                              *)
LEMMA KillReports ==
  ASSUME IInv, TInv, NEW p \in Proc,
         killPost(p) \/ \E q \in Proc, s \in Sent : kill(p, q, s)
  PROVE  TInv'
<1>1. /\ Table \in Tables /\ Report(Table) /\ call \in [Proc -> CallType]
      /\ p_sig \in [Proc -> SUBSET Pending]
  BY DEF IInv, Typed, TInv, Tables, Table
<1>2. ASSUME NEW q \in Proc, NEW s \in Sent, kill(p, q, s)
      PROVE  TInv'
  <2>1. p_stat[p] = "SRUN" /\ UNCHANGED chain
    BY <1>2 DEF kill, Calls, Running
  <2>2. CASE Ignores(q, s)
    <3>1. Rouses(Table, sigtoproc(Table, q, s))
      BY <1>1, SigtoprocRouses
    <3>2. Rouses(Table, Table')
      BY <1>2, <2>2, <3>1, BecomesTable DEF kill, Rouses
    <3> QED
      BY <1>2, <2>1, <2>2, <3>2, RousedKeeps DEF kill
  <2>3. CASE ~Ignores(q, s)
    <3>1. \A o \in Proc : call'[o] = call[o] \/ p_stat[o] # "SSLEEP"
      BY <1>1, <1>2, <2>1, <2>3 DEF kill
    <3> QED
      BY <1>1, <1>2, <2>1, <2>3, <3>1, CalmReports DEF kill
  <2> QED
    BY <2>2, <2>3
<1>3. ASSUME killPost(p)
      PROVE  TInv'
  <2>1. call[p].to \in Proc /\ call[p].sig \in Sent
    BY <1>3 DEF killPost, Running, IInv, Typed, CallType, Waits
  <2>2. Rouses(Table, sigtoproc(Table, call[p].to, call[p].sig))
    BY <1>1, <2>1, SigtoprocRouses
  <2>3. Rouses(Table, Table')
    BY <1>3, <2>2, BecomesTable DEF killPost, Rouses
  <2>4. \A o \in Proc : call'[o] = call[o] \/ p_stat[o] # "SSLEEP"
    BY <1>1, <1>3 DEF killPost, Running
  <2> QED
    BY <1>3, <2>3, <2>4, RousedKeeps DEF killPost
<1> QED
  BY <1>2, <1>3

(* signal(SIGCLD).                                                         *)
LEMMA SignalReports ==
  ASSUME IInv, TInv, NEW p \in Proc, NEW disp \in MaySet(p), signal(p, disp)
  PROVE  TInv'
<1>1. /\ p_stat[p] = "SRUN" /\ call' = call
      /\ p_sig \in [Proc -> SUBSET Pending] /\ call \in [Proc -> CallType]
  BY DEF signal, Calls, Running, IInv, Typed, Tables, Table
<1>2. CASE disp = "SIG_IGN"
  <2>1. Zombies(p) \in SUBSET Proc /\ \A q \in Zombies(p) : p_parent[q] = p
    BY DEF Zombies, IInv, Chains, Alive
  <2> QED
    BY <1>1, <1>2, <2>1, FreedReports DEF signal
<1>3. CASE disp # "SIG_IGN"
  <2>1. /\ UNCHANGED <<p_stat, p_wchan, p_wcode, chain>>
        /\ \/ p_sig' = p_sig
           \/ p_sig' = [p_sig EXCEPT ![p] = IF Zombies(p) = {} THEN @ ELSE @ \cup {"SIGCLD"}]
    BY <1>3, SigCldAssumption DEF signal, MaySet
  <2>2. /\ p_sig' \in [Proc -> SUBSET Pending]
        /\ \A q \in Proc : "SIGKILL" \in p_sig'[q] => "SIGKILL" \in p_sig[q]
    BY <1>1, <2>1 DEF Pending
  <2> QED
    BY <1>1, <2>1, <2>2, CalmReports
<1> QED
  BY <1>2, <1>3

(* exit() begins.                                                          *)
LEMMA ExitReports ==
  ASSUME IInv, TInv, NEW p \in Proc, exit(p)
  PROVE  TInv'
<1>1. p_sig \in [Proc -> SUBSET Pending] /\ call \in [Proc -> CallType]
  BY DEF IInv, Typed, Tables, Table
<1>2. \A q \in Proc : call'[q] = call[q] \/ p_stat[q] # "SSLEEP"
  BY <1>1 DEF exit, Calls, Running
<1> QED
  BY <1>1, <1>2, CalmReports DEF exit

(* fork(): the child is not seen by anybody who sleeps.                    *)
LEMMA ForkReports ==
  ASSUME IInv, TInv, NEW p \in Proc, NEW c \in Proc, fork(p, c)
  PROVE  TInv'
<1>1. /\ p_stat \in [Proc -> Stat] /\ call \in [Proc -> CallType]
      /\ p_child \in [Proc -> SUBSET Proc] /\ Report(Table)
  BY DEF IInv, Typed, Tables, Table, TInv
<1>2. /\ p_stat[p] = "SRUN" /\ p_stat[c] = "free" /\ UNCHANGED <<p_wchan, p_wcode, p_sig>>
      /\ p_stat' = [p_stat EXCEPT ![c] = "SIDL"]
      /\ p_child' = [p_child EXCEPT ![p] = @ \cup {c}]
      /\ call' = [call EXCEPT ![p] = [op |-> "fork", child |-> c]]
  BY DEF fork, Calls, Running
<1>3. \A q \in Proc : p_stat'[q] = IF q = c THEN "SIDL" ELSE p_stat[q]
  BY <1>1, <1>2
<1>4. Report(Table')
  <2>1. ReportTrue
    BY <1>1, ReportIs
  <2>2. ReportTrue'
    BY <1>2, <1>3, <2>1 DEF ReportTrue
  <2> QED
    BY <2>2, ReportIs
<1>5. \A q \in Proc : p_stat'[q] = "SSLEEP" =>
        /\ p_stat[q] = "SSLEEP" /\ p_wchan'[q] = p_wchan[q] /\ call'[q] = call[q]
        /\ p_child'[q] = p_child[q]
  BY <1>1, <1>2, <1>3
<1>6. WaitInv'
  BY <1>2, <1>5, SleepersKept, {} \in SUBSET Proc DEF TInv
<1> QED
  BY <1>4, <1>6 DEF TInv

(* The end of fork().                                                      *)
LEMMA ForkEndReports ==
  ASSUME IInv, TInv, NEW p \in Proc, forkDone(p) \/ forkFail(p)
  PROVE  TInv'
<1> DEFINE c == call[p].child
<1>1. /\ p_stat \in [Proc -> Stat] /\ call \in [Proc -> CallType] /\ Report(Table)
  BY DEF IInv, Typed, Tables, Table, TInv
<1>2. p_stat[p] = "SRUN" /\ call[p].op = "fork" /\ call' = [call EXCEPT ![p] = User]
  BY DEF forkDone, forkFail, Running
<1>3. c \in Proc /\ p_stat[c] = "SIDL" /\ p_parent[c] = p
  BY <1>1, <1>2 DEF CallType, Waits, IInv, InCall
<1>4. \A q \in Proc : call'[q] = call[q] \/ p_stat[q] # "SSLEEP"
  BY <1>1, <1>2
<1>5. CASE forkFail(p)
  BY <1>2, <1>3, <1>4, <1>5, FreedReports DEF forkFail
<1>6. CASE forkDone(p)
  <2>1. /\ p_stat' = [p_stat EXCEPT ![c] = "SRUN"] /\ UNCHANGED <<p_wchan, p_wcode, p_sig, chain>>
    BY <1>6 DEF forkDone
  <2> HIDE DEF c
  <2>2. \A q \in Proc : p_stat'[q] = IF q = c THEN "SRUN" ELSE p_stat[q]
    BY <1>1, <2>1
  <2>3. Report(Table')
    <3>1. ReportTrue
      BY <1>1, ReportIs
    <3>2. ReportTrue'
      BY <1>3, <2>1, <2>2, <3>1 DEF ReportTrue
    <3> QED
      BY <3>2, ReportIs
  <2>4. Table' \in Tables
    BY <1>3, <2>1 DEF Table, IInv, Typed, Tables, Stat
  <2>5. Rouses(Table, Table')
    <3>1. \A q \in Proc : p_stat'[q] = "SSLEEP" => p_stat[q] = "SSLEEP"
      BY <2>2
    <3> QED
      BY <2>1, <2>3, <2>4, <3>1, Fields DEF Rouses
  <2> QED
    BY <1>4, <2>1, <2>5, RousedKeeps
<1> QED
  BY <1>5, <1>6

(* exit() hands the children over: init is awakened if it should know.     *)
LEMMA ReleaseReports ==
  ASSUME IInv, TInv, NEW p \in Proc, release(p)
  PROVE  TInv'
<1> USE InitAssumption
<1> DEFINE told == {q \in p_child[p] : p_wcode[q] # "0"}
           chans == told \cup (IF told = {} THEN {} ELSE {init})
           u == wakeprocs(Table, chans)
<1>1. /\ Table \in Tables /\ Report(Table) /\ call \in [Proc -> CallType]
      /\ p_child \in [Proc -> SUBSET Proc]
  BY DEF IInv, Typed, TInv, Tables, Table
<1>2. /\ p_stat[p] = "SRUN" /\ p # init
      /\ p_child' = [p_child EXCEPT ![init] = @ \cup p_child[p], ![p] = {}]
      /\ call' = [call EXCEPT ![p] = [op |-> "dying"]]
  BY DEF release, Running, IInv, InitLives
<1>3. Becomes(u) \/ Becomes(sigtoproc(u, init, "SIGCLD"))
  BY Fields DEF release, Inherits
<1>4. Rouses(Table, u) /\ Empty(u, chans)
  BY <1>1, WakeRouses
<1>5. \A c \in told : {c, init} \subseteq chans
  OBVIOUS
<1> HIDE DEF u, chans
<1>6. Rouses(Table, Table') /\ Empty(Table', chans)
  <2>1. u \in Tables /\ Report(u)
    BY <1>4 DEF Rouses
  <2>2. Rouses(u, sigtoproc(u, init, "SIGCLD"))
    BY <2>1, SigtoprocRouses
  <2>3. /\ Rouses(Table, sigtoproc(u, init, "SIGCLD"))
        /\ Empty(sigtoproc(u, init, "SIGCLD"), chans)
    BY <1>4, <2>2, RousesTwice, EmptyKept
  <2>4. Table' = u \/ Table' = sigtoproc(u, init, "SIGCLD")
    BY <1>3, <2>1, <2>2, BecomesTable DEF Rouses
  <2> QED
    BY <1>4, <2>3, <2>4
<1>7. \A q \in Proc :
        /\ p_stat'[q] = "SSLEEP" => /\ p_stat[q] = "SSLEEP" /\ p_wchan'[q] = p_wchan[q]
                                    /\ p_wchan'[q] \notin chans
        /\ p_wcode'[q] \in {p_wcode[q], "0"}
  BY <1>6, Fields DEF Rouses, Empty
<1>8. ASSUME NEW q \in Proc, p_stat'[q] = "SSLEEP"
      PROVE  /\ p_stat[q] = "SSLEEP" /\ p_wchan'[q] = p_wchan[q] /\ call'[q] = call[q]
             /\ p_child[q] \subseteq p_child'[q]
             /\ \A c \in p_child'[q] \ p_child[q] :
                  c \in Proc /\ (p_wchan[q] \in {c, q} => p_wcode'[c] = "0")
  <2>1. q # p /\ p_stat[q] = "SSLEEP" /\ p_wchan'[q] = p_wchan[q] /\ call'[q] = call[q]
    BY <1>1, <1>2, <1>7, <1>8
  <2>2. p_child'[q] = IF q = init THEN p_child[q] \cup p_child[p] ELSE p_child[q]
    BY <1>1, <1>2, <2>1
  <2>3. ASSUME NEW c \in p_child'[q] \ p_child[q], p_wchan[q] \in {c, q}
        PROVE  p_wcode'[c] = "0"
    <3>1. q = init /\ c \in p_child[p] /\ c \in Proc
      BY <1>1, <2>2
    <3>2. c \notin told
      BY <1>5, <1>7, <1>8, <2>1, <2>3, <3>1
    <3> QED
      BY <1>7, <3>1, <3>2
  <2>4. \A c \in p_child'[q] \ p_child[q] : c \in Proc
    BY <1>1, <2>2
  <2> QED
    BY <2>1, <2>2, <2>3, <2>4
<1>9. WaitInv'
  BY <1>7, <1>8, SleepersKept, {} \in SUBSET Proc DEF TInv
<1> QED
  BY <1>6, <1>9 DEF TInv, Rouses

(* The zombie is reported, to a parent that may not keep it.               *)
LEMMA ZombieReports ==
  ASSUME IInv, TInv, NEW p \in Proc, zombie(p)
  PROVE  TInv'
<1> DEFINE z == [Table EXCEPT !.stat[p] = "SZOMB", !.wcode[p] = "CLD_EXITED"]
           t == sigcld(z, p, p_parent[p])
<1>1. /\ Table \in Tables /\ Report(Table) /\ call \in [Proc -> CallType]
      /\ p_stat \in [Proc -> Stat] /\ p_wcode \in [Proc -> Code]
  BY DEF IInv, Typed, TInv, Tables, Table
<1>2. /\ p_stat[p] = "SRUN" /\ p # init /\ call' = [call EXCEPT ![p] = User]
  BY DEF zombie, Running, IInv, InitLives
<1>3. p_parent[p] \in Proc
  BY <1>2 DEF IInv, Kin, Settled
<1>4. /\ z \in Tables /\ z.sig = p_sig /\ z.wchan = p_wchan
      /\ z.stat = [p_stat EXCEPT ![p] = "SZOMB"]
      /\ z.wcode = [p_wcode EXCEPT ![p] = "CLD_EXITED"]
  BY <1>1 DEF Tables, Stat, Code, Table
<1>5. \/ Becomes(Vacated(t, {p})) /\ Unchained({p})
      \/ Becomes(t) /\ UNCHANGED chain
  BY DEF zombie
<1> HIDE DEF z
<1>6. \A q \in Proc : /\ z.stat[q] = IF q = p THEN "SZOMB" ELSE p_stat[q]
                      /\ z.wcode[q] = IF q = p THEN "CLD_EXITED" ELSE p_wcode[q]
  BY <1>1, <1>4
<1>7. Report(z)
  BY <1>1, <1>4, <1>6, Fields DEF Report
<1>8. Rouses(z, t) /\ Empty(t, {p, p_parent[p]})
  BY <1>3, <1>4, <1>6, <1>7, SigcldRouses
<1> HIDE DEF t
<1>9. \A q \in Proc : call'[q] = call[q] \/ p_stat[q] # "SSLEEP"
  BY <1>1, <1>2
<1>10. \A q \in Proc : /\ z.stat[q] = "SSLEEP" => p_stat[q] = "SSLEEP" /\ z.wchan[q] = p_wchan[q]
                       /\ q # p => z.wcode[q] = p_wcode[q]
  BY <1>4, <1>6
<1>11. CASE Becomes(t) /\ UNCHANGED chain
  <2>1. Table' = t
    BY <1>8, <1>11, BecomesTable DEF Rouses
  <2> QED
    BY <1>8, <1>9, <1>10, <1>11, <2>1, ToldKeeps
<1>12. CASE Becomes(Vacated(t, {p})) /\ Unchained({p})
  <2>1. Rouses(t, Vacated(t, {p}))
    BY <1>8, VacatedRouses DEF Rouses
  <2>2. Table' = Vacated(t, {p})
    BY <1>12, <2>1, BecomesTable DEF Rouses
  <2>3. Rouses(z, Table') /\ Empty(Table', {p, p_parent[p]})
    BY <1>8, <2>1, <2>2, RousesTwice, EmptyKept
  <2>4. \A q \in Proc :
          /\ p_stat'[q] = "SSLEEP" => p_stat[q] = "SSLEEP" /\ p_wchan'[q] = p_wchan[q]
          /\ q # p => p_wcode'[q] \in {p_wcode[q], "0"}
    BY <1>10, <2>3, Fields DEF Rouses
  <2>5. Alerted(p)
    BY <2>3, Fields DEF Alerted, Empty
  <2>6. \A q \in Proc : p_child'[q] = p_child[q] \ {p}
    BY <1>12 DEF Unchained
  <2>7. WaitInv'
    BY <1>9, <2>4, <2>5, <2>6, SleepersKept, {p} \in SUBSET Proc DEF TInv
  <2> QED
    BY <2>3, <2>7 DEF TInv, Rouses
<1> QED
  BY <1>5, <1>11, <1>12

-----------------------------------------------------------------------------
(* Nobody sleeps, and nothing is reported, to begin with.                  *)
THEOREM InitTInv == Init => TInv
<1> SUFFICES ASSUME Init PROVE TInv
  OBVIOUS
<1>1. ReportTrue
  BY DEF Init, ReportTrue
<1>2. WaitInv
  BY DEF Init, WaitInv
<1> QED
  BY <1>1, <1>2, InitIInv, ReportIs DEF TInv

(* Every step reports what is so, and wakes those it is for.               *)
THEOREM NextTInv == IInv /\ TInv /\ [Next]_vars => TInv'
<1> SUFFICES ASSUME IInv, TInv, [Next]_vars PROVE TInv'
  OBVIOUS
<1>1. CASE UNCHANGED vars
  <2>1. p_sig \in [Proc -> SUBSET Pending]
    BY DEF IInv, Typed, Tables, Table
  <2> QED
    BY <1>1, <2>1, CalmReports DEF vars
<1>2. CASE Next
  <2>1. PICK p \in Proc : Kernel(p) \/ Program(p)
    BY <1>2 DEF Next
  <2>2. CASE Kernel(p)
    BY <2>2, ResumeReports, PsigReports, WaitReports, ForkEndReports, KillReports,
       ReleaseReports, ZombieReports DEF Kernel
  <2>3. CASE Program(p)
    BY <2>3, WaitReports, ForkReports, KillReports, SignalReports, ExitReports
       DEF Program, Sent
  <2> QED
    BY <2>1, <2>2, <2>3
<1> QED
  BY <1>1, <1>2

(* For every process table: only zombies are reported as exited, whoever   *)
(* is reported as stopped is stopped, and no SIGKILL is left pending for a *)
(* process that is stopped (stop(), setrun(), sigtoproc() and exit()).     *)
THEOREM ReportsTrue == Spec => []ReportTrue
<1>1. IInv /\ TInv => ReportTrue
  BY ReportIs DEF TInv
<1> QED
  BY <1>1, InitIInv, NextIInv, InitTInv, NextTInv, PTL DEF Spec

(* For every process table: no wakeup is lost; whoever sleeps in waitid()  *)
(* has a child to wait for, and none of them has anything to report        *)
(* (sigcld() from stop(), isjobstop() and exit(), and freeproc()).         *)
THEOREM NoWakeupLost == Spec => []WaiterBlocked
<1>1. IInv /\ TInv => WaiterBlocked
  BY DEF TInv, WaitInv, Blocked, WaiterBlocked
<1> QED
  BY <1>1, InitIInv, NextIInv, InitTInv, NextTInv, PTL DEF Spec
=============================================================================
