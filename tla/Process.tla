------------------------------ MODULE Process ------------------------------
(***************************************************************************)
(* The life of processes: fork() (os/fork.c), exit(), waitid() and the     *)
(* fate of the children of a process that exits (os/exit.c), with the      *)
(* signals (os/sig.c) and the sleep queues (os/slp.c) they rest on: a      *)
(* process in waitid() sleeps interruptibly, may be stopped while it is on *)
(* a sleep queue, and is awakened by children that exit, stop or go on.    *)
(*                                                                         *)
(* The kernel is not preempted, so what a process does between two points  *)
(* where it may sleep is one action.  The signals are SIGKILL, SIGSTOP and *)
(* SIGCONT with their defaults, and SIGCLD, ignored, caught or given       *)
(* SIG_IGN.  Process groups, ptrace, /proc and vfork are left out; the     *)
(* queue of siginfo structures goes along with p_sig; and sigcld() finds   *)
(* memory for its siginfo without sleeping.                                *)
(*                                                                         *)
(* Processes run any program; init runs cmd/init/init.c, as far as it is   *)
(* about its children: it catches SIGCLD with childeath(), which waits for *)
(* one child and catches SIGCLD again, and it turns SIGCLD off at times.   *)
(***************************************************************************)
EXTENDS Integers, FiniteSets

CONSTANTS
  Proc,      \* the slots of the process table
  init,      \* the process proc_init
  None,      \* no process, no channel
  MaxFork,   \* bound: how many times fork() is called
  MaxKill,   \* bound: how many times kill() is called
  WaitArgs,  \* what waitid() may be asked: a child or None for any, and whether
             \* children that stop or continue are reported too
  SigCld     \* what signal(SIGCLD) may be set to: "SIG_DFL", "SIG_IGN", "catch"

ASSUME InitAssumption == init \in Proc /\ None \notin Proc
ASSUME BoundAssumption == MaxFork \in Nat /\ MaxKill \in Nat
ASSUME WaitAssumption == WaitArgs \subseteq (Proc \cup {None}) \X BOOLEAN
ASSUME SigCldAssumption == SigCld \subseteq {"SIG_DFL", "SIG_IGN", "catch"}

VARIABLES
  p_stat,       \* p_stat[p]: "free", SIDL, SRUN (and SONPROC), SSLEEP, SSTOP, SZOMB
  p_wchan,      \* p_wchan[p]: the sleep queue p is on, or None
  p_wcode,      \* p_wcode[p]: what wait() should report of p, or 0
  p_sig,        \* p_sig[p]: signals posted to p
  p_parent,     \* p_parent[p]
  p_child,      \* p_child[p]: the processes on the p_sibling chain of p
  p_nextofkin,  \* p_nextofkin[p]: who inherits the times of p
  p_orphan,     \* p_orphan[p]: the processes on the p_nextorph chain of p
  u_sigcld,     \* u_sigcld[p]: what p does with SIGCLD (SIG_IGN sets SNOWAIT)
  call,         \* call[p]: what p is in the middle of
  instop,       \* instop[p]: p is in isjobstop(), stopped or just continued
  forks,        \* calls of fork() so far
  kills         \* calls of kill() so far

chain == <<p_parent, p_child, p_nextofkin, p_orphan>>
vars == <<p_stat, p_wchan, p_wcode, p_sig, chain, u_sigcld, call, instop, forks, kills>>

User == [op |-> "user"]

Alive == {p \in Proc : p_stat[p] # "free"}
Running(p, op) == p_stat[p] = "SRUN" /\ ~instop[p] /\ call[p].op = op
Exiting(p) == call[p].op \in {"exit", "dying"} \/ p_stat[p] \in {"SZOMB", "free"}

Init ==
  /\ p_stat = [p \in Proc |-> IF p = init THEN "SRUN" ELSE "free"]
  /\ p_wchan = [p \in Proc |-> None]
  /\ p_wcode = [p \in Proc |-> "0"]
  /\ p_sig = [p \in Proc |-> {}]
  /\ p_parent = [p \in Proc |-> None]
  /\ p_child = [p \in Proc |-> {}]
  /\ p_nextofkin = [p \in Proc |-> None]
  /\ p_orphan = [p \in Proc |-> {}]
  /\ u_sigcld = [p \in Proc |-> "SIG_DFL"]
  /\ call = [p \in Proc |-> User]
  /\ instop = [p \in Proc |-> FALSE]
  /\ forks = 0
  /\ kills = 0

-----------------------------------------------------------------------------
(* Sleep queues.  The operators take the process table of the moment, a    *)
(* record of what signals and wakeups change, and return the next one.     *)

Table == [stat |-> p_stat, wchan |-> p_wchan, wcode |-> p_wcode, sig |-> p_sig]

Becomes(t) ==
  \E u \in {t} :
    p_stat' = u.stat /\ p_wchan' = u.wchan /\ p_wcode' = u.wcode /\ p_sig' = u.sig

(* wakeprocs(): off the sleep queue, and runnable unless stopped.          *)
wakeprocs(t, chans) ==
  [t EXCEPT
     !.stat = [p \in Proc |-> IF t.wchan[p] \in chans /\ t.stat[p] = "SSLEEP"
                              THEN "SRUN" ELSE t.stat[p]],
     !.wchan = [p \in Proc |-> IF t.wchan[p] \in chans THEN None ELSE t.wchan[p]]]

unsleep(t, p) == [t EXCEPT !.wchan[p] = None]

\* Mutant: the report of a stop outlives the stop.
setrunReported(t, p) == [unsleep(t, p) EXCEPT !.stat[p] = "SRUN"]

(* A process that is no longer stopped has nothing for wait() to report.   *)
setrun(t, p) ==
  [unsleep(t, p) EXCEPT
     !.stat[p] = "SRUN",
     !.wcode[p] = IF t.stat[p] = "SSTOP" THEN "0" ELSE @]

(* Who ignores what: everything once in exit(); SIGCONT by default; SIGCLD *)
(* unless it is caught.                                                    *)
Ignores(p, s) ==
  Exiting(p) \/ s = "SIGCONT" \/ (s = "SIGCLD" /\ u_sigcld[p] # "catch")

(* sigtoproc(): post the signal s to p.                                    *)
Continued(t, p) ==
  LET u == [t EXCEPT !.sig[p] = @ \ {"SIGSTOP"}] IN
  IF t.stat[p] = "SSTOP" THEN setrun(u, p) ELSE u

\* Mutant: a stopped process is taken off its queue, but SIGKILL does not run it.
NoticedLate(t, p, s) ==
  CASE t.stat[p] = "SSLEEP" -> setrun(t, p)
    [] t.stat[p] = "SSTOP" -> unsleep(t, p)
    [] OTHER -> t

Noticed(t, p, s) ==
  CASE t.stat[p] = "SSLEEP" -> setrun(t, p)
    [] t.stat[p] = "SSTOP" /\ s = "SIGKILL" -> setrun(t, p)
    [] t.stat[p] = "SSTOP" /\ s # "SIGKILL" -> unsleep(t, p)
    [] OTHER -> t

sigtoproc(t, p, s) ==
  LET u == IF s = "SIGCONT" THEN Continued(t, p) ELSE t IN
  IF Ignores(p, s) THEN u ELSE Noticed([u EXCEPT !.sig[p] = @ \cup {s}], p, s)

\* Mutant: only a parent that waits for this child is awakened.
sigcldPid(t, c, parent) ==
  CASE t.wcode[c] = "0" -> t
    [] t.wcode[c] \in {"CLD_STOPPED", "CLD_CONTINUED"} -> wakeprocs(t, {c, parent})
    [] t.wcode[c] = "CLD_EXITED" -> sigtoproc(wakeprocs(t, {c}), parent, "SIGCLD")

(* sigcld(): the parent of c, if it waits, is awakened because of c's      *)
(* p_wcode, and gets SIGCLD if c has exited.                               *)
sigcld(t, c, parent) ==
  CASE t.wcode[c] = "0" -> t
    [] t.wcode[c] \in {"CLD_STOPPED", "CLD_CONTINUED"} -> wakeprocs(t, {c, parent})
    [] t.wcode[c] = "CLD_EXITED" -> sigtoproc(wakeprocs(t, {c, parent}), parent, "SIGCLD")

-----------------------------------------------------------------------------
(* Signals, on the side of the process that gets them.                     *)

(* isjobstop() and stop(): p takes SIGSTOP and stops.  It may do so while  *)
(* on a sleep queue, but not with a SIGKILL pending.                       *)
Stopped(t, p) ==
  sigcld([t EXCEPT !.sig[p] = @ \ {"SIGSTOP"}, !.stat[p] = "SSTOP",
                   !.wcode[p] = "CLD_STOPPED"], p, p_parent[p])

stop(t, p) ==
  /\ p_sig[p] = {"SIGSTOP"}
  /\ Becomes(Stopped(t, p))
  /\ instop' = [instop EXCEPT ![p] = TRUE]

(* The rest of isjobstop(), once the process runs again.                   *)
resume(p) ==
  /\ p_stat[p] = "SRUN" /\ instop[p]
  /\ instop' = [instop EXCEPT ![p] = FALSE]
  /\ Becomes(sigcld([Table EXCEPT !.wcode[p] = "CLD_CONTINUED"], p, p_parent[p]))
  /\ UNCHANGED <<chain, u_sigcld, call, forks, kills>>

Signalled(p) == p_sig[p] \cap {"SIGKILL", "SIGCLD"} # {}

(* On the way back to user mode: exit for SIGKILL, which goes before any   *)
(* other signal; the handler of SIGCLD, which signal() has installed for   *)
(* one signal; or a stop.                                                  *)
psig(p) ==
  /\ Running(p, "user") /\ p_sig[p] # {}
  /\ \/ /\ "SIGKILL" \in p_sig[p]
        /\ p_sig' = [p_sig EXCEPT ![p] = {}]
        /\ call' = [call EXCEPT ![p] = [op |-> "exit"]]
        /\ UNCHANGED <<p_stat, p_wchan, p_wcode, instop, u_sigcld>>
     \/ /\ "SIGKILL" \notin p_sig[p] /\ "SIGCLD" \in p_sig[p]
        /\ p_sig' = [p_sig EXCEPT ![p] = @ \ {"SIGCLD"}]
        /\ u_sigcld' = [u_sigcld EXCEPT ![p] = "SIG_DFL"]
        /\ call' = [call EXCEPT ![p] = IF p = init THEN [op |-> "childeath"] ELSE @]
        /\ UNCHANGED <<p_stat, p_wchan, p_wcode, instop>>
     \/ stop(Table, p) /\ UNCHANGED <<call, u_sigcld>>
  /\ UNCHANGED <<chain, forks, kills>>

-----------------------------------------------------------------------------
(* waitid().                                                               *)

(* freeproc(): take the slots in C off the chains and give them back.      *)
Vacated(t, C) ==
  [t EXCEPT !.stat = [p \in Proc |-> IF p \in C THEN "free" ELSE t.stat[p]],
            !.wcode = [p \in Proc |-> IF p \in C THEN "0" ELSE t.wcode[p]],
            !.sig = [p \in Proc |-> IF p \in C THEN {} ELSE t.sig[p]]]

\* Mutant: the orphan chain searched is that of the parent.
UnchainedParent(C) ==
  /\ p_child' = [p \in Proc |-> p_child[p] \ C]
  /\ p_orphan' = [p \in Proc |-> p_orphan[p] \ {c \in C : p_parent[c] = p}]
  /\ p_parent' = [p \in Proc |-> IF p \in C THEN None ELSE p_parent[p]]
  /\ p_nextofkin' = [p \in Proc |-> IF p \in C THEN None ELSE p_nextofkin[p]]

Unchained(C) ==
  /\ p_child' = [p \in Proc |-> p_child[p] \ C]
  /\ p_orphan' = [p \in Proc |-> p_orphan[p] \ C]
  /\ p_parent' = [p \in Proc |-> IF p \in C THEN None ELSE p_parent[p]]
  /\ p_nextofkin' = [p \in Proc |-> IF p \in C THEN None ELSE p_nextofkin[p]]

(* P_PID names a child, P_ALL any; jobs is WSTOPPED and WCONTINUED.        *)
Wait(a) == [op |-> "waitid", id |-> a[1], jobs |-> a[2]]
AnyExited == Wait(<<None, FALSE>>)
Match(p, w) == {c \in p_child[p] : w.id \in {None, c}}
Reportable(p, w) ==
  {c \in Match(p, w) : p_wcode[c] = "CLD_EXITED" \/ (w.jobs /\ p_wcode[c] # "0")}

Reported(p, c) ==
  /\ IF p_wcode[c] = "CLD_EXITED"
     THEN Becomes(Vacated(Table, {c})) /\ Unchained({c})
     ELSE Becomes([Table EXCEPT !.wcode[c] = "0"]) /\ UNCHANGED chain
  /\ call' = [call EXCEPT ![p] = User]
  /\ UNCHANGED instop

Interrupted(p) ==   \* EINTR
  /\ call' = [call EXCEPT ![p] = User]
  /\ UNCHANGED <<p_stat, p_wchan, p_wcode, p_sig, chain, instop>>

(* The call sleeps on the child it is for, or on the address of p, after   *)
(* sleep() has looked for signals.                                         *)
Asleep(p, w) ==
  LET t == [Table EXCEPT !.wchan[p] = IF w.id = None THEN p ELSE w.id,
                         !.stat[p] = "SSLEEP"] IN
  \/ Signalled(p) /\ Interrupted(p)
  \/ stop(t, p) /\ call' = [call EXCEPT ![p] = w] /\ UNCHANGED chain
  \/ /\ p_sig[p] = {}
     /\ Becomes(t)
     /\ call' = [call EXCEPT ![p] = w]
     /\ UNCHANGED <<chain, instop>>

Scan(p, w) ==
  \/ \E c \in Reportable(p, w) : Reported(p, c)
  \/ Reportable(p, w) = {} /\ Match(p, w) # {} /\ Asleep(p, w)
  \/ Match(p, w) = {} /\ Interrupted(p)   \* ECHILD

(* An interrupt may post a signal after the call has begun.                *)
waitid(p, w) ==
  /\ Running(p, "user") /\ Match(p, w) # {}
  /\ Scan(p, w)
  /\ UNCHANGED <<u_sigcld, forks, kills>>

(* sleep() returns: a signal ends the call, or stops it once more; if not, *)
(* the children are looked at again.                                       *)
waitAgain(p) ==
  /\ Running(p, "waitid")
  /\ \/ Signalled(p) /\ Interrupted(p)
     \/ stop(Table, p) /\ UNCHANGED <<chain, call>>
     \/ p_sig[p] = {} /\ Scan(p, call[p])
  /\ UNCHANGED <<u_sigcld, forks, kills>>

(* The handler of init for SIGCLD waits for a child.                       *)
childeath(p) ==
  /\ Running(p, "childeath")
  /\ Scan(p, AnyExited)
  /\ UNCHANGED <<u_sigcld, forks, kills>>

-----------------------------------------------------------------------------
(* fork().  newproc() links the child in and sleeps while procdup() copies *)
(* the address space, which may fail for lack of memory.                   *)

(* A call other than waitid() has no signals to look at.                   *)
Calls(p) == Running(p, "user") /\ p_sig[p] = {}

fork(p, c) ==
  /\ Calls(p) /\ p_stat[c] = "free" /\ forks < MaxFork
  /\ forks' = forks + 1
  /\ p_stat' = [p_stat EXCEPT ![c] = "SIDL"]
  /\ u_sigcld' = [u_sigcld EXCEPT ![c] = u_sigcld[p]]
  /\ p_parent' = [p_parent EXCEPT ![c] = p]
  /\ p_child' = [p_child EXCEPT ![p] = @ \cup {c}]
  /\ p_nextofkin' = [p_nextofkin EXCEPT ![c] = p]
  /\ p_orphan' = [p_orphan EXCEPT ![p] = @ \cup {c}]
  /\ call' = [call EXCEPT ![p] = [op |-> "fork", child |-> c]]
  /\ UNCHANGED <<p_wchan, p_wcode, p_sig, instop, kills>>

forkDone(p) ==
  /\ Running(p, "fork")
  /\ p_stat' = [p_stat EXCEPT ![call[p].child] = "SRUN"]
  /\ call' = [call EXCEPT ![p] = User]
  /\ UNCHANGED <<p_wchan, p_wcode, p_sig, chain, u_sigcld, instop, forks, kills>>

forkFail(p) ==
  /\ Running(p, "fork")
  /\ Becomes(Vacated(Table, {call[p].child})) /\ Unchained({call[p].child})
  /\ call' = [call EXCEPT ![p] = User]
  /\ UNCHANGED <<u_sigcld, instop, forks, kills>>

-----------------------------------------------------------------------------
(* kill() of a process.  sigaddq() may sleep for memory, unless the signal *)
(* is ignored; whoever has the slot then is sent the signal.               *)
kill(p, q, s) ==
  /\ Calls(p) /\ kills < MaxKill
  /\ kills' = kills + 1
  /\ p_stat[q] \notin {"free", "SIDL", "SZOMB"}
  /\ q = init => s = "SIGCONT"                       \* EPERM
  /\ IF Ignores(q, s)
     THEN Becomes(sigtoproc(Table, q, s)) /\ UNCHANGED call
     ELSE /\ call' = [call EXCEPT ![p] = [op |-> "kill", to |-> q, sig |-> s]]
          /\ UNCHANGED <<p_stat, p_wchan, p_wcode, p_sig>>
  /\ UNCHANGED <<chain, u_sigcld, instop, forks>>

killPost(p) ==
  /\ Running(p, "kill")
  /\ Becomes(sigtoproc(Table, call[p].to, call[p].sig))
  /\ call' = [call EXCEPT ![p] = User]
  /\ UNCHANGED <<chain, u_sigcld, instop, forks, kills>>

-----------------------------------------------------------------------------
(* signal(SIGCLD): to ignore it is to have no zombies, so those there are  *)
(* go; to catch it is to be told of them.                                  *)
Zombies(p) == {c \in p_child[p] : p_stat[c] = "SZOMB"}

\* Mutant: only children that exit later are told of.
signalLater(p, disp) ==
  /\ Calls(p)
  /\ u_sigcld' = [u_sigcld EXCEPT ![p] = disp]
  /\ IF disp = "SIG_IGN"
     THEN Becomes(Vacated(Table, Zombies(p))) /\ Unchained(Zombies(p))
     ELSE UNCHANGED <<p_stat, p_wchan, p_wcode, p_sig, chain>>
  /\ UNCHANGED <<call, instop, forks, kills>>

signal(p, disp) ==
  /\ Calls(p)
  /\ u_sigcld' = [u_sigcld EXCEPT ![p] = disp]
  /\ CASE disp = "SIG_IGN" ->
            Becomes(Vacated(Table, Zombies(p))) /\ Unchained(Zombies(p))
       [] disp = "catch" ->
            /\ p_sig' = [p_sig EXCEPT ![p] = IF Zombies(p) = {} THEN @ ELSE @ \cup {"SIGCLD"}]
            /\ UNCHANGED <<p_stat, p_wchan, p_wcode, chain>>
       [] disp = "SIG_DFL" -> UNCHANGED <<p_stat, p_wchan, p_wcode, p_sig, chain>>
  /\ UNCHANGED <<call, instop, forks, kills>>

-----------------------------------------------------------------------------
(* exit(): signals are ignored from its first line on; the address space   *)
(* goes, during which others run; then the family is handed over, and a    *)
(* zombie is left once the last files have been given back.                *)
exit(p) ==
  /\ Calls(p) /\ p # init
  /\ call' = [call EXCEPT ![p] = [op |-> "exit"]]
  /\ UNCHANGED <<p_stat, p_wchan, p_wcode, p_sig, chain, u_sigcld, instop, forks, kills>>

(* sigcld() for the children C, handed to init, that have something to     *)
(* report: init is awakened, and gets SIGCLD if one of them is a zombie.   *)
Inherits(t, C) ==
  LET told == {q \in C : t.wcode[q] # "0"}
      u == wakeprocs(t, told \cup (IF told = {} THEN {} ELSE {init}))
  IN  IF \E q \in C : t.wcode[q] = "CLD_EXITED" THEN sigtoproc(u, init, "SIGCLD") ELSE u

(* Orphans go to the next of kin, children to init.                        *)
release(p) ==
  /\ Running(p, "exit")
  /\ p_nextofkin' = [q \in Proc |-> IF q \in p_orphan[p] THEN p_nextofkin[p]
                                     ELSE p_nextofkin[q]]
  /\ p_orphan' = [p_orphan EXCEPT ![p_nextofkin[p]] = @ \cup p_orphan[p], ![p] = {}]
  /\ p_parent' = [q \in Proc |-> IF q \in p_child[p] THEN init ELSE p_parent[q]]
  /\ p_child' = [p_child EXCEPT ![init] = @ \cup p_child[p], ![p] = {}]
  /\ Becomes(Inherits(Table, p_child[p]))
  /\ call' = [call EXCEPT ![p] = [op |-> "dying"]]
  /\ UNCHANGED <<u_sigcld, instop, forks, kills>>

(* The parent is told; if it keeps no zombies (SNOWAIT), the slot goes as  *)
(* soon as another process has been switched to.                           *)
zombie(p) ==
  LET pp == p_parent[p]
      t == sigcld([Table EXCEPT !.stat[p] = "SZOMB", !.wcode[p] = "CLD_EXITED"], p, pp) IN
  /\ Running(p, "dying")
  /\ IF u_sigcld[pp] = "SIG_IGN"
     THEN Becomes(Vacated(t, {p})) /\ Unchained({p})
     ELSE Becomes(t) /\ UNCHANGED chain
  /\ call' = [call EXCEPT ![p] = User]
  /\ u_sigcld' = [u_sigcld EXCEPT ![p] = "SIG_DFL"]
  /\ UNCHANGED <<instop, forks, kills>>

-----------------------------------------------------------------------------
Kernel(p) ==     \* what is under way and goes on by itself
  \/ resume(p) \/ psig(p) \/ waitAgain(p) \/ childeath(p) \/ forkDone(p) \/ forkFail(p)
  \/ killPost(p) \/ release(p) \/ zombie(p)

(* init turns SIGCLD off, to fork or to look at its tables, and on again,  *)
(* at the end of childeath() too.                                          *)
MaySet(p) == IF p = init THEN {"catch", "SIG_DFL"} ELSE SigCld

Program(p) ==    \* what the program of p may call
  \/ p # init /\ \E a \in WaitArgs : waitid(p, Wait(a))
  \/ (p = init => u_sigcld[p] = "SIG_DFL") /\ \E c \in Proc : fork(p, c)
  \/ \E q \in Proc, s \in {"SIGKILL", "SIGSTOP", "SIGCONT"} : kill(p, q, s)
  \/ \E disp \in MaySet(p) : signal(p, disp)
  \/ exit(p)

Next == \E p \in Proc : Kernel(p) \/ Program(p)

Spec == Init /\ [][Next]_vars

(* The dispatcher runs every process that is runnable in the end, and init *)
(* always turns SIGCLD on again.                                           *)
FairSpec ==
  /\ Spec
  /\ \A p \in Proc : WF_vars(Kernel(p))
  /\ SF_vars(u_sigcld[init] # "catch" /\ signal(init, "catch"))

-----------------------------------------------------------------------------
(* The two pairs of chains (exit.c:236, 252, 552 and fork.c:271) are the   *)
(* inverse of p_parent and p_nextofkin, and nobody has a parent or a next  *)
(* of kin that has handed its family over already: whoever exits, in       *)
(* whatever order, no child is lost and no freed slot is left on a chain.  *)
Gone(p) == p_stat[p] \in {"free", "SZOMB"} \/ call[p].op = "dying"

FamilyOK ==
  \A p \in Proc :
    /\ p_child[p] = {q \in Alive : p_parent[q] = p}
    /\ p_orphan[p] = {q \in Alive : p_nextofkin[q] = p}
    /\ p \in Alive \ {init} => {p_parent[p], p_nextofkin[p]} \subseteq {q \in Proc : ~Gone(q)}

(* No wakeup is lost: a process that sleeps in waitid() has a child of the *)
(* kind it waits for, and none of them has anything to report, whether it  *)
(* was the child that changed, or the parent that was stopped or had a     *)
(* child handed to it meanwhile.                                           *)
WaiterBlocked ==
  \A p \in Proc : p_stat[p] = "SSLEEP" =>
    Match(p, call[p]) # {} /\ Reportable(p, call[p]) = {}

(* What wait() may say of a process is so: only zombies are reported as    *)
(* exited, and a process reported as stopped is stopped (setrun() takes    *)
(* the report back).  A stopped process has no SIGKILL pending.            *)
ReportTrue ==
  \A p \in Proc :
    /\ p_wcode[p] = "CLD_EXITED" <=> p_stat[p] = "SZOMB"
    /\ p_wcode[p] = "CLD_STOPPED" => p_stat[p] = "SSTOP"
    /\ p_stat[p] = "SSTOP" => "SIGKILL" \notin p_sig[p]

(* SIGKILL works on a process in whatever state it finds it: asleep in     *)
(* waitid(), stopped, stopped on a sleep queue, or about to continue.      *)
KillWorks == \A p \in Proc \ {init} : "SIGKILL" \in p_sig[p] ~> Exiting(p)

(* A zombie whose parent is init, by birth or because its parent exited    *)
(* before or after it, is reaped, although childeath() waits for one child *)
(* only, and init has SIGCLD off while others exit or are handed to it:    *)
(* ssig() posts SIGCLD again for those that are left.                      *)
InitReaps ==
  \A p \in Proc \ {init} : p_stat[p] = "SZOMB" /\ p_parent[p] = init ~> p_stat[p] = "free"
=============================================================================
