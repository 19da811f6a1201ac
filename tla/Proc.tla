-------------------------------- MODULE Proc --------------------------------
(***************************************************************************)
(* The process table of kernel/proc.c on several CPUs: fork, exit, wait,   *)
(* kill, sleep, wakeup, yield and the scheduler, at the granularity of     *)
(* their spinlocks.                                                        *)
(*                                                                         *)
(* Two kinds of threads run.  Every CPU has a scheduler thread (cpc), and  *)
(* every process has a kernel thread (pc).  The kernel thread of p runs on *)
(* CPU c while c's scheduler thread is inside swtch() with c->proc = p.    *)
(* A critical section that takes no further lock is one step, guarded by   *)
(* its lock being free; a lock that stays held across other lock           *)
(* operations, or across swtch(), is held explicitly, by a CPU as in       *)
(* struct spinlock.                                                        *)
(*                                                                         *)
(* SchedulerPick lets any RUNNABLE process be chosen, so that safety holds *)
(* for each of the four policies (DEFAULT, FCFS, PBS, MLFQ): all of them   *)
(* end in the same lock, recheck, RUNNING, swtch sequence.                 *)
(***************************************************************************)
EXTENDS Naturals, FiniteSets

CONSTANTS
  NPROC,      \* slots of proc[] (param.h)
  Cpus,       \* the harts
  NoCpu,      \* "lock is free"
  MaxPid      \* bound: the largest pid that allocpid() hands out

ASSUME ProcAssumption ==
  /\ NPROC \in Nat \ {0}
  /\ MaxPid \in Nat \ {0}
  /\ NoCpu \notin Cpus

Procs == 1..NPROC       \* proc[0] .. proc[NPROC-1]
NoProc == 0             \* the null pointer
initproc == 1           \* the first slot that allocproc() hands out

VARIABLES
  state, chan, killed, pid, parent,    \* fields of struct proc
  plock,      \* plock[p]: the CPU that holds p->lock
  wait_lock,  \* the CPU that holds wait_lock
  nextpid,
  cproc,      \* c->proc
  cpc,        \* where the scheduler thread of a CPU is
  pc,         \* where the kernel thread of a process is
  np,         \* its loop variable, or the child that fork() is building
  havekids,   \* the local of wait()
  yret        \* where yield() returns to

procVars == <<state, chan, killed, pid, parent>>
lockVars == <<plock, wait_lock>>
cpuVars == <<cproc, cpc>>
threadVars == <<pc, np, havekids, yret>>
vars == <<procVars, lockVars, nextpid, cpuVars, threadVars>>

(* enum procstate, proc.h:83 *)
States == {"UNUSED", "USED", "SLEEPING", "RUNNABLE", "RUNNING", "ZOMBIE"}

(* Points of the kernel thread at which it holds no spinlock, so that a     *)
(* timer interrupt may make it yield.                                       *)
Interruptible == {"user", "fork_parent", "fork_runnable", "sleep_relock"}

(* Points at which it holds p->lock. *)
HoldsProcLock ==
  {"forkret", "sleep_commit", "sched_sleep", "sleep_back", "sched_yield",
   "yield_back", "exit_release", "sched_exit", "zombie"}

(* Points at which it holds wait_lock. *)
HoldsWaitLock ==
  {"reparent", "wakeup_init", "wakeup_parent", "exit_zombie", "exit_release",
   "wait_scan", "sleep_acquire", "sleep_commit"}

Labels == {"unused"} \cup Interruptible \cup HoldsProcLock \cup HoldsWaitLock

(* userinit() has made slot 1 RUNNABLE and every CPU has entered            *)
(* scheduler().                                                             *)
Init ==
  /\ state = [p \in Procs |-> IF p = initproc THEN "RUNNABLE" ELSE "UNUSED"]
  /\ chan = [p \in Procs |-> NoProc]
  /\ killed = [p \in Procs |-> FALSE]
  /\ pid = [p \in Procs |-> IF p = initproc THEN 1 ELSE 0]
  /\ parent = [p \in Procs |-> NoProc]
  /\ plock = [p \in Procs |-> NoCpu]
  /\ wait_lock = NoCpu
  /\ nextpid = 2
  /\ cproc = [c \in Cpus |-> NoProc]
  /\ cpc = [c \in Cpus |-> "pick"]
  /\ pc = [p \in Procs |-> IF p = initproc THEN "forkret" ELSE "unused"]
  /\ np = [p \in Procs |-> 1]
  /\ havekids = [p \in Procs |-> FALSE]
  /\ yret = [p \in Procs |-> "user"]

-----------------------------------------------------------------------------
(* Helpers. *)

(* The kernel thread of p is executing on c: myproc() = p there. *)
Runs(c, p) == cpc[c] = "swtch" /\ cproc[c] = p

Goto(p, label) == pc' = [pc EXCEPT ![p] = label]

-----------------------------------------------------------------------------
(* The scheduler thread. *)

(* The chosen process is locked, found RUNNABLE, made RUNNING and switched  *)
(* to, with its lock still held.  (A choice that is no longer RUNNABLE is   *)
(* dropped without a change.)                                               *)
SchedulerPick(c, p) ==
  /\ cpc[c] = "pick"
  /\ plock[p] = NoCpu
  /\ state[p] = "RUNNABLE"
  /\ state' = [state EXCEPT ![p] = "RUNNING"]
  /\ plock' = [plock EXCEPT ![p] = c]
  /\ cproc' = [cproc EXCEPT ![c] = p]
  /\ cpc' = [cpc EXCEPT ![c] = "swtch"]
  /\ UNCHANGED <<chan, killed, pid, parent, wait_lock, nextpid, threadVars>>

(* Back from swtch(): c->proc = 0, release(&p->lock).                       *)
SchedulerBack(c) ==
  /\ cpc[c] = "back"
  /\ plock' = [plock EXCEPT ![cproc[c]] = NoCpu]
  /\ cproc' = [cproc EXCEPT ![c] = NoProc]
  /\ cpc' = [cpc EXCEPT ![c] = "pick"]
  /\ UNCHANGED <<procVars, wait_lock, nextpid, threadVars>>

(* sched(): the three callers have already changed p->state.  Where the     *)
(* thread will resume is the label it leaves behind.                        *)
sched(c, p) ==
  /\ Runs(c, p)
  /\ \/ pc[p] = "sched_sleep" /\ Goto(p, "sleep_back")
     \/ pc[p] = "sched_yield" /\ Goto(p, "yield_back")
     \/ pc[p] = "sched_exit" /\ Goto(p, "zombie")
  /\ cpc' = [cpc EXCEPT ![c] = "back"]
  /\ UNCHANGED <<procVars, lockVars, nextpid, cproc, np, havekids, yret>>

(* A new process starts in forkret(), which releases the lock that the      *)
(* scheduler took for it.                                                   *)
forkret(c, p) ==
  /\ Runs(c, p)
  /\ pc[p] = "forkret"
  /\ plock' = [plock EXCEPT ![p] = NoCpu]
  /\ Goto(p, "user")
  /\ UNCHANGED <<procVars, wait_lock, nextpid, cpuVars, np, havekids, yret>>

-----------------------------------------------------------------------------
(* yield(), from a timer interrupt in user or in kernel code. *)

(* Mutant: state changes before p->lock is taken. *)
Yield_NoLock(c, p) ==
  /\ Runs(c, p)
  /\ pc[p] \in Interruptible
  /\ state' = [state EXCEPT ![p] = "RUNNABLE"]
  /\ yret' = [yret EXCEPT ![p] = pc[p]]
  /\ Goto(p, "sched_yield")
  /\ UNCHANGED <<chan, killed, pid, parent, lockVars, nextpid, cpuVars, np, havekids>>

Yield(c, p) ==
  /\ Runs(c, p)
  /\ pc[p] \in Interruptible
  /\ plock[p] = NoCpu
  /\ plock' = [plock EXCEPT ![p] = c]
  /\ state' = [state EXCEPT ![p] = "RUNNABLE"]
  /\ yret' = [yret EXCEPT ![p] = pc[p]]
  /\ Goto(p, "sched_yield")
  /\ UNCHANGED <<chan, killed, pid, parent, wait_lock, nextpid, cpuVars, np, havekids>>

YieldBack(c, p) ==
  /\ Runs(c, p)
  /\ pc[p] = "yield_back"
  /\ plock' = [plock EXCEPT ![p] = NoCpu]
  /\ Goto(p, yret[p])
  /\ yret' = [yret EXCEPT ![p] = "user"]
  /\ UNCHANGED <<procVars, wait_lock, nextpid, cpuVars, np, havekids>>

-----------------------------------------------------------------------------
(* fork(): allocproc() and the copies under np->lock, the parent link under *)
(* wait_lock, the state change under np->lock again.                        *)

(* allocproc() finds an UNUSED slot and the copies succeed.  The flag       *)
(* `killed' is not among the fields that allocproc() initialises.           *)
ForkAlloc(c, p, n) ==
  /\ Runs(c, p)
  /\ pc[p] = "user"
  /\ ~killed[p]
  /\ plock[n] = NoCpu
  /\ state[n] = "UNUSED"
  /\ nextpid <= MaxPid
  /\ pid' = [pid EXCEPT ![n] = nextpid]
  /\ nextpid' = nextpid + 1
  /\ state' = [state EXCEPT ![n] = "USED"]
  /\ pc' = [pc EXCEPT ![p] = "fork_parent", ![n] = "forkret"]
  /\ np' = [np EXCEPT ![p] = n]
  /\ UNCHANGED <<chan, killed, parent, lockVars, cpuVars, havekids, yret>>

(* A page allocation fails after allocpid(): freeproc(np) wipes the slot    *)
(* and fork() returns -1.                                                   *)
ForkNoMemory(c, p, n) ==
  /\ Runs(c, p)
  /\ pc[p] = "user"
  /\ ~killed[p]
  /\ plock[n] = NoCpu
  /\ state[n] = "UNUSED"
  /\ nextpid <= MaxPid
  /\ nextpid' = nextpid + 1
  /\ killed' = [killed EXCEPT ![n] = FALSE]
  /\ UNCHANGED <<state, chan, pid, parent, lockVars, cpuVars, threadVars>>

ForkParent(c, p) ==
  /\ Runs(c, p)
  /\ pc[p] = "fork_parent"
  /\ wait_lock = NoCpu
  /\ parent' = [parent EXCEPT ![np[p]] = p]
  /\ Goto(p, "fork_runnable")
  /\ UNCHANGED <<state, chan, killed, pid, lockVars, nextpid, cpuVars, np, havekids, yret>>

ForkRunnable(c, p) ==
  /\ Runs(c, p)
  /\ pc[p] = "fork_runnable"
  /\ plock[np[p]] = NoCpu
  /\ state' = [state EXCEPT ![np[p]] = "RUNNABLE"]
  /\ np' = [np EXCEPT ![p] = 1]
  /\ Goto(p, "user")
  /\ UNCHANGED <<chan, killed, pid, parent, lockVars, nextpid, cpuVars, havekids, yret>>

-----------------------------------------------------------------------------
(* wakeup(ch): visits the slots in order, each under its lock.  The caller  *)
(* holds wait_lock; `after' is where it continues.                          *)

WakeupSlot(ch, q) ==
  IF state[q] = "SLEEPING" /\ chan[q] = ch
  THEN state' = [state EXCEPT ![q] = "RUNNABLE"]
  ELSE UNCHANGED state

wakeup(p, ch, after) ==
  LET q == np[p] IN
  /\ q # p => plock[q] = NoCpu
  /\ IF q # p THEN WakeupSlot(ch, q) ELSE UNCHANGED state
  /\ IF q < NPROC
     THEN np' = [np EXCEPT ![p] = q + 1] /\ UNCHANGED pc
     ELSE np' = [np EXCEPT ![p] = 1] /\ Goto(p, after)

(* exit(): acquire(&wait_lock), reparent(), wakeup(p->parent), then under   *)
(* p->lock become a ZOMBIE, release wait_lock and switch away for good.     *)
(* usertrap() calls it for a killed process; init never calls it, since     *)
(* the kernel would panic.                                                  *)
Exit(c, p) ==
  /\ Runs(c, p)
  /\ pc[p] = "user"
  /\ p # initproc
  /\ wait_lock = NoCpu
  /\ wait_lock' = c
  /\ Goto(p, "reparent")
  /\ UNCHANGED <<procVars, plock, nextpid, cpuVars, np, havekids, yret>>

(* One child at a time, lowest slot first, each followed by                 *)
(* wakeup(initproc).  parent[] cannot change in between: wait_lock is held. *)
Children(p) == {q \in Procs : parent[q] = p}

reparent(c, p) ==
  /\ Runs(c, p)
  /\ pc[p] = "reparent"
  /\ IF Children(p) = {}
     THEN Goto(p, "wakeup_parent") /\ UNCHANGED parent
     ELSE /\ \E q \in Children(p) :
               /\ \A r \in Children(p) : q <= r
               /\ parent' = [parent EXCEPT ![q] = initproc]
          /\ Goto(p, "wakeup_init")
  /\ UNCHANGED <<state, chan, killed, pid, lockVars, nextpid, cpuVars, np, havekids, yret>>

ReparentWakeup(c, p) ==
  /\ Runs(c, p)
  /\ pc[p] = "wakeup_init"
  /\ wakeup(p, initproc, "reparent")
  /\ UNCHANGED <<chan, killed, pid, parent, lockVars, nextpid, cpuVars, havekids, yret>>

(* Mutant: the exiting process wakes its own channel, not its parent's. *)
ExitWakeup_Self(c, p) ==
  /\ Runs(c, p)
  /\ pc[p] = "wakeup_parent"
  /\ wakeup(p, p, "exit_zombie")
  /\ UNCHANGED <<chan, killed, pid, parent, lockVars, nextpid, cpuVars, havekids, yret>>

ExitWakeup(c, p) ==
  /\ Runs(c, p)
  /\ pc[p] = "wakeup_parent"
  /\ wakeup(p, parent[p], "exit_zombie")
  /\ UNCHANGED <<chan, killed, pid, parent, lockVars, nextpid, cpuVars, havekids, yret>>

ExitZombie(c, p) ==
  /\ Runs(c, p)
  /\ pc[p] = "exit_zombie"
  /\ plock[p] = NoCpu
  /\ plock' = [plock EXCEPT ![p] = c]
  /\ state' = [state EXCEPT ![p] = "ZOMBIE"]
  /\ Goto(p, "exit_release")
  /\ UNCHANGED <<chan, killed, pid, parent, wait_lock, nextpid, cpuVars, np, havekids, yret>>

(* Mutant: wait_lock is not released before sched(). *)
ExitRelease_Forgotten(c, p) ==
  /\ Runs(c, p)
  /\ pc[p] = "exit_release"
  /\ Goto(p, "sched_exit")
  /\ UNCHANGED <<procVars, lockVars, nextpid, cpuVars, np, havekids, yret>>

ExitRelease(c, p) ==
  /\ Runs(c, p)
  /\ pc[p] = "exit_release"
  /\ wait_lock' = NoCpu
  /\ Goto(p, "sched_exit")
  /\ UNCHANGED <<procVars, plock, nextpid, cpuVars, np, havekids, yret>>

-----------------------------------------------------------------------------
(* wait() and waitx(), which have the same control. *)

WaitStart(c, p) ==
  /\ Runs(c, p)
  /\ pc[p] = "user"
  /\ ~killed[p]
  /\ wait_lock = NoCpu
  /\ wait_lock' = c
  /\ Goto(p, "wait_scan")
  /\ UNCHANGED <<procVars, plock, nextpid, cpuVars, np, havekids, yret>>

(* Mutant: a child counts only if its lock is free at that moment. *)
WaitScan_TryLock(c, p) ==
  LET q == np[p] IN
  /\ Runs(c, p)
  /\ pc[p] = "wait_scan"
  /\ q \in Procs
  /\ \/ (parent[q] # p \/ plock[q] # NoCpu) /\ UNCHANGED havekids
     \/ /\ parent[q] = p
        /\ plock[q] = NoCpu
        /\ state[q] # "ZOMBIE"
        /\ havekids' = [havekids EXCEPT ![p] = TRUE]
  /\ np' = [np EXCEPT ![p] = q + 1]
  /\ UNCHANGED <<procVars, lockVars, nextpid, cpuVars, pc, yret>>

(* One turn of the loop over proc[] that does not return: the slot is not   *)
(* a child, or it is a child that is still alive.                           *)
WaitScan(c, p) ==
  LET q == np[p] IN
  /\ Runs(c, p)
  /\ pc[p] = "wait_scan"
  /\ q \in Procs
  /\ \/ parent[q] # p /\ UNCHANGED havekids
     \/ /\ parent[q] = p
        /\ plock[q] = NoCpu
        /\ state[q] # "ZOMBIE"
        /\ havekids' = [havekids EXCEPT ![p] = TRUE]
  /\ np' = [np EXCEPT ![p] = q + 1]
  /\ UNCHANGED <<procVars, lockVars, nextpid, cpuVars, pc, yret>>

(* freeproc(), called with q's lock held. *)
freeproc(q) ==
  /\ state' = [state EXCEPT ![q] = "UNUSED"]
  /\ chan' = [chan EXCEPT ![q] = NoProc]
  /\ killed' = [killed EXCEPT ![q] = FALSE]
  /\ pid' = [pid EXCEPT ![q] = 0]
  /\ parent' = [parent EXCEPT ![q] = NoProc]

(* The scan finds a ZOMBIE child: free it and return its pid, or return -1  *)
(* when copyout() of its exit status fails.                                 *)
WaitReap(c, p) ==
  LET q == np[p] IN
  /\ Runs(c, p)
  /\ pc[p] = "wait_scan"
  /\ q \in Procs
  /\ parent[q] = p
  /\ plock[q] = NoCpu
  /\ state[q] = "ZOMBIE"
  /\ \/ freeproc(q) /\ pc' = [pc EXCEPT ![p] = "user", ![q] = "unused"]
     \/ UNCHANGED procVars /\ Goto(p, "user")
  /\ wait_lock' = NoCpu
  /\ np' = [np EXCEPT ![p] = 1]
  /\ havekids' = [havekids EXCEPT ![p] = FALSE]
  /\ UNCHANGED <<plock, nextpid, cpuVars, yret>>

(* The scan ends without a ZOMBIE: return -1, or sleep(p, &wait_lock).      *)
WaitEnd(c, p) ==
  /\ Runs(c, p)
  /\ pc[p] = "wait_scan"
  /\ np[p] = NPROC + 1
  /\ np' = [np EXCEPT ![p] = 1]
  /\ havekids' = [havekids EXCEPT ![p] = FALSE]
  /\ IF ~havekids[p] \/ killed[p]
     THEN wait_lock' = NoCpu /\ Goto(p, "user")
     ELSE UNCHANGED wait_lock /\ Goto(p, "sleep_acquire")
  /\ UNCHANGED <<procVars, plock, nextpid, cpuVars, yret>>

-----------------------------------------------------------------------------
(* sleep(p, &wait_lock). *)

SleepAcquire(c, p) ==
  /\ Runs(c, p)
  /\ pc[p] = "sleep_acquire"
  /\ plock[p] = NoCpu
  /\ plock' = [plock EXCEPT ![p] = c]
  /\ Goto(p, "sleep_commit")
  /\ UNCHANGED <<procVars, wait_lock, nextpid, cpuVars, np, havekids, yret>>

(* Mutant: the state changes without the channel, so no wakeup matches. *)
SleepCommit_NoChan(c, p) ==
  /\ Runs(c, p)
  /\ pc[p] = "sleep_commit"
  /\ wait_lock' = NoCpu
  /\ state' = [state EXCEPT ![p] = "SLEEPING"]
  /\ Goto(p, "sched_sleep")
  /\ UNCHANGED <<chan, killed, pid, parent, plock, nextpid, cpuVars, np, havekids, yret>>

SleepCommit(c, p) ==
  /\ Runs(c, p)
  /\ pc[p] = "sleep_commit"
  /\ wait_lock' = NoCpu
  /\ chan' = [chan EXCEPT ![p] = p]
  /\ state' = [state EXCEPT ![p] = "SLEEPING"]
  /\ Goto(p, "sched_sleep")
  /\ UNCHANGED <<killed, pid, parent, plock, nextpid, cpuVars, np, havekids, yret>>

SleepBack(c, p) ==
  /\ Runs(c, p)
  /\ pc[p] = "sleep_back"
  /\ chan' = [chan EXCEPT ![p] = NoProc]
  /\ plock' = [plock EXCEPT ![p] = NoCpu]
  /\ Goto(p, "sleep_relock")
  /\ UNCHANGED <<state, killed, pid, parent, wait_lock, nextpid, cpuVars, np, havekids, yret>>

(* acquire(lk), and wait() starts its scan again. *)
SleepRelock(c, p) ==
  /\ Runs(c, p)
  /\ pc[p] = "sleep_relock"
  /\ wait_lock = NoCpu
  /\ wait_lock' = c
  /\ Goto(p, "wait_scan")
  /\ UNCHANGED <<procVars, plock, nextpid, cpuVars, np, havekids, yret>>

-----------------------------------------------------------------------------
(* kill(): the slot t whose pid the caller named, under its lock.  The pid  *)
(* of an UNUSED slot is 0; the scan for it takes one lock at a time, so     *)
(* that it may end at any of them.  init is never named: its exit is a      *)
(* panic.                                                                   *)
kill(c, p, t) ==
  /\ Runs(c, p)
  /\ pc[p] = "user"
  /\ ~killed[p]
  /\ t # initproc
  /\ plock[t] = NoCpu
  /\ killed' = [killed EXCEPT ![t] = TRUE]
  /\ state' = [state EXCEPT ![t] = IF @ = "SLEEPING" THEN "RUNNABLE" ELSE @]
  /\ UNCHANGED <<chan, pid, parent, lockVars, nextpid, cpuVars, threadVars>>

-----------------------------------------------------------------------------
(* Steps of the kernel thread of p that its own code requires it to take:   *)
(* those that may have to spin for a lock that other threads want, ...      *)
LockStep(c, p) ==
  \/ ForkParent(c, p) \/ ForkRunnable(c, p)
  \/ ReparentWakeup(c, p) \/ ExitWakeup(c, p) \/ ExitZombie(c, p)
  \/ WaitScan(c, p) \/ WaitReap(c, p)
  \/ SleepAcquire(c, p) \/ SleepRelock(c, p)

(* ... those that do not, ... *)
KernelStep(c, p) ==
  \/ LockStep(c, p)
  \/ sched(c, p) \/ forkret(c, p) \/ YieldBack(c, p)
  \/ reparent(c, p) \/ ExitRelease(c, p) \/ WaitEnd(c, p)
  \/ SleepCommit(c, p) \/ SleepBack(c, p)

(* ... and the system calls that the user program may make. *)
UserStep(c, p) ==
  \/ Exit(c, p) \/ WaitStart(c, p)
  \/ \E n \in Procs : ForkAlloc(c, p, n) \/ ForkNoMemory(c, p, n) \/ kill(c, p, n)

Next ==
  \E c \in Cpus :
    \/ SchedulerBack(c)
    \/ \E p \in Procs :
         SchedulerPick(c, p) \/ Yield(c, p) \/ KernelStep(c, p) \/ UserStep(c, p)

Spec == Init /\ [][Next]_vars

-----------------------------------------------------------------------------
(* Properties. *)

(* Every variable has its type. *)
TypeOK ==
  /\ state \in [Procs -> States]
  /\ chan \in [Procs -> Procs \cup {NoProc}]
  /\ killed \in [Procs -> BOOLEAN]
  /\ pid \in [Procs -> Nat]
  /\ parent \in [Procs -> Procs \cup {NoProc}]
  /\ plock \in [Procs -> Cpus \cup {NoCpu}]
  /\ wait_lock \in Cpus \cup {NoCpu}
  /\ nextpid \in Nat
  /\ cproc \in [Cpus -> Procs \cup {NoProc}]
  /\ cpc \in [Cpus -> {"pick", "swtch", "back"}]
  /\ pc \in [Procs -> Labels]
  /\ np \in [Procs -> 1..(NPROC + 1)]
  /\ havekids \in [Procs -> BOOLEAN]
  /\ yret \in [Procs -> Interruptible]

(* No two CPUs ever execute the kernel thread of one process: they would    *)
(* share its kernel stack.  The handover of p->lock through swtch() in      *)
(* scheduler() and sched() is what prevents it.                             *)
OneCpuPerProcess ==
  \A c, d \in Cpus : cproc[c] = cproc[d] /\ cproc[c] # NoProc => c = d

(* wait() frees a slot only when no CPU is still in that process's exit()   *)
(* or swtch() ("make sure the child isn't still in exit() or swtch()",      *)
(* proc.c:523).                                                             *)
FreeSlotIsIdle ==
  \A p \in Procs : state[p] = "UNUSED" =>
    \A c \in Cpus : cproc[c] # p /\ plock[p] # c

(* None of the checks of sched() can panic: p->lock is held by this CPU, it *)
(* is the only lock the CPU holds, and p->state is no longer RUNNING.       *)
SchedNeverPanics ==
  \A c \in Cpus, p \in Procs :
    Runs(c, p) /\ pc[p] \in {"sched_sleep", "sched_yield", "sched_exit"} =>
      /\ \A q \in Procs : plock[q] = c <=> q = p
      /\ wait_lock # c
      /\ state[p] # "RUNNING"

(* exit() never comes back from sched() (panic "zombie exit").              *)
ZombieNeverRuns ==
  \A c \in Cpus, p \in Procs : Runs(c, p) => pc[p] # "zombie"

(* No wakeup is lost between wait() and exit(): whenever wait_lock is free, *)
(* a process asleep in wait() has no ZOMBIE child, neither one that exited  *)
(* as its child nor one that was handed to it by reparent().                *)
NoLostWakeup ==
  wait_lock = NoCpu =>
    \A p, q \in Procs :
      state[p] = "SLEEPING" /\ parent[q] = p => state[q] # "ZOMBIE"

(* Every process other than init that can run, or waits to be reaped, has a *)
(* living parent: reparent() misses nobody, not even a child forked while   *)
(* its parent was being killed.                                             *)
ParentIsAlive ==
  \A q \in Procs \ {initproc} :
    state[q] \notin {"UNUSED", "USED"} =>
      /\ parent[q] \in Procs
      /\ state[parent[q]] \notin {"UNUSED", "USED", "ZOMBIE"}

(* wait() says "no children" only to a process that has none: its scan,     *)
(* one lock at a time, overlooks no child.                                  *)
WaitSeesEveryChild ==
  \A p \in Procs :
    pc[p] = "wait_scan" /\ np[p] = NPROC + 1 => (havekids[p] <=> Children(p) # {})

-----------------------------------------------------------------------------
(* The inductive invariant. *)

(* p->state while a CPU executes the thread at label l. *)
RunState(l) ==
  IF l = "sched_sleep" THEN "SLEEPING"
  ELSE IF l = "sched_yield" THEN "RUNNABLE"
  ELSE IF l \in {"exit_release", "sched_exit"} THEN "ZOMBIE"
  ELSE "RUNNING"

(* The values p->state may have while the thread is parked at label l. *)
ParkedStates(l) ==
  IF l = "unused" THEN {"UNUSED"}
  ELSE IF l = "forkret" THEN {"USED", "RUNNABLE"}
  ELSE IF l = "sleep_back" THEN {"SLEEPING", "RUNNABLE"}
  ELSE IF l = "yield_back" THEN {"RUNNABLE"}
  ELSE IF l = "zombie" THEN {"ZOMBIE"}
  ELSE {}

(* p is inside fork(), possibly preempted there. *)
Forking(p) ==
  \/ pc[p] \in {"fork_parent", "fork_runnable"}
  \/ pc[p] \in {"sched_yield", "yield_back"} /\ yret[p] \in {"fork_parent", "fork_runnable"}

(* c->proc is set exactly while the scheduler thread is in swtch() or just  *)
(* back from it.                                                            *)
CpuInv == \A c \in Cpus : cpc[c] = "pick" <=> cproc[c] = NoProc

(* Only the CPU that has p as its process holds p->lock beyond one step,    *)
(* and it still does when its scheduler thread is back from swtch(); the    *)
(* slot is not freed under it.                                              *)
OwnerInv ==
  /\ \A c \in Cpus, p \in Procs : plock[p] = c => cproc[c] = p
  /\ \A c \in Cpus : cpc[c] = "back" => plock[cproc[c]] = c /\ pc[cproc[c]] # "unused"

(* The label of an executing thread tells its state and the locks that its  *)
(* CPU holds.                                                               *)
RunningInv ==
  \A c \in Cpus, p \in Procs :
    Runs(c, p) =>
      /\ pc[p] \notin {"unused", "zombie"}
      /\ state[p] = RunState(pc[p])
      /\ plock[p] = c <=> pc[p] \in HoldsProcLock
      /\ wait_lock = c <=> pc[p] \in HoldsWaitLock

(* A thread that no CPU executes is parked.                                 *)
ParkedInv ==
  \A p \in Procs :
    (\A c \in Cpus : ~Runs(c, p)) => state[p] \in ParkedStates(pc[p])

(* Only an executing thread holds wait_lock.                                *)
WaitLockInv == wait_lock # NoCpu => cpc[wait_lock] = "swtch"

(* The child of a fork() in progress is USED and belongs to that fork().    *)
ForkInv ==
  /\ \A p \in Procs : Forking(p) => np[p] \in Procs /\ state[np[p]] = "USED"
  /\ \A p, q \in Procs : Forking(p) /\ Forking(q) /\ np[p] = np[q] => p = q

LockInv ==
  /\ TypeOK
  /\ CpuInv
  /\ OwnerInv
  /\ OneCpuPerProcess
  /\ RunningInv
  /\ ParkedInv
  /\ WaitLockInv
  /\ ForkInv

(* init has no parent, is not being created and never exits. *)
InitprocInv ==
  /\ parent[initproc] = NoProc
  /\ state[initproc] \in {"RUNNABLE", "RUNNING", "SLEEPING"}
  /\ pc[initproc] \notin {"reparent", "wakeup_init", "wakeup_parent", "exit_zombie"}

(* The loop variable and havekids are reset outside the loops, and a        *)
(* process sleeps on its own address.                                       *)
LocalsInv ==
  \A p \in Procs :
    /\ Forking(p) \/ pc[p] \in {"wakeup_init", "wakeup_parent", "wait_scan"} \/ np[p] = 1
    /\ havekids[p] => pc[p] = "wait_scan"
    /\ state[p] = "SLEEPING" => chan[p] = p

(* p is in fork() past the assignment of the child's parent.                *)
ForkLinked(p) ==
  \/ pc[p] = "fork_runnable"
  \/ pc[p] \in {"sched_yield", "yield_back"} /\ yret[p] = "fork_runnable"

(* Parents are alive; exit() has no child left once reparent() is done; and *)
(* fork() sets the parent before the child can run.                         *)
ParentInv ==
  /\ \A q \in Procs : parent[q] # q
  /\ \A q, r \in Procs : parent[q] = r => state[r] \notin {"UNUSED", "USED", "ZOMBIE"}
  /\ \A r \in Procs : pc[r] \in {"wakeup_parent", "exit_zombie"} => Children(r) = {}
  /\ \A q \in Procs \ {initproc} : state[q] \notin {"UNUSED", "USED"} => parent[q] \in Procs
  /\ \A p \in Procs : ForkLinked(p) => parent[np[p]] = p

(* What wait() has established when it has scanned the slots below np, and  *)
(* when it goes to sleep.                                                   *)
ScanInv ==
  /\ \A p, q \in Procs :
       pc[p] = "wait_scan" /\ q < np[p] /\ parent[q] = p =>
         state[q] # "ZOMBIE" /\ havekids[p]
  /\ \A p \in Procs : pc[p] = "wait_scan" /\ havekids[p] => Children(p) # {}
  /\ \A p, q \in Procs :
       pc[p] \in {"sleep_acquire", "sleep_commit"} /\ parent[q] = p =>
         state[q] # "ZOMBIE"

(* What wakeup() has established for a parent whose slot it has passed.     *)
WakeInv ==
  \A p, r \in Procs :
    /\ parent[p] = r
    /\ pc[p] = "exit_zombie" \/ (pc[p] = "wakeup_parent" /\ r < np[p])
    => state[r] # "SLEEPING"

(* A sleeping parent has a ZOMBIE child only while the exit() that handed   *)
(* it to init is still on its way to wake init.                             *)
PendingWakeInv ==
  \A p, q \in Procs :
    state[p] = "SLEEPING" /\ parent[q] = p /\ state[q] = "ZOMBIE" =>
      p = initproc /\ \E e \in Procs : pc[e] = "wakeup_init" /\ np[e] <= initproc

KinInv == InitprocInv /\ ParentInv /\ ScanInv /\ WakeInv /\ PendingWakeInv

FamilyInv == LockInv /\ LocalsInv /\ KinInv

=============================================================================
