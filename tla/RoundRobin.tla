----------------------------- MODULE RoundRobin -----------------------------
(***************************************************************************)
(* Proc under the DEFAULT policy: each CPU scans proc[] in order, and a    *)
(* timer interrupt makes the running process yield as soon as interrupts   *)
(* are on (usertrap() and kerneltrap() with which_dev = 2).  Liveness is   *)
(* stated here, where the order of the scan and the timer are part of the  *)
(* state.                                                                  *)
(***************************************************************************)
EXTENDS Proc

VARIABLES
  scan,     \* scan[c]: the loop variable p of scheduler() on c
  timer     \* timer[c]: a timer interrupt is pending on c

rrVars == <<vars, scan, timer>>

RRInit ==
  /\ Init
  /\ scan = [c \in Cpus |-> 1]
  /\ timer = [c \in Cpus |-> FALSE]

(* p++, and from the end of the table back to its start. *)
Advance(c) == scan' = [scan EXCEPT ![c] = IF @ = NPROC THEN 1 ELSE @ + 1]

(* The slot is locked, found not RUNNABLE and released. *)
ScanSkip(c) ==
  /\ cpc[c] = "pick"
  /\ plock[scan[c]] = NoCpu
  /\ state[scan[c]] # "RUNNABLE"
  /\ Advance(c)
  /\ UNCHANGED <<vars, timer>>

ScanPick(c) ==
  /\ SchedulerPick(c, scan[c])
  /\ UNCHANGED <<scan, timer>>

(* Mutant: after each process the scan starts over at proc[0]. *)
ScanBack_Restart(c) ==
  /\ SchedulerBack(c)
  /\ scan' = [scan EXCEPT ![c] = 1]
  /\ timer' = [timer EXCEPT ![c] = FALSE]

(* The scheduler thread runs with interrupts on between two slots: it takes *)
(* a pending timer interrupt there, and does not yield.                     *)
ScanBack(c) ==
  /\ SchedulerBack(c)
  /\ Advance(c)
  /\ timer' = [timer EXCEPT ![c] = FALSE]

(* The interval of the timer is longer than the way back from swtch(), so   *)
(* that a process which was preempted reaches its next instruction.         *)
TimerInterrupt(c) ==
  /\ cpc[c] = "swtch"
  /\ pc[cproc[c]] \notin {"forkret", "yield_back", "sleep_back"}
  /\ ~timer[c]
  /\ timer' = [timer EXCEPT ![c] = TRUE]
  /\ UNCHANGED <<vars, scan>>

Preempt(c, p) ==
  /\ timer[c]
  /\ Yield(c, p)
  /\ timer' = [timer EXCEPT ![c] = FALSE]
  /\ UNCHANGED scan

(* A pending interrupt is taken before the thread goes on. *)
InterruptsServed(c, p) == pc[p] \in Interruptible => ~timer[c]

RRKernelStep(c, p) ==
  /\ InterruptsServed(c, p)
  /\ KernelStep(c, p)
  /\ UNCHANGED <<scan, timer>>

RRUserStep(c, p) ==
  /\ InterruptsServed(c, p)
  /\ UserStep(c, p)
  /\ UNCHANGED <<scan, timer>>

RRNext ==
  \E c \in Cpus :
    \/ ScanSkip(c) \/ ScanPick(c) \/ ScanBack(c) \/ TimerInterrupt(c)
    \/ \E p \in Procs : Preempt(c, p) \/ RRKernelStep(c, p) \/ RRUserStep(c, p)

(* Every CPU keeps executing and its timer keeps firing.  A thread that     *)
(* spins for a lock gets it if the lock is free again and again.            *)
RRFairness ==
  /\ \A c \in Cpus :
       /\ WF_rrVars(ScanSkip(c) \/ ScanPick(c) \/ ScanBack(c))
       /\ WF_rrVars(TimerInterrupt(c))
  /\ \A p \in Procs :
       /\ WF_rrVars(\E c \in Cpus : Preempt(c, p) \/ RRKernelStep(c, p))
       /\ SF_rrVars(\E c \in Cpus : RRKernelStep(c, p) /\ LockStep(c, p))

RRSpec == RRInit /\ [][RRNext]_rrVars /\ RRFairness

-----------------------------------------------------------------------------
(* p is inside wait(), running, asleep or preempted. *)
InWait(p) ==
  \/ pc[p] \in {"wait_scan", "sleep_acquire", "sleep_commit", "sched_sleep",
                "sleep_back", "sleep_relock"}
  \/ pc[p] \in {"sched_yield", "yield_back"} /\ yret[p] = "sleep_relock"

(* A process in wait() that has a ZOMBIE child comes back from wait(),      *)
(* wherever exit(), reparent() and the scan happened to interleave.         *)
WaitReturns ==
  \A p \in Procs :
    InWait(p) /\ (\E q \in Children(p) : state[q] = "ZOMBIE") ~> ~InWait(p)

(* Every RUNNABLE process gets a CPU, whatever the others do.               *)
RunnableRuns ==
  \A p \in Procs : state[p] = "RUNNABLE" ~> state[p] = "RUNNING"
=============================================================================
