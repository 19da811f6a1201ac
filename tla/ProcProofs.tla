----------------------------- MODULE ProcProofs -----------------------------
(***************************************************************************)
(* Type correctness, the locking discipline and the family tree of the     *)
(* process table, proved for every number of slots and CPUs.               *)
(***************************************************************************)
EXTENDS Proc, TLAPS

(* Every kernel-thread and scheduler step is one of the named actions.      *)
LEMMA NextCases ==
  ASSUME Next
  PROVE  \/ \E c \in Cpus : SchedulerBack(c)
         \/ \E c \in Cpus, p \in Procs :
              \/ SchedulerPick(c, p)
              \/ Yield(c, p)
              \/ sched(c, p)
              \/ forkret(c, p)
              \/ YieldBack(c, p)
              \/ reparent(c, p)
              \/ ExitRelease(c, p)
              \/ WaitEnd(c, p)
              \/ SleepCommit(c, p)
              \/ SleepBack(c, p)
              \/ ForkParent(c, p)
              \/ ForkRunnable(c, p)
              \/ ReparentWakeup(c, p)
              \/ ExitWakeup(c, p)
              \/ ExitZombie(c, p)
              \/ WaitScan(c, p)
              \/ WaitReap(c, p)
              \/ SleepAcquire(c, p)
              \/ SleepRelock(c, p)
              \/ Exit(c, p)
              \/ WaitStart(c, p)
         \/ \E c \in Cpus, p \in Procs, n \in Procs :
              \/ ForkAlloc(c, p, n) \/ ForkNoMemory(c, p, n) \/ kill(c, p, n)
BY DEF Next, KernelStep, LockStep, UserStep

(* Every step of the process table keeps its variables in their types.      *)
LEMMA TypeStep == TypeOK /\ [Next]_vars => TypeOK'
<1> SUFFICES ASSUME TypeOK, [Next]_vars
             PROVE  TypeOK'
  BY Zenon
<1>0. CASE UNCHANGED vars
  BY <1>0, Zenon DEF vars, TypeOK, procVars, lockVars, cpuVars, threadVars
<1>1. ASSUME NEW c \in Cpus, SchedulerBack(c)
      PROVE  TypeOK'
  BY <1>1, Zenon DEF SchedulerBack, TypeOK, Goto, States, Labels,
    Interruptible, HoldsProcLock, HoldsWaitLock, procVars, lockVars, cpuVars, threadVars
<1>2. ASSUME NEW c \in Cpus, NEW p \in Procs, SchedulerPick(c, p)
      PROVE  TypeOK'
  BY <1>2, Zenon DEF SchedulerPick, TypeOK, Goto, States, Labels,
    Interruptible, HoldsProcLock, HoldsWaitLock, procVars, lockVars, cpuVars, threadVars
<1>3. ASSUME NEW c \in Cpus, NEW p \in Procs, Yield(c, p)
      PROVE  TypeOK'
  BY <1>3, Zenon DEF Yield, TypeOK, Goto, States, Labels,
    Interruptible, HoldsProcLock, HoldsWaitLock, procVars, lockVars, cpuVars, threadVars
<1>4. ASSUME NEW c \in Cpus, NEW p \in Procs, sched(c, p)
      PROVE  TypeOK'
  <2>1. pc' \in [Procs -> Labels]
    BY <1>4 DEF TypeOK, sched, Goto, Labels, Interruptible, HoldsProcLock, HoldsWaitLock
  <2>2. cpc' \in [Cpus -> {"pick", "swtch", "back"}]
    BY <1>4, Zenon DEF TypeOK, sched
  <2>3. UNCHANGED <<state, chan, killed, pid, parent, plock, wait_lock, nextpid, cproc, np, havekids, yret>>
    BY <1>4, Zenon DEF sched, procVars, lockVars, cpuVars, threadVars
  <2> QED
    BY <2>1, <2>2, <2>3, Zenon DEF TypeOK
<1>5. ASSUME NEW c \in Cpus, NEW p \in Procs, forkret(c, p)
      PROVE  TypeOK'
  BY <1>5, Zenon DEF forkret, TypeOK, Goto, States, Labels,
    Interruptible, HoldsProcLock, HoldsWaitLock, procVars, lockVars, cpuVars, threadVars
<1>6. ASSUME NEW c \in Cpus, NEW p \in Procs, YieldBack(c, p)
      PROVE  TypeOK'
  BY <1>6, Zenon DEF YieldBack, TypeOK, Goto, States, Labels,
    Interruptible, HoldsProcLock, HoldsWaitLock, procVars, lockVars, cpuVars, threadVars
<1>7. ASSUME NEW c \in Cpus, NEW p \in Procs, reparent(c, p)
      PROVE  TypeOK'
  <2>1. pc' \in [Procs -> Labels]
    BY <1>7 DEF reparent, TypeOK, Goto, Labels, HoldsWaitLock
  <2>2. parent' \in [Procs -> Procs \cup {NoProc}]
    <3>1. initproc \in Procs
      BY ProcAssumption DEF initproc, Procs
    <3>2. CASE Children(p) = {}
      BY <1>7, <3>2, Zenon DEF TypeOK, reparent
    <3>3. CASE Children(p) # {}
      <4>1. PICK q \in Children(p) : parent' = [parent EXCEPT ![q] = initproc]
        BY <1>7, <3>3, Zenon DEF reparent
      <4> QED
        BY <3>1, <4>1, Zenon DEF TypeOK
    <3> QED
      BY <3>2, <3>3, Zenon
  <2>3. UNCHANGED <<state, chan, killed, pid, plock, wait_lock, nextpid, cproc, cpc, np, havekids, yret>>
    BY <1>7, Zenon DEF reparent, lockVars, cpuVars
  <2> QED
    BY <2>1, <2>2, <2>3, Zenon DEF TypeOK
<1>8. ASSUME NEW c \in Cpus, NEW p \in Procs, ExitRelease(c, p)
      PROVE  TypeOK'
  BY <1>8, Zenon DEF ExitRelease, TypeOK, Goto, States, Labels,
    Interruptible, HoldsProcLock, HoldsWaitLock, procVars, lockVars, cpuVars, threadVars
<1>9. ASSUME NEW c \in Cpus, NEW p \in Procs, WaitEnd(c, p)
      PROVE  TypeOK'
  <2>1. wait_lock' \in Cpus \cup {NoCpu}
    BY <1>9, Zenon DEF TypeOK, WaitEnd
  <2>2. havekids' \in [Procs -> BOOLEAN]
    BY <1>9, Zenon DEF TypeOK, WaitEnd
  <2>3. np' \in [Procs -> 1..(NPROC + 1)]
    BY <1>9, ProcAssumption DEF TypeOK, WaitEnd, Procs
  <2>4. pc' \in [Procs -> Labels]
    BY <1>9 DEF TypeOK, WaitEnd, Goto, Labels, Interruptible, HoldsProcLock, HoldsWaitLock
  <2>5. UNCHANGED <<state, chan, killed, pid, parent, plock, nextpid, cproc, cpc, yret>>
    BY <1>9, Zenon DEF WaitEnd, procVars, lockVars, cpuVars, threadVars
  <2> QED
    BY <2>1, <2>2, <2>3, <2>4, <2>5, Zenon DEF TypeOK
<1>10. ASSUME NEW c \in Cpus, NEW p \in Procs, SleepCommit(c, p)
      PROVE  TypeOK'
  BY <1>10, Zenon DEF SleepCommit, TypeOK, Goto, States, Labels,
    Interruptible, HoldsProcLock, HoldsWaitLock, procVars, lockVars, cpuVars, threadVars
<1>11. ASSUME NEW c \in Cpus, NEW p \in Procs, SleepBack(c, p)
      PROVE  TypeOK'
  BY <1>11, Zenon DEF SleepBack, TypeOK, Goto, States, Labels,
    Interruptible, HoldsProcLock, HoldsWaitLock, procVars, lockVars, cpuVars, threadVars
<1>12. ASSUME NEW c \in Cpus, NEW p \in Procs, ForkParent(c, p)
      PROVE  TypeOK'
  BY <1>12, Zenon DEF ForkParent, TypeOK, Goto, States, Labels,
    Interruptible, HoldsProcLock, HoldsWaitLock, procVars, lockVars, cpuVars, threadVars
<1>13. ASSUME NEW c \in Cpus, NEW p \in Procs, ForkRunnable(c, p)
      PROVE  TypeOK'
  <2>1. state' \in [Procs -> States]
    BY <1>13, Zenon DEF TypeOK, ForkRunnable, States
  <2>2. np' \in [Procs -> 1..(NPROC + 1)]
    BY <1>13, ProcAssumption DEF TypeOK, ForkRunnable, Procs
  <2>3. pc' \in [Procs -> Labels]
    BY <1>13, Zenon DEF TypeOK, ForkRunnable, Goto, Labels, Interruptible, HoldsProcLock, HoldsWaitLock
  <2>4. UNCHANGED <<chan, killed, pid, parent, plock, wait_lock, nextpid, cproc, cpc, havekids, yret>>
    BY <1>13, Zenon DEF ForkRunnable, procVars, lockVars, cpuVars, threadVars
  <2> QED
    BY <2>1, <2>2, <2>3, <2>4, Zenon DEF TypeOK
<1>14. ASSUME NEW c \in Cpus, NEW p \in Procs, ReparentWakeup(c, p)
      PROVE  TypeOK'
  <2>1. state' \in [Procs -> States]
    BY <1>14 DEF TypeOK, ReparentWakeup, wakeup, WakeupSlot, States
  <2>2. np' \in [Procs -> 1..(NPROC + 1)]
    BY <1>14, ProcAssumption DEF TypeOK, ReparentWakeup, wakeup
  <2>3. pc' \in [Procs -> Labels]
    BY <1>14 DEF TypeOK, ReparentWakeup, wakeup, WakeupSlot, Goto, Labels, Interruptible, HoldsProcLock, HoldsWaitLock
  <2>4. UNCHANGED <<chan, killed, pid, parent, plock, wait_lock, nextpid, cproc, cpc, havekids, yret>>
    BY <1>14, Zenon DEF ReparentWakeup, wakeup, WakeupSlot, procVars, lockVars, cpuVars, threadVars
  <2> QED
    BY <2>1, <2>2, <2>3, <2>4, Zenon DEF TypeOK
<1>15. ASSUME NEW c \in Cpus, NEW p \in Procs, ExitWakeup(c, p)
      PROVE  TypeOK'
  <2>1. state' \in [Procs -> States]
    BY <1>15 DEF TypeOK, ExitWakeup, wakeup, WakeupSlot, States
  <2>2. np' \in [Procs -> 1..(NPROC + 1)]
    BY <1>15, ProcAssumption DEF TypeOK, ExitWakeup, wakeup
  <2>3. pc' \in [Procs -> Labels]
    BY <1>15 DEF TypeOK, ExitWakeup, wakeup, WakeupSlot, Goto, Labels, Interruptible, HoldsProcLock, HoldsWaitLock
  <2>4. UNCHANGED <<chan, killed, pid, parent, plock, wait_lock, nextpid, cproc, cpc, havekids, yret>>
    BY <1>15, Zenon DEF ExitWakeup, wakeup, WakeupSlot, procVars, lockVars, cpuVars, threadVars
  <2> QED
    BY <2>1, <2>2, <2>3, <2>4, Zenon DEF TypeOK
<1>16. ASSUME NEW c \in Cpus, NEW p \in Procs, ExitZombie(c, p)
      PROVE  TypeOK'
  BY <1>16, Zenon DEF ExitZombie, TypeOK, Goto, States, Labels,
    Interruptible, HoldsProcLock, HoldsWaitLock, procVars, lockVars, cpuVars, threadVars
<1>17. ASSUME NEW c \in Cpus, NEW p \in Procs, WaitScan(c, p)
      PROVE  TypeOK'
  <2>1. havekids' \in [Procs -> BOOLEAN]
    BY <1>17, Zenon DEF TypeOK, WaitScan
  <2>2. np' \in [Procs -> 1..(NPROC + 1)]
    <3>1. np[p] \in Procs /\ np' = [np EXCEPT ![p] = np[p] + 1]
      BY <1>17, Zenon DEF WaitScan
    <3>2. np[p] + 1 \in 1..(NPROC + 1)
      BY <3>1, ProcAssumption DEF Procs
    <3> QED
      BY <3>1, <3>2, Zenon DEF TypeOK
  <2>3. UNCHANGED <<state, chan, killed, pid, parent, plock, wait_lock, nextpid, cproc, cpc, pc, yret>>
    BY <1>17, Zenon DEF WaitScan, procVars, lockVars, cpuVars, threadVars
  <2> QED
    BY <2>1, <2>2, <2>3, Zenon DEF TypeOK
<1>18. ASSUME NEW c \in Cpus, NEW p \in Procs, WaitReap(c, p)
      PROVE  TypeOK'
  <2>1. np' \in [Procs -> 1..(NPROC + 1)]
    BY <1>18, ProcAssumption DEF WaitReap, TypeOK
  <2>2. havekids' \in [Procs -> BOOLEAN]
    BY <1>18, Zenon DEF WaitReap, TypeOK
  <2>3. wait_lock' = NoCpu /\ UNCHANGED <<plock, nextpid, cproc, cpc, yret>>
    BY <1>18, Zenon DEF WaitReap, cpuVars
  <2>4. CASE freeproc(np[p]) /\ pc' = [pc EXCEPT ![p] = "user", ![np[p]] = "unused"]
    <3>1. state' \in [Procs -> States]
      BY <2>4, Zenon DEF TypeOK, freeproc, States
    <3>2. pid' \in [Procs -> Nat] /\ killed' \in [Procs -> BOOLEAN]
      BY <2>4, Zenon DEF TypeOK, freeproc
    <3>3. parent' \in [Procs -> Procs \cup {NoProc}] /\ chan' \in [Procs -> Procs \cup {NoProc}]
      BY <2>4, Zenon DEF TypeOK, freeproc
    <3>4. pc' \in [Procs -> Labels]
      BY <2>4, Zenon DEF TypeOK, Labels, Interruptible
    <3> QED
      BY <2>1, <2>2, <2>3, <3>1, <3>2, <3>3, <3>4, Zenon DEF TypeOK
  <2>5. CASE UNCHANGED procVars /\ Goto(p, "user")
    BY <2>1, <2>2, <2>3, <2>5, Zenon DEF TypeOK, procVars, Goto, Labels, Interruptible
  <2> QED
    BY <1>18, <2>4, <2>5, Zenon DEF WaitReap
<1>19. ASSUME NEW c \in Cpus, NEW p \in Procs, SleepAcquire(c, p)
      PROVE  TypeOK'
  BY <1>19, Zenon DEF SleepAcquire, TypeOK, Goto, States, Labels,
    Interruptible, HoldsProcLock, HoldsWaitLock, procVars, lockVars, cpuVars, threadVars
<1>20. ASSUME NEW c \in Cpus, NEW p \in Procs, SleepRelock(c, p)
      PROVE  TypeOK'
  BY <1>20, Zenon DEF SleepRelock, TypeOK, Goto, States, Labels,
    Interruptible, HoldsProcLock, HoldsWaitLock, procVars, lockVars, cpuVars, threadVars
<1>21. ASSUME NEW c \in Cpus, NEW p \in Procs, Exit(c, p)
      PROVE  TypeOK'
  BY <1>21, Zenon DEF Exit, TypeOK, Goto, States, Labels,
    Interruptible, HoldsProcLock, HoldsWaitLock, procVars, lockVars, cpuVars, threadVars
<1>22. ASSUME NEW c \in Cpus, NEW p \in Procs, WaitStart(c, p)
      PROVE  TypeOK'
  BY <1>22, Zenon DEF WaitStart, TypeOK, Goto, States, Labels,
    Interruptible, HoldsProcLock, HoldsWaitLock, procVars, lockVars, cpuVars, threadVars
<1>23. ASSUME NEW c \in Cpus, NEW p \in Procs, NEW t \in Procs, ForkAlloc(c, p, t)
      PROVE  TypeOK'
  <2>1. state' \in [Procs -> States]
    BY <1>23, Zenon DEF TypeOK, ForkAlloc, States
  <2>2. pid' \in [Procs -> Nat]
    BY <1>23, Zenon DEF TypeOK, ForkAlloc
  <2>3. nextpid' \in Nat
    BY <1>23 DEF TypeOK, ForkAlloc
  <2>4. np' \in [Procs -> 1..(NPROC + 1)]
    BY <1>23, ProcAssumption DEF TypeOK, ForkAlloc, Procs
  <2>5. pc' \in [Procs -> Labels]
    BY <1>23, Zenon DEF TypeOK, ForkAlloc, Goto, Labels, Interruptible, HoldsProcLock, HoldsWaitLock
  <2>6. UNCHANGED <<chan, killed, parent, plock, wait_lock, cproc, cpc, havekids, yret>>
    BY <1>23, Zenon DEF ForkAlloc, procVars, lockVars, cpuVars, threadVars
  <2> QED
    BY <2>1, <2>2, <2>3, <2>4, <2>5, <2>6, Zenon DEF TypeOK
<1>24. ASSUME NEW c \in Cpus, NEW p \in Procs, NEW t \in Procs, ForkNoMemory(c, p, t)
      PROVE  TypeOK'
  <2>1. nextpid' \in Nat
    BY <1>24 DEF TypeOK, ForkNoMemory
  <2>2. killed' \in [Procs -> BOOLEAN]
    BY <1>24, Zenon DEF TypeOK, ForkNoMemory
  <2>3. UNCHANGED <<state, chan, pid, parent, plock, wait_lock, cproc, cpc, pc, np, havekids, yret>>
    BY <1>24, Zenon DEF ForkNoMemory, procVars, lockVars, cpuVars, threadVars
  <2> QED
    BY <2>1, <2>2, <2>3, Zenon DEF TypeOK
<1>25. ASSUME NEW c \in Cpus, NEW p \in Procs, NEW t \in Procs, kill(c, p, t)
      PROVE  TypeOK'
  <2>1. state' \in [Procs -> States]
    BY <1>25, Zenon DEF TypeOK, kill, States
  <2>2. killed' \in [Procs -> BOOLEAN]
    BY <1>25, Zenon DEF TypeOK, kill
  <2>3. UNCHANGED <<chan, pid, parent, plock, wait_lock, nextpid, cproc, cpc, pc, np, havekids, yret>>
    BY <1>25, Zenon DEF kill, procVars, lockVars, cpuVars, threadVars
  <2> QED
    BY <2>1, <2>2, <2>3, Zenon DEF TypeOK
<1> QED
  BY NextCases, <1>0, <1>1, <1>2, <1>3, <1>4, <1>5, <1>6, <1>7, <1>8, <1>9, <1>10, <1>11, <1>12, <1>13, <1>14, <1>15, <1>16, <1>17, <1>18, <1>19, <1>20, <1>21, <1>22, <1>23, <1>24, <1>25, Zenon

(* The initial state has these types.                                       *)
LEMMA TypeInit == Init => TypeOK
BY ProcAssumption DEF Init, TypeOK, Procs, NoProc, initproc, States,
  Labels, Interruptible, HoldsProcLock, HoldsWaitLock

(* Every variable of the process table keeps its type.                      *)
THEOREM TypeCorrect == Spec => []TypeOK
BY TypeInit, TypeStep, PTL DEF Spec

-----------------------------------------------------------------------------
(* The locking invariant. *)

(* What the steps of a kernel thread have in common: only p's own record,   *)
(* its lock, wait_lock and, for a wakeup, SLEEPING processes change.        *)
ThreadStep(c, p) ==
  /\ Runs(c, p)
  /\ UNCHANGED <<cproc, cpc>>
  /\ \A q \in Procs \ {p} :
       /\ pc'[q] = pc[q] /\ np'[q] = np[q] /\ yret'[q] = yret[q]
       /\ plock'[q] = plock[q]
       /\ \/ state'[q] = state[q]
          \/ plock[q] = NoCpu /\ state[q] = "SLEEPING" /\ state'[q] = "RUNNABLE"
  /\ plock'[p] \in {c, NoCpu}
  /\ plock'[p] = c <=> pc'[p] \in HoldsProcLock
  /\ wait_lock' = wait_lock \/ {wait_lock, wait_lock'} \subseteq {c, NoCpu}
  /\ wait_lock' = c <=> pc'[p] \in HoldsWaitLock
  /\ pc'[p] \notin {"unused", "zombie"}
  /\ state'[p] = RunState(pc'[p])
  /\ Forking(p)' => Forking(p) /\ np'[p] = np[p]

(* The thread that runs on a CPU is the only one there, and runs nowhere    *)
(* else; its state is that of its label.                                    *)
LEMMA RunnerFacts ==
  ASSUME LockInv, NEW c \in Cpus, NEW p \in Procs, Runs(c, p)
  PROVE  /\ \A d \in Cpus : cproc[d] = p => d = c
         /\ \A q \in Procs : q # p => ~Runs(c, q) /\ plock[q] # c
         /\ plock[p] \in {c, NoCpu}
         /\ state[p] = RunState(pc[p])
         /\ plock[p] = c <=> pc[p] \in HoldsProcLock
         /\ wait_lock = c <=> pc[p] \in HoldsWaitLock
         /\ pc[p] \notin {"unused", "zombie"}
<1>1. \A d \in Cpus : cproc[d] = p => d = c
  BY DEF LockInv, OneCpuPerProcess, Runs, Procs, NoProc
<1>2. \A q \in Procs : q # p => ~Runs(c, q) /\ plock[q] # c
  BY Zenon DEF LockInv, OwnerInv, Runs
<1>3. plock[p] \in {c, NoCpu}
  BY <1>1 DEF LockInv, TypeOK, OwnerInv
<1> QED
  BY <1>1, <1>2, <1>3, Zenon DEF LockInv, RunningInv

(* A process whose lock is free and whose state is not RUNNING is parked    *)
(* and is no CPU's process.                                                 *)
LEMMA FreeIsParked ==
  ASSUME LockInv, NEW q \in Procs, plock[q] = NoCpu, state[q] # "RUNNING"
  PROVE  /\ \A d \in Cpus : cproc[d] # q
         /\ state[q] \in ParkedStates(pc[q])
<1>1. ASSUME NEW d \in Cpus, cproc[d] = q
      PROVE  FALSE
  <2>1. d # NoCpu
    BY ProcAssumption, Zenon
  <2>2. cpc[d] # "back"
    BY <1>1, <2>1, Zenon DEF LockInv, OwnerInv
  <2>3. Runs(d, q)
    BY <1>1, <2>2 DEF LockInv, TypeOK, CpuInv, Runs, Procs, NoProc
  <2>4. state[q] = RunState(pc[q]) /\ pc[q] \notin HoldsProcLock
    BY <2>1, <2>3, Zenon DEF LockInv, RunningInv
  <2> QED
    BY <2>4, Zenon DEF RunState, HoldsProcLock
<1>2. \A d \in Cpus : ~Runs(d, q)
  BY <1>1, Zenon DEF Runs
<1> QED
  BY <1>1, <1>2, Zenon DEF LockInv, ParkedInv

(* Such a step preserves the locking invariant.                             *)
LEMMA ThreadStepInv ==
  ASSUME LockInv, TypeOK', NEW c \in Cpus, NEW p \in Procs, ThreadStep(c, p)
  PROVE  LockInv'
<1>0. Runs(c, p)
  BY Zenon DEF ThreadStep
<1>1. c # NoCpu
  BY ProcAssumption, Zenon
<1>2. CpuInv'
  BY Zenon DEF LockInv, CpuInv, ThreadStep
<1>3. OneCpuPerProcess'
  BY Zenon DEF LockInv, OneCpuPerProcess, ThreadStep
<1>4. OwnerInv'
  <2>1. ASSUME NEW d \in Cpus, NEW q \in Procs, plock'[q] = d
        PROVE  cproc'[d] = q
    <3>1. CASE q = p
      BY <1>0, <2>1, <3>1, ProcAssumption, Zenon DEF ThreadStep, Runs
    <3>2. CASE q # p
      BY <2>1, <3>2, Zenon DEF ThreadStep, LockInv, OwnerInv
    <3> QED
      BY <3>1, <3>2, Zenon
  <2>2. ASSUME NEW d \in Cpus, cpc'[d] = "back"
        PROVE  plock'[cproc'[d]] = d /\ pc'[cproc'[d]] # "unused"
    <3>1. cpc[d] = "back" /\ cproc'[d] = cproc[d]
      BY <2>2, Zenon DEF ThreadStep
    <3>2. cproc[d] \in Procs \ {p}
      BY <1>0, <3>1, RunnerFacts DEF LockInv, TypeOK, CpuInv, Runs
    <3> QED
      BY <3>1, <3>2 DEF ThreadStep, LockInv, OwnerInv
  <2> QED
    BY <2>1, <2>2, Zenon DEF OwnerInv
<1>5. RunningInv'
  <2> SUFFICES ASSUME NEW d \in Cpus, NEW q \in Procs, Runs(d, q)'
               PROVE  /\ pc'[q] \notin {"unused", "zombie"}
                      /\ state'[q] = RunState(pc'[q])
                      /\ plock'[q] = d <=> pc'[q] \in HoldsProcLock
                      /\ wait_lock' = d <=> pc'[q] \in HoldsWaitLock
    BY Zenon DEF RunningInv
  <2>1. Runs(d, q)
    BY Zenon DEF Runs, ThreadStep
  <2>2. CASE q = p
    <3>1. d = c
      BY <1>0, <2>1, <2>2, RunnerFacts DEF Runs
    <3> QED
      BY <2>2, <3>1, Zenon DEF ThreadStep
  <2>3. CASE q # p
    <3>1. d # c
      BY <1>0, <2>1, <2>3, Zenon DEF Runs
    <3>2. pc'[q] = pc[q] /\ plock'[q] = plock[q]
      BY <2>3, Zenon DEF ThreadStep
    <3>3. wait_lock' = d <=> wait_lock = d
      BY <3>1, ProcAssumption, Zenon DEF ThreadStep
    <3>4. /\ pc[q] \notin {"unused", "zombie"}
          /\ state[q] = RunState(pc[q])
          /\ plock[q] = d <=> pc[q] \in HoldsProcLock
          /\ wait_lock = d <=> pc[q] \in HoldsWaitLock
      BY <2>1, Zenon DEF LockInv, RunningInv
    <3>5. state'[q] = state[q]
      <4>1. CASE plock[q] = NoCpu /\ state[q] = "SLEEPING"
        BY <2>1, <4>1, FreeIsParked, Zenon DEF Runs
      <4> QED
        BY <2>3, <4>1, Zenon DEF ThreadStep
    <3> QED
      BY <3>2, <3>3, <3>4, <3>5, Zenon
  <2> QED
    BY <2>2, <2>3, Zenon
<1>6. ParkedInv'
  <2> SUFFICES ASSUME NEW q \in Procs, \A d \in Cpus : ~Runs(d, q)'
               PROVE  state'[q] \in ParkedStates(pc'[q])
    BY Zenon DEF ParkedInv
  <2>1. \A d \in Cpus : ~Runs(d, q)
    BY Zenon DEF Runs, ThreadStep
  <2>2. q # p
    BY <1>0, <2>1, Zenon
  <2>3. pc'[q] = pc[q] /\ state[q] \in ParkedStates(pc[q])
    BY <2>1, <2>2, Zenon DEF ThreadStep, LockInv, ParkedInv
  <2>4. state[q] = "SLEEPING" => pc[q] = "sleep_back"
    BY <2>3, Zenon DEF ParkedStates
  <2>5. state'[q] = state[q] \/ (state[q] = "SLEEPING" /\ state'[q] = "RUNNABLE")
    BY <2>2, Zenon DEF ThreadStep
  <2> QED
    BY <2>3, <2>4, <2>5, Zenon DEF ParkedStates
<1>7. WaitLockInv'
  BY <1>0 DEF ThreadStep, LockInv, WaitLockInv, Runs
<1>8. ForkInv'
  <2>1. ASSUME NEW q \in Procs, Forking(q)'
        PROVE  Forking(q) /\ np'[q] = np[q]
    BY <2>1, Zenon DEF ThreadStep, Forking
  <2>2. ASSUME NEW q \in Procs, state[q] = "USED"
        PROVE  state'[q] = "USED"
    <3>1. q # p
      BY <1>0, <2>2, RunnerFacts, Zenon DEF RunState
    <3> QED
      BY <2>2, <3>1, Zenon DEF ThreadStep
  <2> QED
    BY <2>1, <2>2, Zenon DEF LockInv, ForkInv
<1> QED
  BY <1>2, <1>3, <1>4, <1>5, <1>6, <1>7, <1>8, Zenon DEF LockInv

(* What the locking invariant says of the thread that runs on c.            *)
RunnerInv(c, p) ==
  /\ c # NoCpu
  /\ plock[p] \in {c, NoCpu}
  /\ state[p] = RunState(pc[p])
  /\ plock[p] = c <=> pc[p] \in HoldsProcLock
  /\ wait_lock = c <=> pc[p] \in HoldsWaitLock

(* The steps of a kernel thread that touch only its own slot.               *)
LEMMA OwnThreadActions ==
  ASSUME TypeOK, NEW c \in Cpus, NEW p \in Procs, Runs(c, p) => RunnerInv(c, p)
  PROVE  /\ Yield(c, p) => ThreadStep(c, p)
         /\ forkret(c, p) => ThreadStep(c, p)
         /\ YieldBack(c, p) => ThreadStep(c, p)
         /\ reparent(c, p) => ThreadStep(c, p)
         /\ ExitRelease(c, p) => ThreadStep(c, p)
         /\ WaitEnd(c, p) => ThreadStep(c, p)
         /\ SleepCommit(c, p) => ThreadStep(c, p)
         /\ SleepBack(c, p) => ThreadStep(c, p)
         /\ ForkParent(c, p) => ThreadStep(c, p)
<1>1. ASSUME Yield(c, p) PROVE ThreadStep(c, p)
  BY <1>1, Zenon DEF Yield, ThreadStep, RunnerInv, TypeOK, Goto, RunState, Forking,
    HoldsProcLock, HoldsWaitLock, Interruptible, procVars, lockVars, cpuVars, threadVars
<1>2. ASSUME forkret(c, p) PROVE ThreadStep(c, p)
  BY <1>2, Zenon DEF forkret, ThreadStep, RunnerInv, TypeOK, Goto, RunState, Forking,
    HoldsProcLock, HoldsWaitLock, Interruptible, procVars, lockVars, cpuVars, threadVars
<1>3. ASSUME YieldBack(c, p) PROVE ThreadStep(c, p)
  BY <1>3, Zenon DEF YieldBack, ThreadStep, RunnerInv, TypeOK, Goto, RunState, Forking,
    HoldsProcLock, HoldsWaitLock, Interruptible, procVars, lockVars, cpuVars, threadVars
<1>4. ASSUME reparent(c, p) PROVE ThreadStep(c, p)
  BY <1>4, Zenon DEF reparent, ThreadStep, RunnerInv, TypeOK, Goto, RunState, Forking,
    HoldsProcLock, HoldsWaitLock, Interruptible, procVars, lockVars, cpuVars, threadVars
<1>5. ASSUME ExitRelease(c, p) PROVE ThreadStep(c, p)
  BY <1>5, Zenon DEF ExitRelease, ThreadStep, RunnerInv, TypeOK, Goto, RunState, Forking,
    HoldsProcLock, HoldsWaitLock, Interruptible, procVars, lockVars, cpuVars, threadVars
<1>6. ASSUME WaitEnd(c, p) PROVE ThreadStep(c, p)
  BY <1>6 DEF WaitEnd, ThreadStep, RunnerInv, TypeOK, Goto, RunState, Forking,
    HoldsProcLock, HoldsWaitLock, Interruptible, procVars, lockVars, cpuVars, threadVars
<1>7. ASSUME SleepCommit(c, p) PROVE ThreadStep(c, p)
  BY <1>7, Zenon DEF SleepCommit, ThreadStep, RunnerInv, TypeOK, Goto, RunState, Forking,
    HoldsProcLock, HoldsWaitLock, Interruptible, procVars, lockVars, cpuVars, threadVars
<1>8. ASSUME SleepBack(c, p) PROVE ThreadStep(c, p)
  BY <1>8, Zenon DEF SleepBack, ThreadStep, RunnerInv, TypeOK, Goto, RunState, Forking,
    HoldsProcLock, HoldsWaitLock, Interruptible, procVars, lockVars, cpuVars, threadVars
<1>9. ASSUME ForkParent(c, p) PROVE ThreadStep(c, p)
  BY <1>9, Zenon DEF ForkParent, ThreadStep, RunnerInv, TypeOK, Goto, RunState, Forking,
    HoldsProcLock, HoldsWaitLock, Interruptible, procVars, lockVars, cpuVars, threadVars
<1> QED
  BY <1>1, <1>2, <1>3, <1>4, <1>5, <1>6, <1>7, <1>8, <1>9, Zenon

(* The steps that wake another slot, or may look at one.                    *)
LEMMA OtherThreadActions ==
  ASSUME TypeOK, NEW c \in Cpus, NEW p \in Procs, Runs(c, p) => RunnerInv(c, p)
  PROVE  /\ ReparentWakeup(c, p) => ThreadStep(c, p)
         /\ ExitWakeup(c, p) => ThreadStep(c, p)
         /\ ExitZombie(c, p) => ThreadStep(c, p)
         /\ WaitScan(c, p) => ThreadStep(c, p)
         /\ SleepAcquire(c, p) => ThreadStep(c, p)
         /\ SleepRelock(c, p) => ThreadStep(c, p)
         /\ Exit(c, p) => ThreadStep(c, p)
         /\ WaitStart(c, p) => ThreadStep(c, p)
         /\ \A t \in Procs : kill(c, p, t) => ThreadStep(c, p)
<1>1. ASSUME ReparentWakeup(c, p) PROVE ThreadStep(c, p)
  BY <1>1 DEF ReparentWakeup, wakeup, WakeupSlot, ThreadStep, RunnerInv, TypeOK, Goto, RunState, Forking,
    HoldsProcLock, HoldsWaitLock, Interruptible, procVars, lockVars, cpuVars, threadVars
<1>2. ASSUME ExitWakeup(c, p) PROVE ThreadStep(c, p)
  BY <1>2 DEF ExitWakeup, wakeup, WakeupSlot, ThreadStep, RunnerInv, TypeOK, Goto, RunState, Forking,
    HoldsProcLock, HoldsWaitLock, Interruptible, procVars, lockVars, cpuVars, threadVars
<1>3. ASSUME ExitZombie(c, p) PROVE ThreadStep(c, p)
  BY <1>3, Zenon DEF ExitZombie, ThreadStep, RunnerInv, TypeOK, Goto, RunState, Forking,
    HoldsProcLock, HoldsWaitLock, Interruptible, procVars, lockVars, cpuVars, threadVars
<1>4. ASSUME WaitScan(c, p) PROVE ThreadStep(c, p)
  BY <1>4, Zenon DEF WaitScan, ThreadStep, RunnerInv, TypeOK, Goto, RunState, Forking,
    HoldsProcLock, HoldsWaitLock, Interruptible, procVars, lockVars, cpuVars, threadVars
<1>5. ASSUME SleepAcquire(c, p) PROVE ThreadStep(c, p)
  BY <1>5, Zenon DEF SleepAcquire, ThreadStep, RunnerInv, TypeOK, Goto, RunState, Forking,
    HoldsProcLock, HoldsWaitLock, Interruptible, procVars, lockVars, cpuVars, threadVars
<1>6. ASSUME SleepRelock(c, p) PROVE ThreadStep(c, p)
  BY <1>6, Zenon DEF SleepRelock, ThreadStep, RunnerInv, TypeOK, Goto, RunState, Forking,
    HoldsProcLock, HoldsWaitLock, Interruptible, procVars, lockVars, cpuVars, threadVars
<1>7. ASSUME Exit(c, p) PROVE ThreadStep(c, p)
  BY <1>7, Zenon DEF Exit, ThreadStep, RunnerInv, TypeOK, Goto, RunState, Forking,
    HoldsProcLock, HoldsWaitLock, Interruptible, procVars, lockVars, cpuVars, threadVars
<1>8. ASSUME WaitStart(c, p) PROVE ThreadStep(c, p)
  BY <1>8, Zenon DEF WaitStart, ThreadStep, RunnerInv, TypeOK, Goto, RunState, Forking,
    HoldsProcLock, HoldsWaitLock, Interruptible, procVars, lockVars, cpuVars, threadVars
<1>9. ASSUME NEW t \in Procs, kill(c, p, t) PROVE ThreadStep(c, p)
  BY <1>9, Zenon DEF kill, ThreadStep, RunnerInv, TypeOK, Goto, RunState, Forking,
    HoldsProcLock, HoldsWaitLock, Interruptible, procVars, lockVars, cpuVars, threadVars
<1> QED
  BY <1>1, <1>2, <1>3, <1>4, <1>5, <1>6, <1>7, <1>8, <1>9, Zenon

(* The steps of a kernel thread that touch no other slot, or only wake it.  *)
LEMMA ThreadActions ==
  ASSUME LockInv, NEW c \in Cpus, NEW p \in Procs,
         \/ Yield(c, p)
         \/ forkret(c, p)
         \/ YieldBack(c, p)
         \/ reparent(c, p)
         \/ ExitRelease(c, p)
         \/ WaitEnd(c, p)
         \/ SleepCommit(c, p)
         \/ SleepBack(c, p)
         \/ ForkParent(c, p)
         \/ ReparentWakeup(c, p)
         \/ ExitWakeup(c, p)
         \/ ExitZombie(c, p)
         \/ WaitScan(c, p)
         \/ SleepAcquire(c, p)
         \/ SleepRelock(c, p)
         \/ Exit(c, p)
         \/ WaitStart(c, p)
         \/ \E t \in Procs : kill(c, p, t)
  PROVE  ThreadStep(c, p)
<1>1. Runs(c, p) => RunnerInv(c, p)
  BY RunnerFacts, ProcAssumption, Zenon DEF RunnerInv
<1>2. TypeOK
  BY Zenon DEF LockInv
<1> QED
  BY <1>1, <1>2, OwnThreadActions, OtherThreadActions, Zenon

(* The scheduler takes a parked RUNNABLE process and its lock.              *)
LEMMA SchedulerPickInv ==
  ASSUME LockInv, TypeOK', NEW c \in Cpus, NEW p \in Procs, SchedulerPick(c, p)
  PROVE  LockInv'
<1> USE DEF SchedulerPick
<1>0. c # NoCpu /\ p # NoProc
  BY ProcAssumption DEF Procs, NoProc
<1>1. /\ \A d \in Cpus : cproc[d] # p
      /\ pc[p] \in {"forkret", "sleep_back", "yield_back"}
  BY FreeIsParked, Zenon DEF ParkedStates
<1>2. /\ cproc' = [cproc EXCEPT ![c] = p]
      /\ cpc' = [cpc EXCEPT ![c] = "swtch"]
      /\ plock' = [plock EXCEPT ![p] = c]
      /\ state' = [state EXCEPT ![p] = "RUNNING"]
      /\ cproc[c] = NoProc
      /\ UNCHANGED <<pc, np, yret, wait_lock>>
  BY Zenon DEF LockInv, CpuInv, threadVars
<1>3. \A d \in Cpus : plock[p] # d
  BY ProcAssumption, Zenon
<1>4. \A q \in Procs : plock[q] # c
  BY <1>2 DEF LockInv, OwnerInv, Procs, NoProc
<1>5. wait_lock # c
  BY <1>0, Zenon DEF LockInv, WaitLockInv
<1>6. CpuInv'
  BY <1>0, <1>2 DEF LockInv, TypeOK, CpuInv
<1>7. OneCpuPerProcess'
  BY <1>1, <1>2 DEF LockInv, TypeOK, OneCpuPerProcess
<1>8. OwnerInv'
  BY <1>1, <1>2, <1>4 DEF LockInv, TypeOK, OwnerInv, CpuInv
<1>9. RunningInv'
  <2> SUFFICES ASSUME NEW d \in Cpus, NEW q \in Procs, Runs(d, q)'
               PROVE  /\ pc'[q] \notin {"unused", "zombie"}
                      /\ state'[q] = RunState(pc'[q])
                      /\ plock'[q] = d <=> pc'[q] \in HoldsProcLock
                      /\ wait_lock' = d <=> pc'[q] \in HoldsWaitLock
    BY Zenon DEF RunningInv
  <2>1. CASE d = c
    <3>1. q = p
      BY <1>2, <2>1, Zenon DEF Runs, LockInv, TypeOK
    <3> QED
      BY <1>1, <1>2, <1>5, <2>1, <3>1, Zenon
         DEF LockInv, TypeOK, RunState, HoldsProcLock, HoldsWaitLock
  <2>2. CASE d # c
    <3>1. Runs(d, q) /\ q # p
      BY <1>1, <1>2, <2>2, SMTT(30) DEF Runs, LockInv, TypeOK
    <3> QED
      BY <1>2, <3>1 DEF LockInv, TypeOK, RunningInv
  <2> QED
    BY <2>1, <2>2, Zenon
<1>10. ParkedInv'
  <2> SUFFICES ASSUME NEW q \in Procs, \A d \in Cpus : ~Runs(d, q)'
               PROVE  state'[q] \in ParkedStates(pc'[q])
    BY Zenon DEF ParkedInv
  <2>1. q # p
    BY <1>2 DEF Runs, LockInv, TypeOK
  <2>2. \A d \in Cpus : ~Runs(d, q)
    BY <1>2 DEF Runs, LockInv, TypeOK
  <2> QED
    BY <1>2, <2>1, <2>2, Zenon DEF LockInv, TypeOK, ParkedInv
<1>11. WaitLockInv'
  BY <1>2 DEF LockInv, TypeOK, WaitLockInv
<1>12. ForkInv'
  <2>1. \A q \in Procs : Forking(q)' <=> Forking(q)
    BY <1>2, Zenon DEF Forking
  <2>2. \A q \in Procs : state[q] = "USED" => state'[q] = "USED"
    BY Zenon DEF LockInv, TypeOK
  <2> QED
    BY <1>2, <2>1, <2>2, Zenon DEF LockInv, ForkInv
<1> QED
  BY <1>6, <1>7, <1>8, <1>9, <1>10, <1>11, <1>12, Zenon DEF LockInv

(* Back in the scheduler, the process is let go and its lock released.      *)
LEMMA SchedulerBackInv ==
  ASSUME LockInv, TypeOK', NEW c \in Cpus, SchedulerBack(c)
  PROVE  LockInv'
<1> USE DEF SchedulerBack
<1> DEFINE p == cproc[c]
<1>0. c # NoCpu /\ p \in Procs /\ p # NoProc /\ plock[p] = c
  <2>1. p \in Procs \cup {NoProc}
    BY Zenon DEF LockInv, TypeOK
  <2> QED
    BY <2>1, ProcAssumption, Zenon DEF LockInv, CpuInv, OwnerInv, Procs, NoProc
<1>1. /\ cproc' = [cproc EXCEPT ![c] = NoProc]
      /\ cpc' = [cpc EXCEPT ![c] = "pick"]
      /\ plock' = [plock EXCEPT ![p] = NoCpu]
      /\ UNCHANGED <<state, pc, np, yret, wait_lock>>
  BY Zenon DEF procVars, threadVars
<1>2. \A d \in Cpus : d # c => cproc[d] # p
  BY <1>0, Zenon DEF LockInv, OneCpuPerProcess
<1>3. \A d \in Cpus, q \in Procs : Runs(d, q)' <=> Runs(d, q)
  BY <1>0, <1>1, <1>2, Zenon DEF Runs, LockInv, TypeOK
<1>4. CpuInv'
  BY <1>1 DEF LockInv, TypeOK, CpuInv
<1>5. OneCpuPerProcess'
  BY <1>1 DEF LockInv, TypeOK, OneCpuPerProcess
<1>6. OwnerInv'
  <2>1. ASSUME NEW d \in Cpus, NEW q \in Procs, plock'[q] = d
        PROVE  cproc'[d] = q
    <3>1. q # p /\ plock[q] = d
      BY <1>0, <1>1, <2>1, ProcAssumption, Zenon DEF LockInv, TypeOK
    <3>2. cproc[d] = q
      BY <3>1, Zenon DEF LockInv, OwnerInv
    <3> QED
      BY <1>1, <3>1, <3>2, Zenon DEF LockInv, TypeOK
  <2>2. ASSUME NEW d \in Cpus, cpc'[d] = "back"
        PROVE  plock'[cproc'[d]] = d /\ pc'[cproc'[d]] # "unused"
    BY <1>1, <1>2, <2>2, SMTT(30) DEF LockInv, TypeOK, OwnerInv, CpuInv
  <2> QED
    BY <2>1, <2>2, Zenon DEF OwnerInv
<1>7. RunningInv'
  <2>1. \A d \in Cpus, q \in Procs : Runs(d, q) => q # p
    BY <1>2, Zenon DEF Runs
  <2> QED
    BY <1>1, <1>3, <2>1 DEF LockInv, TypeOK, RunningInv
<1>8. ParkedInv'
  BY <1>1, <1>3, Zenon DEF LockInv, ParkedInv
<1>9. WaitLockInv'
  BY <1>1, Zenon DEF LockInv, TypeOK, WaitLockInv
<1>10. ForkInv'
  BY <1>1, Zenon DEF LockInv, ForkInv, Forking
<1> QED
  BY <1>4, <1>5, <1>6, <1>7, <1>8, <1>9, <1>10, Zenon DEF LockInv

(* sched() leaves the thread parked, with its lock still held by the CPU.   *)
LEMMA schedInv ==
  ASSUME LockInv, TypeOK', NEW c \in Cpus, NEW p \in Procs, sched(c, p)
  PROVE  LockInv'
<1>0. c # NoCpu /\ p # NoProc
  BY ProcAssumption DEF Procs, NoProc
<1>1. /\ Runs(c, p)
      /\ cpc' = [cpc EXCEPT ![c] = "back"]
      /\ UNCHANGED <<state, np, yret, plock, wait_lock, cproc>>
      /\ \A q \in Procs : q # p => pc'[q] = pc[q]
  BY DEF sched, procVars, lockVars, Goto, LockInv, TypeOK
<1>2. /\ plock[p] = c
      /\ wait_lock # c
      /\ state[p] \in ParkedStates(pc'[p]) /\ pc'[p] # "unused"
  BY <1>1, RunnerFacts DEF sched, Goto, LockInv, TypeOK, HoldsProcLock, HoldsWaitLock,
     RunState, ParkedStates
<1>3. /\ \A d \in Cpus : ~Runs(d, p)'
      /\ \A d \in Cpus, q \in Procs : q # p => (Runs(d, q)' <=> Runs(d, q))
  BY <1>1, RunnerFacts DEF Runs, LockInv, TypeOK
<1>4. CpuInv'
  BY <1>0, <1>1, Zenon DEF Runs, LockInv, TypeOK, CpuInv
<1>5. OneCpuPerProcess'
  BY <1>1, Zenon DEF LockInv, OneCpuPerProcess
<1>6. OwnerInv'
  <2>1. ASSUME NEW d \in Cpus, cpc'[d] = "back"
        PROVE  plock'[cproc'[d]] = d /\ pc'[cproc'[d]] # "unused"
    <3>1. CASE d = c
      BY <1>1, <1>2, <3>1, Zenon DEF Runs
    <3>2. CASE d # c
      <4>1. cpc[d] = "back" /\ cproc[d] \in Procs \ {p}
        BY <1>1, <2>1, <3>2, RunnerFacts DEF LockInv, TypeOK, CpuInv
      <4> QED
        BY <1>1, <4>1, Zenon DEF LockInv, OwnerInv
    <3> QED
      BY <3>1, <3>2, Zenon
  <2> QED
    BY <1>1, <2>1, Zenon DEF LockInv, OwnerInv
<1>7. RunningInv'
  BY <1>1, <1>3 DEF LockInv, RunningInv
<1>8. ParkedInv'
  BY <1>1, <1>2, <1>3, Zenon DEF LockInv, ParkedInv
<1>9. WaitLockInv'
  BY <1>1, <1>2, Zenon DEF LockInv, TypeOK, WaitLockInv
<1>10. ForkInv'
  <2>1. Forking(p)' => Forking(p)
    BY <1>1, Zenon DEF sched, Goto, LockInv, TypeOK, Forking
  <2>2. \A q \in Procs : Forking(q)' => Forking(q)
    BY <1>1, <2>1, Zenon DEF Forking
  <2> QED
    BY <1>1, <2>2, Zenon DEF LockInv, ForkInv
<1> QED
  BY <1>4, <1>5, <1>6, <1>7, <1>8, <1>9, <1>10, Zenon DEF LockInv

(* What fork() and wait() have in common: the running thread p changes the  *)
(* parked slot n under its lock, which is free again after the step.        *)
SlotStep(c, p, n) ==
  /\ Runs(c, p)
  /\ n # p
  /\ plock[n] = NoCpu /\ state[n] # "RUNNING"
  /\ UNCHANGED <<cproc, cpc, plock>>
  /\ \A q \in Procs \ {p, n} : pc'[q] = pc[q]
  /\ \A q \in Procs \ {n} : state'[q] = state[q]
  /\ state'[n] \in ParkedStates(pc'[n])
  /\ wait_lock' = wait_lock \/ {wait_lock, wait_lock'} \subseteq {c, NoCpu}
  /\ wait_lock' = c <=> pc'[p] \in HoldsWaitLock
  /\ pc'[p] \notin {"unused", "zombie"}
  /\ pc[p] \notin HoldsProcLock /\ pc'[p] \notin HoldsProcLock

(* Such a step preserves the locking invariant.                             *)
LEMMA SlotStepInv ==
  ASSUME LockInv, TypeOK', ForkInv', NEW c \in Cpus, NEW p \in Procs, NEW n \in Procs,
         SlotStep(c, p, n)
  PROVE  LockInv'
<1>0. Runs(c, p) /\ c # NoCpu
  BY ProcAssumption, Zenon DEF SlotStep
<1>1. /\ \A d \in Cpus : cproc[d] # n
      /\ \A d \in Cpus : cproc[d] = p => d = c
      /\ plock[p] # c
      /\ state[p] = "RUNNING"
  BY <1>0, RunnerFacts, FreeIsParked DEF SlotStep, RunState, HoldsProcLock
<1>2. \A d \in Cpus, q \in Procs : Runs(d, q)' <=> Runs(d, q)
  BY Zenon DEF SlotStep, Runs
<1>3. CpuInv' /\ OneCpuPerProcess' /\ OwnerInv'
  <2>1. \A d \in Cpus : cpc[d] = "back" => cproc[d] \in Procs \ {p, n}
    BY <1>0, <1>1, Zenon DEF Runs, LockInv, TypeOK, CpuInv
  <2> QED
    BY <2>1 DEF SlotStep, LockInv, CpuInv, OneCpuPerProcess, OwnerInv
<1>4. RunningInv'
  <2> SUFFICES ASSUME NEW d \in Cpus, NEW q \in Procs, Runs(d, q)
               PROVE  /\ pc'[q] \notin {"unused", "zombie"}
                      /\ state'[q] = RunState(pc'[q])
                      /\ plock'[q] = d <=> pc'[q] \in HoldsProcLock
                      /\ wait_lock' = d <=> pc'[q] \in HoldsWaitLock
    BY <1>2, Zenon DEF RunningInv
  <2>1. CASE q = p
    <3>1. d = c
      BY <1>1, <2>1, Zenon DEF Runs
    <3>2. state'[p] = "RUNNING" /\ plock'[p] # c
      BY <1>1, Zenon DEF SlotStep
    <3>3. "RUNNING" = RunState(pc'[p])
      BY Zenon DEF SlotStep, RunState, HoldsProcLock
    <3> QED
      BY <2>1, <3>1, <3>2, <3>3, Zenon DEF SlotStep
  <2>2. CASE q # p
    <3>1. d # c /\ q # n
      BY <1>0, <1>1, <2>2, Zenon DEF Runs
    <3>2. pc'[q] = pc[q] /\ plock'[q] = plock[q] /\ state'[q] = state[q]
      BY <2>2, <3>1, Zenon DEF SlotStep
    <3>3. wait_lock' = d <=> wait_lock = d
      BY <3>1, ProcAssumption DEF SlotStep
    <3> QED
      BY <3>2, <3>3, Zenon DEF LockInv, RunningInv
  <2> QED
    BY <2>1, <2>2, Zenon
<1>5. ParkedInv'
  <2> SUFFICES ASSUME NEW q \in Procs, \A d \in Cpus : ~Runs(d, q)
               PROVE  state'[q] \in ParkedStates(pc'[q])
    BY <1>2, Zenon DEF ParkedInv
  <2>1. CASE q = n
    BY <2>1, Zenon DEF SlotStep
  <2>2. CASE q # n
    <3>1. q # p
      BY <1>0, Zenon
    <3> QED
      BY <2>2, <3>1, Zenon DEF SlotStep, LockInv, ParkedInv
  <2> QED
    BY <2>1, <2>2, Zenon
<1>6. WaitLockInv'
  BY <1>0, Zenon DEF SlotStep, LockInv, WaitLockInv, Runs
<1> QED
  BY <1>3, <1>4, <1>5, <1>6, Zenon DEF LockInv

(* The first part of fork() turns an UNUSED slot into a USED one that no    *)
(* other fork() has.                                                        *)
LEMMA ForkAllocInv ==
  ASSUME LockInv, TypeOK', NEW c \in Cpus, NEW p \in Procs, NEW n \in Procs,
         ForkAlloc(c, p, n)
  PROVE  LockInv'
<1>1. Runs(c, p) /\ pc[p] = "user"
  BY Zenon DEF ForkAlloc
<1>2. state[p] = "RUNNING"
  BY <1>1, RunnerFacts, Zenon DEF RunState
<1>3. n # p
  BY <1>2, Zenon DEF ForkAlloc
<1>4. wait_lock # c
  BY <1>1, RunnerFacts, Zenon DEF HoldsWaitLock
<1>5. /\ pc'[p] = "fork_parent" /\ pc'[n] = "forkret"
      /\ \A q \in Procs \ {p, n} : pc'[q] = pc[q]
      /\ state'[n] = "USED" /\ \A q \in Procs \ {n} : state'[q] = state[q]
      /\ np'[p] = n /\ \A q \in Procs \ {p} : np'[q] = np[q]
      /\ UNCHANGED <<plock, wait_lock, cproc, cpc, yret>>
      /\ plock[n] = NoCpu /\ state[n] = "UNUSED"
  BY <1>3 DEF ForkAlloc, lockVars, cpuVars, LockInv, TypeOK
<1>6. SlotStep(c, p, n)
  BY <1>1, <1>3, <1>4, <1>5, Zenon DEF SlotStep, ParkedStates, HoldsProcLock, HoldsWaitLock
<1>7. ForkInv'
  <2>1. ASSUME NEW q \in Procs, q # p, Forking(q)'
        PROVE  /\ Forking(q) /\ np'[q] = np[q] /\ np[q] \in Procs
               /\ state[np[q]] = "USED" /\ np[q] # n
    <3>1. Forking(q)
      BY <1>5, <2>1, Zenon DEF Forking
    <3> QED
      BY <1>5, <2>1, <3>1, Zenon DEF LockInv, ForkInv
  <2> QED
    BY <1>5, <2>1 DEF LockInv, ForkInv
<1> QED
  BY <1>6, <1>7, SlotStepInv, Zenon

(* Its last part makes that slot RUNNABLE.                                  *)
LEMMA ForkRunnableInv ==
  ASSUME LockInv, TypeOK', NEW c \in Cpus, NEW p \in Procs, ForkRunnable(c, p)
  PROVE  LockInv'
<1>1. Runs(c, p) /\ pc[p] = "fork_runnable" /\ Forking(p)
  BY Zenon DEF ForkRunnable, Forking
<1>2. PICK n \in Procs : n = np[p] /\ state[n] = "USED"
  BY <1>1, Zenon DEF LockInv, ForkInv
<1>3. state[p] = "RUNNING" /\ wait_lock # c
  BY <1>1, RunnerFacts DEF RunState, HoldsWaitLock
<1>4. n # p
  BY <1>2, <1>3, Zenon
<1>5. /\ pc'[p] = "user" /\ \A q \in Procs \ {p} : pc'[q] = pc[q]
      /\ state'[n] = "RUNNABLE" /\ \A q \in Procs \ {n} : state'[q] = state[q]
      /\ \A q \in Procs \ {p} : np'[q] = np[q]
      /\ UNCHANGED <<plock, wait_lock, cproc, cpc, yret>>
      /\ plock[n] = NoCpu
  BY <1>2, <1>4, Zenon DEF ForkRunnable, Goto, lockVars, cpuVars, LockInv, TypeOK
<1>6. pc[n] = "forkret"
  BY <1>2, <1>5, FreeIsParked, Zenon DEF ParkedStates
<1>7. SlotStep(c, p, n)
  BY <1>1, <1>2, <1>3, <1>4, <1>5, <1>6, Zenon DEF SlotStep, ParkedStates, HoldsProcLock, HoldsWaitLock
<1>8. ForkInv'
  <2>1. ~Forking(p)'
    BY <1>5, Zenon DEF Forking
  <2>2. ASSUME NEW q \in Procs, Forking(q)'
        PROVE  q # p /\ Forking(q) /\ np'[q] = np[q] /\ np[q] # n
    <3>1. q # p
      BY <2>1, <2>2, Zenon
    <3>2. Forking(q)
      BY <1>5, <2>2, <3>1, Zenon DEF Forking
    <3> QED
      BY <1>1, <1>2, <1>5, <3>1, <3>2, Zenon DEF LockInv, ForkInv
  <2>u. \A q \in Procs : Forking(q)' => np'[q] \in Procs /\ state'[np'[q]] = "USED"
    <3> SUFFICES ASSUME NEW q \in Procs, Forking(q)' PROVE np'[q] \in Procs /\ state'[np'[q]] = "USED"
      BY Zenon
    <3>1. Forking(q) /\ np'[q] = np[q] /\ np[q] # n
      BY <2>2, Zenon
    <3>2. np[q] \in Procs /\ state[np[q]] = "USED"
      BY <3>1, Zenon DEF LockInv, ForkInv
    <3> QED BY <1>5, <3>1, <3>2, Zenon
  <2>i. \A q, r \in Procs : Forking(q)' /\ Forking(r)' /\ np'[q] = np'[r] => q = r
    BY <2>2, Zenon DEF LockInv, ForkInv
  <2> QED
    BY <2>u, <2>i, Zenon DEF ForkInv
<1> QED
  BY <1>2, <1>7, <1>8, SlotStepInv, Zenon

(* wait() frees a slot whose thread is parked for good.                     *)
LEMMA WaitReapInv ==
  ASSUME LockInv, TypeOK', NEW c \in Cpus, NEW p \in Procs, WaitReap(c, p)
  PROVE  LockInv'
<1>0. PICK n \in Procs : n = np[p]
  BY Zenon DEF WaitReap
<1>1. Runs(c, p) /\ pc[p] = "wait_scan" /\ plock[n] = NoCpu /\ state[n] = "ZOMBIE"
  BY <1>0, Zenon DEF WaitReap
<1>2. state[p] = "RUNNING" /\ wait_lock = c /\ c # NoCpu
  BY <1>1, RunnerFacts, ProcAssumption DEF RunState, HoldsWaitLock
<1>3. n # p
  BY <1>1, <1>2, Zenon
<1>4. pc[n] = "zombie"
  BY <1>1, FreeIsParked, Zenon DEF ParkedStates
<1>5. /\ pc'[p] = "user" /\ \A q \in Procs \ {p, n} : pc'[q] = pc[q]
      /\ pc'[n] \in {"unused", "zombie"}
      /\ state'[n] \in ParkedStates(pc'[n]) /\ \A q \in Procs \ {n} : state'[q] = state[q]
  <2>1. CASE freeproc(n) /\ pc' = [pc EXCEPT ![p] = "user", ![n] = "unused"]
    BY <1>1, <1>3, <2>1 DEF freeproc, LockInv, TypeOK, ParkedStates
  <2>2. CASE UNCHANGED procVars /\ Goto(p, "user")
    BY <1>1, <1>3, <1>4, <2>2, Zenon DEF procVars, Goto, LockInv, TypeOK, ParkedStates
  <2> QED
    BY <1>0, <2>1, <2>2, Zenon DEF WaitReap
<1>6. /\ wait_lock' = NoCpu
      /\ \A q \in Procs \ {p} : np'[q] = np[q]
      /\ UNCHANGED <<plock, cproc, cpc, yret>>
  BY Zenon DEF WaitReap, cpuVars, LockInv, TypeOK
<1>7. SlotStep(c, p, n)
  BY <1>1, <1>2, <1>3, <1>5, <1>6, Zenon DEF SlotStep, HoldsProcLock, HoldsWaitLock
<1>8. ForkInv'
  <2>1. ~Forking(p)'
    BY <1>5, Zenon DEF Forking
  <2>2. ~Forking(n)'
    BY <1>5, Zenon DEF Forking
  <2>3. ASSUME NEW q \in Procs, Forking(q)'
        PROVE  Forking(q) /\ np'[q] = np[q] /\ np[q] # n
    <3>1. q # p /\ q # n
      BY <2>1, <2>2, <2>3, Zenon
    <3>2. Forking(q)
      BY <1>5, <1>6, <2>3, <3>1, Zenon DEF Forking
    <3> QED
      BY <1>1, <1>6, <3>1, <3>2, Zenon DEF LockInv, ForkInv
  <2>u. \A q \in Procs : Forking(q)' => np'[q] \in Procs /\ state'[np'[q]] = "USED"
    <3> SUFFICES ASSUME NEW q \in Procs, Forking(q)' PROVE np'[q] \in Procs /\ state'[np'[q]] = "USED"
      BY Zenon
    <3>1. Forking(q) /\ np'[q] = np[q] /\ np[q] # n
      BY <2>3, Zenon
    <3>2. np[q] \in Procs /\ state[np[q]] = "USED"
      BY <3>1, Zenon DEF LockInv, ForkInv
    <3> QED BY <1>5, <3>1, <3>2, Zenon
  <2>i. \A q, r \in Procs : Forking(q)' /\ Forking(r)' /\ np'[q] = np'[r] => q = r
    BY <2>3, Zenon DEF LockInv, ForkInv
  <2> QED
    BY <2>u, <2>i, Zenon DEF ForkInv
<1> QED
  BY <1>1, <1>7, <1>8, SlotStepInv, Zenon

(* A step that leaves states, locks and threads alone keeps it.             *)
LEMMA SameLockInv ==
  ASSUME LockInv, TypeOK', UNCHANGED <<state, plock, wait_lock, cproc, cpc, pc, np, yret>>
  PROVE  LockInv'
<1>1. \A c \in Cpus, p \in Procs : Runs(c, p)' <=> Runs(c, p)
  BY Zenon DEF Runs
<1>2. \A p \in Procs : Forking(p)' <=> Forking(p)
  BY Zenon DEF Forking
<1>3. CpuInv'
  BY Zenon DEF LockInv, CpuInv
<1>4. OwnerInv'
  BY Zenon DEF LockInv, OwnerInv
<1>5. OneCpuPerProcess'
  BY <1>1, Zenon DEF LockInv, OneCpuPerProcess
<1>6. RunningInv'
  BY <1>1, Zenon DEF LockInv, RunningInv
<1>7. ParkedInv' /\ WaitLockInv'
  BY <1>1, Zenon DEF LockInv, ParkedInv, WaitLockInv
<1>8. ForkInv'
  BY <1>2, Zenon DEF LockInv, ForkInv
<1> QED BY <1>3, <1>4, <1>5, <1>6, <1>7, <1>8, Zenon DEF LockInv

(* The locking invariant is inductive.                                      *)
LEMMA LockStep_Inv == LockInv /\ [Next]_vars => LockInv'
<1> SUFFICES ASSUME LockInv, [Next]_vars
             PROVE  LockInv'
  BY Zenon
<1>1. TypeOK'
  BY TypeStep, Zenon DEF LockInv
<1>2. CASE UNCHANGED vars
  <2>1. UNCHANGED <<state, plock, wait_lock, cproc, cpc, pc, np, yret>>
    BY <1>2, Zenon DEF vars, procVars, lockVars, cpuVars, threadVars
  <2> QED BY <1>1, <2>1, SameLockInv, Zenon
<1>3. ASSUME NEW c \in Cpus, SchedulerBack(c)
      PROVE  LockInv'
  BY <1>1, <1>3, SchedulerBackInv, Zenon
<1>4. ASSUME NEW c \in Cpus, NEW p \in Procs, SchedulerPick(c, p)
      PROVE  LockInv'
  BY <1>1, <1>4, SchedulerPickInv, Zenon
<1>5. ASSUME NEW c \in Cpus, NEW p \in Procs, sched(c, p)
      PROVE  LockInv'
  BY <1>1, <1>5, schedInv, Zenon
<1>6. ASSUME NEW c \in Cpus, NEW p \in Procs, ForkRunnable(c, p)
      PROVE  LockInv'
  BY <1>1, <1>6, ForkRunnableInv, Zenon
<1>7. ASSUME NEW c \in Cpus, NEW p \in Procs, WaitReap(c, p)
      PROVE  LockInv'
  BY <1>1, <1>7, WaitReapInv, Zenon
<1>8. ASSUME NEW c \in Cpus, NEW p \in Procs, NEW n \in Procs, ForkAlloc(c, p, n)
      PROVE  LockInv'
  BY <1>1, <1>8, ForkAllocInv, Zenon
<1>9. ASSUME NEW c \in Cpus, NEW p \in Procs, NEW n \in Procs, ForkNoMemory(c, p, n)
      PROVE  LockInv'
  <2>1. UNCHANGED <<state, plock, wait_lock, cproc, cpc, pc, np, yret>>
    BY <1>9, Zenon DEF ForkNoMemory, lockVars, cpuVars, threadVars
  <2> QED BY <1>1, <2>1, SameLockInv, Zenon
<1>10. ASSUME NEW c \in Cpus, NEW p \in Procs,
              \/ Yield(c, p)
              \/ forkret(c, p)
              \/ YieldBack(c, p)
              \/ reparent(c, p)
              \/ ExitRelease(c, p)
              \/ WaitEnd(c, p)
              \/ SleepCommit(c, p)
              \/ SleepBack(c, p)
              \/ ForkParent(c, p)
              \/ ReparentWakeup(c, p)
              \/ ExitWakeup(c, p)
              \/ ExitZombie(c, p)
              \/ WaitScan(c, p)
              \/ SleepAcquire(c, p)
              \/ SleepRelock(c, p)
              \/ Exit(c, p)
              \/ WaitStart(c, p)
              \/ \E t \in Procs : kill(c, p, t)
       PROVE  LockInv'
  BY <1>1, <1>10, ThreadActions, ThreadStepInv, Zenon
<1> QED
  BY <1>2, <1>3, <1>4, <1>5, <1>6, <1>7, <1>8, <1>9, <1>10, NextCases

(* The initial state satisfies the locking invariant.                       *)
LEMMA LockInit == Init => LockInv
BY TypeInit, ProcAssumption DEF Init, LockInv, CpuInv, OwnerInv, OneCpuPerProcess,
   RunningInv, ParkedInv, WaitLockInv, ForkInv, Forking, Runs, Procs, NoProc, initproc,
   ParkedStates

(* The locking invariant holds in every reachable state.                    *)
THEOREM LockingCorrect == Spec => []LockInv
BY LockInit, LockStep_Inv, PTL DEF Spec

(* No process is ever executed by two CPUs.                                 *)
THEOREM OneCpuCorrect == Spec => []OneCpuPerProcess
<1>1. LockInv => OneCpuPerProcess
  BY Zenon DEF LockInv
<1> QED
  BY <1>1, LockingCorrect, PTL

(* wait() never frees a slot that a CPU still uses or locks.                *)
THEOREM FreeSlotCorrect == Spec => []FreeSlotIsIdle
<1>1. LockInv => FreeSlotIsIdle
  <2> SUFFICES ASSUME LockInv, NEW p \in Procs, state[p] = "UNUSED", NEW c \in Cpus
               PROVE  cproc[c] # p /\ plock[p] # c
    BY Zenon DEF FreeSlotIsIdle
  <2>1. ASSUME cproc[c] = p
        PROVE  FALSE
    <3>0. p # NoProc
      BY DEF Procs, NoProc
    <3>1. cpc[c] # "pick"
      BY <2>1, <3>0, Zenon DEF LockInv, CpuInv
    <3>2. CASE cpc[c] = "swtch"
      BY <2>1, <3>2, RunnerFacts DEF Runs, RunState
    <3>3. CASE cpc[c] = "back"
      <4>1. \A d \in Cpus : ~Runs(d, p)
        BY <2>1, <3>3 DEF Runs, LockInv, OneCpuPerProcess, Procs, NoProc
      <4>2. pc[p] = "unused"
        BY <4>1, Zenon DEF LockInv, ParkedInv, ParkedStates
      <4> QED
        BY <2>1, <3>3, <4>2, Zenon DEF LockInv, OwnerInv
    <3> QED
      BY <3>1, <3>2, <3>3, ZenonT(40) DEF LockInv, TypeOK
  <2> QED
    BY <2>1, Zenon DEF LockInv, OwnerInv
<1> QED
  BY <1>1, LockingCorrect, PTL

-----------------------------------------------------------------------------
(* The family tree, under the steps that leave it as it is. *)

(* init has a slot.                                                         *)
LEMMA InitprocIsProc == initproc \in Procs
BY ProcAssumption DEF initproc, Procs

(* While a running thread holds wait_lock, or finds it free, no other       *)
(* thread is at a point where it holds it.                                  *)
LEMMA WaitLockHolder ==
  ASSUME LockInv, NEW c \in Cpus, NEW p \in Procs, Runs(c, p),
         wait_lock = NoCpu \/ pc[p] \in HoldsWaitLock
  PROVE  \A q \in Procs \ {p} : pc[q] \notin HoldsWaitLock
<1> SUFFICES ASSUME NEW q \in Procs \ {p}, pc[q] \in HoldsWaitLock
             PROVE  FALSE
  BY Zenon
<1>1. ParkedStates(pc[q]) = {}
  BY Zenon DEF ParkedStates, HoldsWaitLock
<1>2. PICK d \in Cpus : Runs(d, q)
  BY <1>1, Zenon DEF LockInv, ParkedInv
<1>3. wait_lock = d /\ d # NoCpu
  BY <1>2, RunnerFacts, ProcAssumption, Zenon
<1>4. wait_lock = c
  BY <1>3, RunnerFacts, Zenon
<1> QED
  BY <1>2, <1>3, <1>4, Zenon DEF Runs

-----------------------------------------------------------------------------
(* Steps that do not touch the family. *)

(* Thread q moves, but neither into nor out of a point of which KinInv      *)
(* says something, unless what it says already holds.                       *)
QuietMove(q) ==
  /\ pc[q] # "wakeup_init"
  /\ pc'[q] \notin {"wakeup_init", "wakeup_parent", "exit_zombie", "sleep_acquire"}
  /\ pc'[q] = "sleep_commit" => pc[q] = "sleep_acquire"
  /\ pc'[q] = "reparent" => q # initproc
  /\ pc'[q] = "wait_scan" => np'[q] = 1
  /\ ForkLinked(q)' => ForkLinked(q) /\ np'[q] = np[q]
  /\ Forking(q)' \/ np'[q] = 1
  /\ ~havekids'[q]

(* No process is born, dies, is reaped, adopted or falls asleep.            *)
QuietStep ==
  /\ parent' = parent
  /\ \A q \in Procs :
       /\ state'[q] = "ZOMBIE" <=> state[q] = "ZOMBIE"
       /\ state'[q] \in {"UNUSED", "USED"} <=> state[q] \in {"UNUSED", "USED"}
       /\ state'[q] = "SLEEPING" => state[q] = "SLEEPING" /\ chan'[q] = chan[q]
       /\ \/ /\ pc'[q] = pc[q] /\ np'[q] = np[q]
             /\ havekids'[q] = havekids[q] /\ yret'[q] = yret[q]
          \/ QuietMove(q)

(* Such a step preserves the family invariant.                              *)
LEMMA QuietStepInv ==
  ASSUME TypeOK, TypeOK', LocalsInv, KinInv, QuietStep
  PROVE  LocalsInv' /\ KinInv'
<1>1. LocalsInv'
  BY Zenon DEF LocalsInv, QuietStep, QuietMove, Forking
<1>2. InitprocInv'
  <2>1. initproc \in Procs
    BY InitprocIsProc, Zenon
  <2>2. state'[initproc] \in States
    BY <2>1, Zenon DEF TypeOK
  <2>3. state'[initproc] \in {"RUNNABLE", "RUNNING", "SLEEPING"}
    BY <2>1, <2>2, Zenon DEF KinInv, InitprocInv, QuietStep, States
  <2> QED
    BY <2>1, <2>3, Zenon DEF KinInv, InitprocInv, QuietStep, QuietMove
<1>3. ParentInv'
  <2>1. \A q \in Procs : ForkLinked(q)' => ForkLinked(q) /\ np'[q] = np[q]
    BY Zenon DEF QuietStep, QuietMove, ForkLinked
  <2>2. \A r \in Procs : Children(r)' = Children(r)
    BY Zenon DEF QuietStep, Children
  <2>3. \A r \in Procs : pc'[r] \in {"wakeup_parent", "exit_zombie"} => pc'[r] = pc[r]
    BY Zenon DEF QuietStep, QuietMove
  <2>4. /\ parent' = parent
        /\ \A q \in Procs :
             /\ state'[q] = "ZOMBIE" <=> state[q] = "ZOMBIE"
             /\ state'[q] \in {"UNUSED", "USED"} <=> state[q] \in {"UNUSED", "USED"}
    BY Zenon DEF QuietStep
  <2>5. ParentInv
    BY Zenon DEF KinInv
  <2>6. \A q, r \in Procs : parent'[q] = r => state'[r] \notin {"UNUSED", "USED", "ZOMBIE"}
    BY <2>4, <2>5, Zenon DEF ParentInv
  <2> QED
    BY <2>1, <2>2, <2>3, <2>4, <2>5, <2>6, Zenon DEF ParentInv
<1>4. ScanInv'
  <2>1. \A r \in Procs : Children(r)' = Children(r)
    BY Zenon DEF QuietStep, Children
  <2>2. \A p \in Procs :
          pc'[p] = "wait_scan" =>
            \/ pc[p] = "wait_scan" /\ np'[p] = np[p] /\ havekids'[p] = havekids[p]
            \/ np'[p] = 1 /\ ~havekids'[p]
    BY Zenon DEF QuietStep, QuietMove
  <2>3. \A p \in Procs : pc'[p] \in {"sleep_acquire", "sleep_commit"} =>
                           pc[p] \in {"sleep_acquire", "sleep_commit"}
    BY Zenon DEF QuietStep, QuietMove
  <2>4. \A q \in Procs : ~(q < 1)
    BY DEF Procs
  <2> QED
    BY <2>1, <2>2, <2>3, <2>4 DEF KinInv, ScanInv, QuietStep
<1>5. WakeInv'
  <2>1. \A p \in Procs : pc'[p] \in {"exit_zombie", "wakeup_parent"} =>
                           pc'[p] = pc[p] /\ np'[p] = np[p]
    BY Zenon DEF QuietStep, QuietMove
  <2> QED
    BY <2>1 DEF KinInv, WakeInv, QuietStep
<1>6. PendingWakeInv'
  <2>1. \A e \in Procs : pc[e] = "wakeup_init" => pc'[e] = pc[e] /\ np'[e] = np[e]
    BY Zenon DEF QuietStep, QuietMove
  <2> QED
    BY <2>1, Zenon DEF KinInv, PendingWakeInv, QuietStep
<1> QED
  BY <1>1, <1>2, <1>3, <1>4, <1>5, <1>6, Zenon DEF KinInv

(* The scheduler, yield(), kill() and most steps of fork(), sleep() and     *)
(* exit() are such steps.                                                   *)
LEMMA QuietActions ==
  ASSUME TypeOK, LocalsInv, NEW c \in Cpus, NEW p \in Procs,
         Runs(c, p) => state[p] = RunState(pc[p])
  PROVE  /\ SchedulerBack(c) => QuietStep
         /\ SchedulerPick(c, p) => QuietStep
         /\ sched(c, p) => QuietStep
         /\ forkret(c, p) => QuietStep
         /\ Yield(c, p) => QuietStep
         /\ YieldBack(c, p) => QuietStep
         /\ Exit(c, p) => QuietStep
         /\ ExitRelease(c, p) => QuietStep
         /\ WaitStart(c, p) => QuietStep
         /\ SleepAcquire(c, p) => QuietStep
         /\ SleepBack(c, p) => QuietStep
         /\ SleepRelock(c, p) => QuietStep
         /\ \A n \in Procs : ForkNoMemory(c, p, n) => QuietStep
         /\ \A n \in Procs : kill(c, p, n) => QuietStep
<1>1. ASSUME SchedulerBack(c) PROVE QuietStep
  BY <1>1, Zenon DEF SchedulerBack, QuietStep, QuietMove, LocalsInv, TypeOK, Goto, RunState, Forking, ForkLinked,
    Interruptible, procVars, lockVars, cpuVars, threadVars
<1>2. ASSUME SchedulerPick(c, p) PROVE QuietStep
  BY <1>2, Zenon DEF SchedulerPick, QuietStep, QuietMove, LocalsInv, TypeOK, Goto, RunState, Forking, ForkLinked,
    Interruptible, procVars, lockVars, cpuVars, threadVars
<1>3. ASSUME sched(c, p) PROVE QuietStep
  BY <1>3 DEF sched, QuietStep, QuietMove, LocalsInv, TypeOK, Goto, RunState, Forking, ForkLinked,
    Interruptible, procVars, lockVars, cpuVars, threadVars
<1>4. ASSUME forkret(c, p) PROVE QuietStep
  BY <1>4, Zenon DEF forkret, QuietStep, QuietMove, LocalsInv, TypeOK, Goto, RunState, Forking, ForkLinked,
    Interruptible, procVars, lockVars, cpuVars, threadVars
<1>5. ASSUME Yield(c, p) PROVE QuietStep
  BY <1>5 DEF Yield, QuietStep, QuietMove, LocalsInv, TypeOK, Goto, RunState, Forking, ForkLinked,
    Interruptible, procVars, lockVars, cpuVars, threadVars
<1>6. ASSUME YieldBack(c, p) PROVE QuietStep
  BY <1>6 DEF YieldBack, QuietStep, QuietMove, LocalsInv, TypeOK, Goto, RunState, Forking, ForkLinked,
    Interruptible, procVars, lockVars, cpuVars, threadVars
<1>7. ASSUME Exit(c, p) PROVE QuietStep
  BY <1>7, Zenon DEF Exit, QuietStep, QuietMove, LocalsInv, TypeOK, Goto, RunState, Forking, ForkLinked,
    Interruptible, procVars, lockVars, cpuVars, threadVars
<1>8. ASSUME ExitRelease(c, p) PROVE QuietStep
  BY <1>8, Zenon DEF ExitRelease, QuietStep, QuietMove, LocalsInv, TypeOK, Goto, RunState, Forking, ForkLinked,
    Interruptible, procVars, lockVars, cpuVars, threadVars
<1>9. ASSUME WaitStart(c, p) PROVE QuietStep
  BY <1>9, Zenon DEF WaitStart, QuietStep, QuietMove, LocalsInv, TypeOK, Goto, RunState, Forking, ForkLinked,
    Interruptible, procVars, lockVars, cpuVars, threadVars
<1>10. ASSUME SleepAcquire(c, p) PROVE QuietStep
  BY <1>10, Zenon DEF SleepAcquire, QuietStep, QuietMove, LocalsInv, TypeOK, Goto, RunState, Forking, ForkLinked,
    Interruptible, procVars, lockVars, cpuVars, threadVars
<1>11. ASSUME SleepBack(c, p) PROVE QuietStep
  BY <1>11, Zenon DEF SleepBack, QuietStep, QuietMove, LocalsInv, TypeOK, Goto, RunState, Forking, ForkLinked,
    Interruptible, procVars, lockVars, cpuVars, threadVars
<1>12. ASSUME SleepRelock(c, p) PROVE QuietStep
  BY <1>12, Zenon DEF SleepRelock, QuietStep, QuietMove, LocalsInv, TypeOK, Goto, RunState, Forking, ForkLinked,
    Interruptible, procVars, lockVars, cpuVars, threadVars
<1>13. ASSUME NEW n \in Procs, ForkNoMemory(c, p, n) PROVE QuietStep
  BY <1>13, Zenon DEF ForkNoMemory, QuietStep, QuietMove, LocalsInv, TypeOK, Goto, RunState, Forking, ForkLinked,
    Interruptible, procVars, lockVars, cpuVars, threadVars
<1>14. ASSUME NEW n \in Procs, kill(c, p, n) PROVE QuietStep
  BY <1>14, Zenon DEF kill, QuietStep, QuietMove, LocalsInv, TypeOK, Goto, RunState, Forking, ForkLinked,
    Interruptible, procVars, lockVars, cpuVars, threadVars
<1> QED
  BY <1>1, <1>2, <1>3, <1>4, <1>5, <1>6, <1>7, <1>8, <1>9, <1>10, <1>11, <1>12, <1>13, <1>14, Zenon

(* allocproc() takes a slot whose last thread has ended.                    *)
LEMMA ForkAllocQuiet ==
  ASSUME LockInv, LocalsInv, NEW c \in Cpus, NEW p \in Procs, NEW n \in Procs,
         ForkAlloc(c, p, n)
  PROVE  QuietStep
<1>1. state[p] = "RUNNING" /\ n # p
  BY RunnerFacts, Zenon DEF ForkAlloc, RunState
<1>2. "UNUSED" \in ParkedStates(pc[n])
  BY FreeIsParked, Zenon DEF ForkAlloc
<1>3. pc[n] = "unused"
  BY <1>2, Zenon DEF ParkedStates
<1>4. np[n] = 1 /\ ~havekids[n]
  BY <1>3, Zenon DEF LocalsInv, Forking
<1>5. TypeOK
  BY Zenon DEF LockInv
<1>6. /\ parent' = parent
      /\ \A q \in Procs \ {p, n} : /\ state'[q] = state[q] /\ chan'[q] = chan[q]
                                   /\ pc'[q] = pc[q] /\ np'[q] = np[q]
                                   /\ havekids'[q] = havekids[q] /\ yret'[q] = yret[q]
  BY <1>1, <1>5, Zenon DEF ForkAlloc, TypeOK
<1>7. state'[n] = "USED" /\ state[n] = "UNUSED" /\ QuietMove(n)
  BY <1>1, <1>3, <1>4, <1>5, Zenon DEF ForkAlloc, TypeOK, QuietMove, ForkLinked, threadVars
<1>8. state'[p] = state[p] /\ QuietMove(p)
  <2>1. ~havekids[p] /\ pc[p] = "user"
    BY Zenon DEF ForkAlloc, LocalsInv
  <2>2. state'[p] = state[p] /\ pc'[p] = "fork_parent" /\ ~havekids'[p]
    BY <1>1, <1>5, <2>1, Zenon DEF ForkAlloc, TypeOK
  <2> QED
    BY <2>1, <2>2, Zenon DEF QuietMove, ForkLinked, Forking
<1> QED
  BY <1>1, <1>6, <1>7, <1>8, Zenon DEF QuietStep

-----------------------------------------------------------------------------
(* Steps under wait_lock. *)

(* Only thread p moves, and no other thread is where it holds wait_lock.    *)
Alone(p) ==
  \A q \in Procs \ {p} :
    /\ pc[q] \notin HoldsWaitLock
    /\ pc'[q] = pc[q] /\ np'[q] = np[q] /\ havekids'[q] = havekids[q] /\ yret'[q] = yret[q]

(* The part of it that an action shows by itself.                           *)
OneThread(c, p) ==
  /\ Runs(c, p) /\ state[p] = "RUNNING"
  /\ wait_lock = NoCpu \/ pc[p] \in HoldsWaitLock
  /\ \A q \in Procs \ {p} :
       pc'[q] = pc[q] /\ np'[q] = np[q] /\ havekids'[q] = havekids[q] /\ yret'[q] = yret[q]

(* What is left to show of such a step: the tree, ...                       *)
TreePart(p) ==
  /\ InitprocInv'
  /\ \A q \in Procs : parent'[q] # q
  /\ \A q, r \in Procs : parent'[q] = r => state'[r] \notin {"UNUSED", "USED", "ZOMBIE"}
  /\ pc'[p] \in {"wakeup_parent", "exit_zombie"} => Children(p)' = {}
  /\ \A q \in Procs \ {initproc} : state'[q] \notin {"UNUSED", "USED"} => parent'[q] \in Procs
  /\ \A q \in Procs : ForkLinked(q)' => parent'[np'[q]] = q

(* ... what p knows when it scans and goes to sleep, ...                    *)
WaitPart(p) ==
  /\ pc'[p] = "wait_scan" =>
       /\ \A q \in Procs : q < np'[p] /\ parent'[q] = p => state'[q] # "ZOMBIE" /\ havekids'[p]
       /\ havekids'[p] => Children(p)' # {}
  /\ pc'[p] \in {"sleep_acquire", "sleep_commit"} =>
       \A q \in Procs : parent'[q] = p => state'[q] # "ZOMBIE"

(* ... and who is woken.                                                    *)
WakePart(p) ==
  /\ \A r \in Procs :
       /\ parent'[p] = r
       /\ pc'[p] = "exit_zombie" \/ (pc'[p] = "wakeup_parent" /\ r < np'[p])
       => state'[r] # "SLEEPING"
  /\ \A r, q \in Procs :
       state'[r] = "SLEEPING" /\ parent'[q] = r /\ state'[q] = "ZOMBIE" =>
         r = initproc /\ pc'[p] = "wakeup_init" /\ np'[p] <= initproc

(* A step of the only thread at wait_lock need only care for itself.        *)
LEMMA AloneStepInv ==
  ASSUME NEW p \in Procs, \A q \in Procs \ {p} : pc'[q] \notin HoldsWaitLock,
         LocalsInv', TreePart(p), WaitPart(p), WakePart(p)
  PROVE  LocalsInv' /\ KinInv'
<1>1. ParentInv'
  BY Zenon DEF ParentInv, TreePart, HoldsWaitLock
<1>2. ScanInv'
  BY Zenon DEF ScanInv, WaitPart, HoldsWaitLock
<1>3. WakeInv'
  BY Zenon DEF WakeInv, WakePart, HoldsWaitLock
<1>4. PendingWakeInv'
  BY Zenon DEF PendingWakeInv, WakePart
<1> QED
  BY <1>1, <1>2, <1>3, <1>4, Zenon DEF KinInv, TreePart

(* The steps under wait_lock move one thread only, which is RUNNING.        *)
LEMMA OneThreadActions ==
  ASSUME TypeOK, NEW c \in Cpus, NEW p \in Procs, Runs(c, p) => state[p] = RunState(pc[p])
  PROVE  /\ ForkParent(c, p) => OneThread(c, p)
         /\ reparent(c, p) => OneThread(c, p)
         /\ ReparentWakeup(c, p) => OneThread(c, p)
         /\ ExitWakeup(c, p) => OneThread(c, p)
         /\ ExitZombie(c, p) => OneThread(c, p)
         /\ WaitScan(c, p) => OneThread(c, p)
         /\ WaitEnd(c, p) => OneThread(c, p)
         /\ SleepCommit(c, p) => OneThread(c, p)
<1>1. ASSUME ForkParent(c, p) PROVE OneThread(c, p)
  BY <1>1, Zenon DEF ForkParent, OneThread, Goto, RunState, HoldsWaitLock, TypeOK
<1>2. ASSUME reparent(c, p) PROVE OneThread(c, p)
  BY <1>2, Zenon DEF reparent, OneThread, Goto, RunState, HoldsWaitLock, TypeOK
<1>3. ASSUME ReparentWakeup(c, p) PROVE OneThread(c, p)
  BY <1>3, Zenon DEF ReparentWakeup, wakeup, OneThread, Goto, RunState, HoldsWaitLock, TypeOK
<1>4. ASSUME ExitWakeup(c, p) PROVE OneThread(c, p)
  BY <1>4, Zenon DEF ExitWakeup, wakeup, OneThread, Goto, RunState, HoldsWaitLock, TypeOK
<1>5. ASSUME ExitZombie(c, p) PROVE OneThread(c, p)
  BY <1>5, Zenon DEF ExitZombie, OneThread, Goto, RunState, HoldsWaitLock, TypeOK
<1>6. ASSUME WaitScan(c, p) PROVE OneThread(c, p)
  BY <1>6, Zenon DEF WaitScan, OneThread, Goto, RunState, HoldsWaitLock, TypeOK
<1>7. ASSUME WaitEnd(c, p) PROVE OneThread(c, p)
  BY <1>7, Zenon DEF WaitEnd, OneThread, Goto, RunState, HoldsWaitLock, TypeOK
<1>8. ASSUME SleepCommit(c, p) PROVE OneThread(c, p)
  BY <1>8, Zenon DEF SleepCommit, OneThread, Goto, RunState, HoldsWaitLock, TypeOK
<1> QED
  BY <1>1, <1>2, <1>3, <1>4, <1>5, <1>6, <1>7, <1>8, Zenon

(* No other thread is then where it holds wait_lock.                        *)
LEMMA AloneActions ==
  ASSUME LockInv, NEW c \in Cpus, NEW p \in Procs,
         \/ ForkParent(c, p) \/ reparent(c, p) \/ ReparentWakeup(c, p) \/ ExitWakeup(c, p)
         \/ ExitZombie(c, p) \/ WaitScan(c, p) \/ WaitEnd(c, p) \/ SleepCommit(c, p)
  PROVE  state[p] = "RUNNING" /\ Alone(p)
<1>1. OneThread(c, p)
  <2>1. TypeOK /\ (Runs(c, p) => state[p] = RunState(pc[p]))
    BY RunnerFacts, Zenon DEF LockInv
  <2> QED
    BY <2>1, OneThreadActions, Zenon
<1>2. \A q \in Procs \ {p} : pc[q] \notin HoldsWaitLock
  BY <1>1, WaitLockHolder, Zenon DEF OneThread
<1> QED
  BY <1>1, <1>2, Zenon DEF OneThread, Alone

(* A step that neither adds nor removes a process nor changes a parent      *)
(* leaves the tree alone.                                                   *)
LEMMA SameTree ==
  ASSUME KinInv, NEW p \in Procs, Alone(p), parent' = parent,
         \A q \in Procs : \/ state'[q] = state[q]
                          \/ {state[q], state'[q]} \subseteq {"SLEEPING", "RUNNABLE", "RUNNING"},
         pc'[p] \in {"wakeup_parent", "exit_zombie"} => pc[p] = "wakeup_parent",
         pc'[p] \in {"reparent", "wakeup_init", "wakeup_parent", "exit_zombie"} => p # initproc,
         ~ForkLinked(p)'
  PROVE  TreePart(p)
<1>0. InitprocInv /\ ParentInv /\ initproc \in Procs
  BY InitprocIsProc, Zenon DEF KinInv
<1>1. InitprocInv'
  <2>1. parent'[initproc] = NoProc
    BY <1>0, Zenon DEF InitprocInv
  <2>2. state'[initproc] \in {"RUNNABLE", "RUNNING", "SLEEPING"}
    BY <1>0, Zenon DEF InitprocInv
  <2>3. pc'[initproc] \notin {"reparent", "wakeup_init", "wakeup_parent", "exit_zombie"}
    BY <1>0, Zenon DEF InitprocInv, Alone
  <2> QED
    BY <2>1, <2>2, <2>3, Zenon DEF InitprocInv
<1>2. \A q \in Procs : ForkLinked(q)' => ForkLinked(q) /\ np'[q] = np[q]
  BY Zenon DEF ForkLinked, Alone
<1>3. Children(p)' = Children(p)
  BY Zenon DEF Children
<1>4. \A q \in Procs : ForkLinked(q)' => parent'[np'[q]] = q
  BY <1>0, <1>2, Zenon DEF ParentInv
<1>5. pc'[p] \in {"wakeup_parent", "exit_zombie"} => Children(p)' = {}
  BY <1>0, <1>3, Zenon DEF ParentInv
<1>6. \A q, r \in Procs : parent'[q] = r => state'[r] \notin {"UNUSED", "USED", "ZOMBIE"}
  BY <1>0, Zenon DEF ParentInv
<1>7. \A q \in Procs \ {initproc} : state'[q] \notin {"UNUSED", "USED"} => parent'[q] \in Procs
  BY <1>0, Zenon DEF ParentInv
<1> QED
  BY <1>0, <1>1, <1>4, <1>5, <1>6, <1>7, Zenon DEF TreePart, ParentInv

(* sleep() in wait(): it has just found no ZOMBIE child.                    *)
LEMMA SleepCommitKin ==
  ASSUME LockInv, LocalsInv, KinInv, NEW c \in Cpus, NEW p \in Procs, SleepCommit(c, p)
  PROVE  LocalsInv' /\ KinInv'
<1>1. /\ state[p] = "RUNNING" /\ Alone(p) /\ initproc \in Procs
      /\ \A q \in Procs \ {p} : pc'[q] \notin HoldsWaitLock /\ pc[q] # "wakeup_init"
  BY AloneActions, InitprocIsProc, Zenon DEF Alone, HoldsWaitLock
<1>2. /\ UNCHANGED <<parent, np, havekids, yret>>
      /\ pc[p] = "sleep_commit" /\ pc'[p] = "sched_sleep"
      /\ state'[p] = "SLEEPING" /\ chan'[p] = p
      /\ \A q \in Procs \ {p} : state'[q] = state[q] /\ chan'[q] = chan[q]
  BY Zenon DEF SleepCommit, Goto, LockInv, TypeOK
<1>3. LocalsInv'
  BY <1>1, <1>2 DEF LocalsInv, Forking, Alone
<1>4. TreePart(p)
  BY <1>1, <1>2, SameTree, Zenon DEF ForkLinked
<1>5. WaitPart(p)
  BY <1>2, Zenon DEF WaitPart
<1>6. WakePart(p)
  BY <1>1, <1>2, SMTT(30) DEF WakePart, KinInv, PendingWakeInv, ScanInv
<1> QED
  BY <1>1, <1>3, <1>4, <1>5, <1>6, AloneStepInv, Zenon

(* wait() has scanned all slots.                                            *)
LEMMA WaitEndKin ==
  ASSUME LockInv, LocalsInv, KinInv, NEW c \in Cpus, NEW p \in Procs, WaitEnd(c, p)
  PROVE  LocalsInv' /\ KinInv'
<1>1. /\ state[p] = "RUNNING" /\ Alone(p) /\ initproc \in Procs
      /\ \A q \in Procs \ {p} : pc'[q] \notin HoldsWaitLock /\ pc[q] # "wakeup_init"
  BY AloneActions, InitprocIsProc, Zenon DEF Alone, HoldsWaitLock
<1>2. /\ UNCHANGED <<parent, state, chan, yret>>
      /\ pc[p] = "wait_scan" /\ np[p] = NPROC + 1
      /\ pc'[p] \in {"user", "sleep_acquire"} /\ np'[p] = 1 /\ ~havekids'[p]
  BY Zenon DEF WaitEnd, Goto, procVars, LockInv, TypeOK
<1>3. LocalsInv'
  BY <1>1, <1>2, Zenon DEF LocalsInv, Forking, Alone
<1>4. TreePart(p)
  BY <1>1, <1>2, SameTree, Zenon DEF ForkLinked
<1>5. WaitPart(p)
  <2>1. \A q \in Procs : q < np[p]
    BY <1>2, ProcAssumption DEF Procs
  <2> QED
    BY <1>2, <2>1, Zenon DEF WaitPart, KinInv, ScanInv
<1>6. WakePart(p)
  BY <1>1, <1>2, Zenon DEF WakePart, KinInv, PendingWakeInv
<1> QED
  BY <1>1, <1>3, <1>4, <1>5, <1>6, AloneStepInv, Zenon

(* wait() looks at one slot.                                                *)
LEMMA WaitScanKin ==
  ASSUME LockInv, LocalsInv, KinInv, NEW c \in Cpus, NEW p \in Procs, WaitScan(c, p)
  PROVE  LocalsInv' /\ KinInv'
<1>1. /\ state[p] = "RUNNING" /\ Alone(p) /\ initproc \in Procs
      /\ \A q \in Procs \ {p} : pc'[q] \notin HoldsWaitLock /\ pc[q] # "wakeup_init"
  BY AloneActions, InitprocIsProc, Zenon DEF Alone, HoldsWaitLock
<1>2. /\ UNCHANGED <<parent, state, chan, pc, yret>>
      /\ pc[p] = "wait_scan" /\ np[p] \in Procs /\ np'[p] = np[p] + 1
      /\ \/ parent[np[p]] # p /\ havekids'[p] = havekids[p]
         \/ parent[np[p]] = p /\ state[np[p]] # "ZOMBIE" /\ havekids'[p]
  BY Zenon DEF WaitScan, procVars, LockInv, TypeOK
<1>3. LocalsInv'
  BY <1>1, <1>2, ZenonT(40) DEF LocalsInv, Forking, Alone
<1>4. TreePart(p)
  BY <1>1, <1>2, SameTree, Zenon DEF ForkLinked
<1>5. WaitPart(p)
  <2>1. \A q \in Procs : q < np'[p] => q < np[p] \/ q = np[p]
    BY <1>2 DEF Procs
  <2>2. Children(p)' = Children(p)
    BY <1>2, Zenon DEF Children
  <2>3. havekids'[p] => Children(p) # {}
    BY <1>2, Zenon DEF KinInv, ScanInv, Children
  <2> QED
    BY <1>2, <2>1, <2>2, <2>3, Zenon DEF WaitPart, KinInv, ScanInv
<1>6. WakePart(p)
  BY <1>1, <1>2, Zenon DEF WakePart, KinInv, PendingWakeInv
<1> QED
  BY <1>1, <1>3, <1>4, <1>5, <1>6, AloneStepInv, Zenon

-----------------------------------------------------------------------------
(* The family tree of the process table and the handshake of wait() with    *)
(* exit().                                                                   *)

(* exit() makes a ZOMBIE whose parent is awake.                             *)
LEMMA ExitZombieKin ==
  ASSUME LockInv, LocalsInv, KinInv, NEW c \in Cpus, NEW p \in Procs, ExitZombie(c, p)
  PROVE  LocalsInv' /\ KinInv'
<1>1. /\ state[p] = "RUNNING" /\ Alone(p) /\ initproc \in Procs
      /\ \A q \in Procs \ {p} : pc'[q] \notin HoldsWaitLock /\ pc[q] # "wakeup_init"
  BY AloneActions, InitprocIsProc, Zenon DEF Alone, HoldsWaitLock
<1>2. /\ UNCHANGED <<parent, np, havekids, yret, chan>>
      /\ pc[p] = "exit_zombie" /\ pc'[p] = "exit_release" /\ state'[p] = "ZOMBIE"
      /\ \A q \in Procs \ {p} : state'[q] = state[q]
  BY Zenon DEF ExitZombie, Goto, LockInv, TypeOK
<1>3. LocalsInv'
  BY <1>1, <1>2, Zenon DEF LocalsInv, Forking, Alone
<1>4. TreePart(p)
  <2>1. p # initproc /\ \A q \in Procs : parent[q] # p
    BY <1>2, Zenon DEF KinInv, InitprocInv, ParentInv, Children
  <2>2. InitprocInv'
    BY <1>1, <1>2, <2>1, Zenon DEF KinInv, InitprocInv, Alone
  <2>3. \A q \in Procs : ForkLinked(q)' => ForkLinked(q)
    BY <1>1, <1>2, Zenon DEF ForkLinked, Alone
  <2> QED
    BY <1>1, <1>2, <2>1, <2>2, <2>3, Zenon DEF TreePart, KinInv, ParentInv
<1>5. WaitPart(p)
  BY <1>2, Zenon DEF WaitPart
<1>6. WakePart(p)
  <2>1. \A r \in Procs : parent[p] = r => state[r] # "SLEEPING"
    BY <1>2, Zenon DEF KinInv, WakeInv
  <2> QED
    BY <1>1, <1>2, <2>1, Zenon DEF WakePart, KinInv, PendingWakeInv
<1> QED
  BY <1>1, <1>3, <1>4, <1>5, <1>6, AloneStepInv, Zenon

(* exit() wakes the parent.                                                 *)
LEMMA ExitWakeupKin ==
  ASSUME LockInv, LocalsInv, KinInv, NEW c \in Cpus, NEW p \in Procs, ExitWakeup(c, p)
  PROVE  LocalsInv' /\ KinInv'
<1>1. /\ state[p] = "RUNNING" /\ Alone(p) /\ initproc \in Procs
      /\ \A q \in Procs \ {p} : pc'[q] \notin HoldsWaitLock /\ pc[q] # "wakeup_init"
  BY AloneActions, InitprocIsProc, Zenon DEF Alone, HoldsWaitLock
<1>2. /\ UNCHANGED <<parent, chan, havekids, yret>> /\ pc[p] = "wakeup_parent"
      /\ \A q \in Procs : state'[q] = state[q] \/ (state[q] = "SLEEPING" /\ state'[q] = "RUNNABLE")
      /\ \A q \in Procs : q = np[p] /\ q # p /\ chan[q] = parent[p] => state'[q] # "SLEEPING"
      /\ np[p] \in Nat
      /\ \/ np[p] < NPROC /\ np'[p] = np[p] + 1 /\ pc'[p] = "wakeup_parent"
         \/ ~(np[p] < NPROC) /\ np'[p] = 1 /\ pc'[p] = "exit_zombie"
  <2>1. TypeOK
    BY Zenon DEF LockInv
  <2>2. /\ UNCHANGED <<parent, chan, havekids, yret>> /\ pc[p] = "wakeup_parent"
        /\ wakeup(p, parent[p], "exit_zombie")
    BY Zenon DEF ExitWakeup
  <2> QED
    BY <2>1, <2>2, ProcAssumption DEF wakeup, WakeupSlot, Goto, TypeOK
<1>3. LocalsInv'
  BY <1>1, <1>2 DEF LocalsInv, Forking, Alone
<1>4. TreePart(p)
  <2>1. p # initproc
    BY <1>2, Zenon DEF KinInv, InitprocInv
  <2> QED
    BY <1>1, <1>2, <2>1, SameTree, Zenon DEF ForkLinked
<1>5. WaitPart(p)
  BY <1>2, Zenon DEF WaitPart
<1>6. WakePart(p)
  <2>1. ASSUME NEW r \in Procs, parent[p] = r,
               pc'[p] = "exit_zombie" \/ (pc'[p] = "wakeup_parent" /\ r < np'[p])
        PROVE  state'[r] # "SLEEPING"
    <3>1. r # p
      BY <2>1, Zenon DEF KinInv, ParentInv
    <3>2. r < np[p] \/ r = np[p]
      BY <1>2, <2>1, ProcAssumption DEF Procs
    <3>3. r < np[p] => state[r] # "SLEEPING"
      BY <1>2, <2>1, Zenon DEF KinInv, WakeInv
    <3>4. state[r] = "SLEEPING" => chan[r] = r
      BY Zenon DEF LocalsInv
    <3> QED
      BY <1>2, <2>1, <3>1, <3>2, <3>3, <3>4, Zenon
  <2> QED
    BY <1>1, <1>2, <2>1 DEF WakePart, KinInv, PendingWakeInv
<1> QED
  BY <1>1, <1>3, <1>4, <1>5, <1>6, AloneStepInv, Zenon

(* exit() wakes init.                                                       *)
LEMMA ReparentWakeupKin ==
  ASSUME LockInv, LocalsInv, KinInv, NEW c \in Cpus, NEW p \in Procs, ReparentWakeup(c, p)
  PROVE  LocalsInv' /\ KinInv'
<1>1. /\ state[p] = "RUNNING" /\ Alone(p) /\ initproc \in Procs
      /\ \A q \in Procs \ {p} : pc'[q] \notin HoldsWaitLock /\ pc[q] # "wakeup_init"
  BY AloneActions, InitprocIsProc, Zenon DEF Alone, HoldsWaitLock
<1>2. /\ UNCHANGED <<parent, chan, havekids, yret>> /\ pc[p] = "wakeup_init"
      /\ \A q \in Procs : state'[q] = state[q] \/ (state[q] = "SLEEPING" /\ state'[q] = "RUNNABLE")
      /\ \A q \in Procs : q = np[p] /\ q # p /\ chan[q] = initproc => state'[q] # "SLEEPING"
      /\ np[p] \in Nat
      /\ \/ np[p] < NPROC /\ np'[p] = np[p] + 1 /\ pc'[p] = "wakeup_init"
         \/ ~(np[p] < NPROC) /\ np'[p] = 1 /\ pc'[p] = "reparent"
  <2>1. TypeOK
    BY Zenon DEF LockInv
  <2>2. /\ UNCHANGED <<parent, chan, havekids, yret>> /\ pc[p] = "wakeup_init"
        /\ wakeup(p, initproc, "reparent")
    BY Zenon DEF ReparentWakeup
  <2> QED
    BY <2>1, <2>2, ProcAssumption DEF wakeup, WakeupSlot, Goto, TypeOK
<1>3. LocalsInv'
  BY <1>1, <1>2 DEF LocalsInv, Forking, Alone
<1>4. TreePart(p)
  <2>1. p # initproc
    BY <1>2, Zenon DEF KinInv, InitprocInv
  <2> QED
    BY <1>1, <1>2, <2>1, SameTree, Zenon DEF ForkLinked
<1>5. WaitPart(p)
  BY <1>2, Zenon DEF WaitPart
<1>6. WakePart(p)
  <2>1. state[initproc] = "SLEEPING" /\ np[p] <= initproc => state'[initproc] # "SLEEPING"
    <3>1. p # initproc
      BY <1>2, Zenon DEF KinInv, InitprocInv
    <3>2. np[p] <= initproc => np[p] = initproc
      BY DEF LockInv, TypeOK, initproc
    <3>3. state[initproc] = "SLEEPING" => chan[initproc] = initproc
      BY <1>1, Zenon DEF LocalsInv
    <3> QED
      BY <1>1, <1>2, <3>1, <3>2, <3>3, Zenon
  <2>2. \A r, q \in Procs :
          state'[r] = "SLEEPING" /\ parent'[q] = r /\ state'[q] = "ZOMBIE" => FALSE
    BY <1>1, <1>2, <2>1 DEF KinInv, PendingWakeInv
  <2> QED
    BY <1>2, <2>2, Zenon DEF WakePart
<1> QED
  BY <1>1, <1>3, <1>4, <1>5, <1>6, AloneStepInv, Zenon

(* exit() hands one child to init.                                          *)
LEMMA reparentKin ==
  ASSUME LockInv, LocalsInv, KinInv, NEW c \in Cpus, NEW p \in Procs, reparent(c, p)
  PROVE  LocalsInv' /\ KinInv'
<1>1. /\ state[p] = "RUNNING" /\ Alone(p) /\ initproc \in Procs
      /\ \A q \in Procs \ {p} : pc'[q] \notin HoldsWaitLock /\ pc[q] # "wakeup_init"
  BY AloneActions, InitprocIsProc, Zenon DEF Alone, HoldsWaitLock
<1>2. /\ UNCHANGED <<state, chan, np, havekids, yret>>
      /\ pc[p] = "reparent" /\ p # initproc /\ np[p] = 1 /\ parent[initproc] # p
      /\ pc'[p] \in {"wakeup_parent", "wakeup_init"}
      /\ pc'[p] = "wakeup_parent" => \A q \in Procs : parent[q] # p
      /\ \A q \in Procs : \/ parent'[q] = parent[q]
                          \/ parent[q] = p /\ parent'[q] = initproc
  <2>1. /\ UNCHANGED <<state, chan, np, havekids, yret>>
        /\ pc[p] = "reparent" /\ p # initproc /\ np[p] = 1 /\ parent[initproc] # p
    BY DEF reparent, KinInv, InitprocInv, LocalsInv, Forking, NoProc, Procs
  <2>2. CASE Children(p) = {} /\ Goto(p, "wakeup_parent") /\ UNCHANGED parent
    BY <2>1, <2>2, Zenon DEF Children, Goto, LockInv, TypeOK
  <2>3. CASE /\ Goto(p, "wakeup_init")
             /\ \E q \in Children(p) : parent' = [parent EXCEPT ![q] = initproc]
    BY <2>1, <2>3, Zenon DEF Children, Goto, LockInv, TypeOK
  <2> QED
    BY <2>2, <2>3, Zenon DEF reparent
<1>3. LocalsInv'
  BY <1>1, <1>2 DEF LocalsInv, Forking, Alone
<1>4. TreePart(p)
  <2>1. InitprocInv'
    BY <1>1, <1>2, Zenon DEF KinInv, InitprocInv, Alone
  <2>2. \A q \in Procs : ForkLinked(q)' => parent'[np'[q]] = q
    <3>1. \A q \in Procs : ForkLinked(q)' => q # p /\ ForkLinked(q)
      BY <1>1, <1>2, Zenon DEF ForkLinked, Alone
    <3>2. \A q \in Procs : ForkLinked(q) => np[q] \in Procs
      BY Zenon DEF LockInv, ForkInv, ForkLinked, Forking
    <3> QED
      BY <1>2, <3>1, <3>2, Zenon DEF KinInv, ParentInv
  <2>3. pc'[p] \in {"wakeup_parent", "exit_zombie"} => Children(p)' = {}
    BY <1>2, Zenon DEF Children
  <2>4. \A q \in Procs : parent'[q] # q
    BY <1>2, Zenon DEF KinInv, ParentInv
  <2>5. \A q, r \in Procs : parent'[q] = r => state'[r] \notin {"UNUSED", "USED", "ZOMBIE"}
    BY <1>2, Zenon DEF KinInv, ParentInv, InitprocInv
  <2>6. \A q \in Procs \ {initproc} : state'[q] \notin {"UNUSED", "USED"} => parent'[q] \in Procs
    BY <1>1, <1>2, Zenon DEF KinInv, ParentInv
  <2> QED
    BY <2>1, <2>2, <2>3, <2>4, <2>5, <2>6, Zenon DEF TreePart
<1>5. WaitPart(p)
  BY <1>2, Zenon DEF WaitPart
<1>6. WakePart(p)
  <2>1. \A r \in Procs : ~(r < 1)
    BY DEF Procs
  <2>2. np'[p] <= initproc
    BY <1>2 DEF initproc
  <2>3. \A r, q \in Procs :
          state[r] = "SLEEPING" /\ parent[q] = r /\ state[q] = "ZOMBIE" => FALSE
    BY <1>1, <1>2, Zenon DEF KinInv, PendingWakeInv
  <2> QED
    BY <1>2, <2>1, <2>2, <2>3, Zenon DEF WakePart
<1> QED
  BY <1>1, <1>3, <1>4, <1>5, <1>6, AloneStepInv, Zenon

(* fork() links the child to its parent.                                    *)
LEMMA ForkParentKin ==
  ASSUME LockInv, LocalsInv, KinInv, NEW c \in Cpus, NEW p \in Procs, ForkParent(c, p)
  PROVE  LocalsInv' /\ KinInv'
<1>1. /\ state[p] = "RUNNING" /\ Alone(p) /\ initproc \in Procs
      /\ \A q \in Procs \ {p} : pc'[q] \notin HoldsWaitLock /\ pc[q] # "wakeup_init"
  BY AloneActions, InitprocIsProc, Zenon DEF Alone, HoldsWaitLock
<1>2. /\ UNCHANGED <<state, chan, np, havekids, yret>>
      /\ pc[p] = "fork_parent" /\ pc'[p] = "fork_runnable"
      /\ np[p] \in Procs /\ state[np[p]] = "USED" /\ np[p] # p /\ np[p] # initproc
      /\ parent'[np[p]] = p /\ \A q \in Procs : q # np[p] => parent'[q] = parent[q]
  <2>1. /\ UNCHANGED <<state, chan, np, havekids, yret>> /\ pc[p] = "fork_parent"
    BY Zenon DEF ForkParent
  <2>2. np[p] \in Procs /\ state[np[p]] = "USED" /\ np[p] # p /\ np[p] # initproc
    BY <1>1, <2>1, Zenon DEF LockInv, ForkInv, Forking, KinInv, InitprocInv
  <2> QED
    BY <2>1, <2>2, Zenon DEF ForkParent, Goto, LockInv, TypeOK
<1>3. LocalsInv'
  BY <1>1, <1>2 DEF LocalsInv, Forking, Alone
<1>4. TreePart(p)
  <2>1. InitprocInv'
    BY <1>1, <1>2, Zenon DEF KinInv, InitprocInv, Alone
  <2>2. \A q \in Procs : ForkLinked(q)' => parent'[np'[q]] = q
    <3>1. \A q \in Procs : ForkLinked(q)' => q = p \/ (ForkLinked(q) /\ np[q] # np[p])
      BY <1>1, <1>2 DEF ForkLinked, Forking, Alone, LockInv, ForkInv
    <3>2. \A q \in Procs : ForkLinked(q) => np[q] \in Procs
      BY Zenon DEF LockInv, ForkInv, ForkLinked, Forking
    <3> QED
      BY <1>2, <3>1, <3>2, Zenon DEF KinInv, ParentInv
  <2> QED
    BY <1>1, <1>2, <2>1, <2>2, ZenonT(40) DEF TreePart, KinInv, ParentInv
<1>5. WaitPart(p)
  BY <1>2, Zenon DEF WaitPart
<1>6. WakePart(p)
  BY <1>1, <1>2, Zenon DEF WakePart, KinInv, PendingWakeInv
<1> QED
  BY <1>1, <1>3, <1>4, <1>5, <1>6, AloneStepInv, Zenon

(* fork() makes the linked child RUNNABLE.                                  *)
LEMMA ForkRunnableKin ==
  ASSUME LockInv, LocalsInv, KinInv, NEW c \in Cpus, NEW p \in Procs, ForkRunnable(c, p)
  PROVE  LocalsInv' /\ KinInv'
<1>1. TypeOK /\ state[p] = "RUNNING" /\ pc[p] = "fork_runnable"
  BY RunnerFacts, ZenonT(40) DEF ForkRunnable, RunState, LockInv
<1>2. PICK n \in Procs : n = np[p]
  BY <1>1, Zenon DEF LockInv, ForkInv, Forking
<1>3. state[n] = "USED" /\ parent[n] = p /\ n # initproc /\ n # p
  BY <1>1, <1>2, Zenon DEF LockInv, ForkInv, Forking, KinInv, ParentInv, InitprocInv, ForkLinked
<1>4. /\ UNCHANGED <<parent, chan, havekids, yret>>
      /\ state'[n] = "RUNNABLE" /\ \A q \in Procs \ {n} : state'[q] = state[q]
      /\ pc'[p] = "user" /\ np'[p] = 1
      /\ \A q \in Procs \ {p} : pc'[q] = pc[q] /\ np'[q] = np[q]
  BY <1>1, <1>2, Zenon DEF ForkRunnable, TypeOK, Goto
<1>5. LocalsInv'
  BY <1>1, <1>3, <1>4 DEF LocalsInv, Forking
<1>6. InitprocInv'
  BY <1>3, <1>4, InitprocIsProc, Zenon DEF KinInv, InitprocInv
<1>7. ParentInv'
  <2>1. \A q \in Procs : ForkLinked(q)' => ForkLinked(q) /\ q # p
    BY <1>4, Zenon DEF ForkLinked
  <2>2. \A q \in Procs : Children(q)' = Children(q)
    BY <1>4, Zenon DEF Children
  <2> QED
    BY <1>3, <1>4, <2>1, <2>2 DEF KinInv, ParentInv
<1>8. ScanInv'
  <2>1. \A q \in Procs : Children(q)' = Children(q)
    BY <1>4, Zenon DEF Children
  <2> QED
    BY <1>3, <1>4, <2>1 DEF KinInv, ScanInv
<1>9. WakeInv'
  BY <1>1, <1>3, <1>4, ZenonT(40) DEF KinInv, WakeInv
<1>10. PendingWakeInv'
  BY <1>1, <1>3, <1>4 DEF KinInv, PendingWakeInv
<1> QED
  BY <1>5, <1>6, <1>7, <1>8, <1>9, <1>10, Zenon DEF KinInv

(* wait() frees a ZOMBIE child, which has no children of its own.           *)
LEMMA WaitReapKin ==
  ASSUME LockInv, LocalsInv, KinInv, NEW c \in Cpus, NEW p \in Procs, WaitReap(c, p)
  PROVE  LocalsInv' /\ KinInv'
<1>1. TypeOK /\ state[p] = "RUNNING" /\ pc[p] = "wait_scan" /\ Runs(c, p)
  BY RunnerFacts, Zenon DEF WaitReap, RunState, LockInv
<1>2. PICK n \in Procs : n = np[p]
  BY Zenon DEF WaitReap
<1>3. state[n] = "ZOMBIE" /\ parent[n] = p /\ plock[n] = NoCpu /\ n # initproc /\ n # p
  BY <1>1, <1>2, Zenon DEF WaitReap, KinInv, InitprocInv, ParentInv
<1>4. pc[n] = "zombie"
  <2>1. "ZOMBIE" \in ParkedStates(pc[n])
    BY <1>3, FreeIsParked, Zenon
  <2> QED
    BY <2>1, Zenon DEF ParkedStates
<1>5. \A q \in Procs \ {p} : pc[q] \notin HoldsWaitLock
  BY <1>1, WaitLockHolder, Zenon DEF HoldsWaitLock
<1>6. /\ pc'[p] = "user" /\ np'[p] = 1 /\ ~havekids'[p] /\ yret' = yret
      /\ \A q \in Procs \ {p} : np'[q] = np[q] /\ havekids'[q] = havekids[q]
      /\ \A q \in Procs \ {p, n} : pc'[q] = pc[q]
      /\ pc'[n] \in {"unused", "zombie"}
  BY <1>1, <1>2, <1>3, <1>4, ZenonT(40) DEF WaitReap, Goto, TypeOK
<1>7. /\ \A q \in Procs \ {n} : state'[q] = state[q] /\ chan'[q] = chan[q] /\ parent'[q] = parent[q]
      /\ state'[n] \in {"UNUSED", "ZOMBIE"}
      /\ parent'[n] = IF state'[n] = "UNUSED" THEN NoProc ELSE p
  BY <1>1, <1>2, <1>3 DEF WaitReap, freeproc, procVars, TypeOK
<1>8. \A q \in Procs \ {p} : pc'[q] \notin HoldsWaitLock
  BY <1>5, <1>6, Zenon DEF HoldsWaitLock
<1>9. LocalsInv'
  <2> SUFFICES ASSUME NEW q \in Procs
               PROVE  /\ \/ Forking(q)' \/ np'[q] = 1
                         \/ pc'[q] \in {"wakeup_init", "wakeup_parent", "wait_scan"}
                      /\ havekids'[q] => pc'[q] = "wait_scan"
                      /\ state'[q] = "SLEEPING" => chan'[q] = q
    BY Zenon DEF LocalsInv
  <2>1. /\ \/ Forking(q) \/ np[q] = 1
           \/ pc[q] \in {"wakeup_init", "wakeup_parent", "wait_scan"}
        /\ havekids[q] => pc[q] = "wait_scan"
        /\ state[q] = "SLEEPING" => chan[q] = q
    BY Zenon DEF LocalsInv
  <2>2. CASE q = p
    BY <1>1, <1>3, <1>6, <1>7, <2>1, <2>2, Zenon
  <2>3. CASE q = n
    <3>1. ~Forking(n) /\ ~havekids[n]
      BY <1>4, <2>1, <2>3, Zenon DEF Forking
    <3> QED BY <1>3, <1>4, <1>6, <1>7, <2>1, <2>3, <3>1, Zenon
  <2>4. CASE q # p /\ q # n
    <3>1. Forking(q)' <=> Forking(q)
      BY <1>6, <2>4, Zenon DEF Forking
    <3> QED BY <1>6, <1>7, <2>1, <2>4, <3>1, Zenon
  <2> QED BY <2>2, <2>3, <2>4, Zenon
<1>10. NoProc \notin Procs /\ initproc \in Procs
  BY InitprocIsProc DEF NoProc, Procs
<1>11. InitprocInv'
  BY <1>3, <1>6, <1>7, <1>10, Zenon DEF KinInv, InitprocInv
<1>12. TreePart(p)
  <2>1. ParentInv
    BY Zenon DEF KinInv
  <2>2. \A q \in Procs : parent'[q] # q
    <3> SUFFICES ASSUME NEW q \in Procs PROVE parent'[q] # q
      BY Zenon
    <3>1. parent[q] # q /\ q # NoProc
      BY <1>10, <2>1, Zenon DEF ParentInv
    <3> QED BY <1>3, <1>7, <3>1, Zenon
  <2>3. \A q, r \in Procs : parent'[q] = r => state'[r] \notin {"UNUSED", "USED", "ZOMBIE"}
    <3>1. \A q, r \in Procs : parent'[q] = r => parent[q] = r
      BY <1>3, <1>7, <1>10, Zenon
    <3>2. \A q \in Procs : parent[q] # n
      BY <1>3, <2>1, Zenon DEF ParentInv
    <3> SUFFICES ASSUME NEW q \in Procs, NEW r \in Procs, parent'[q] = r
                 PROVE  state'[r] \notin {"UNUSED", "USED", "ZOMBIE"}
      BY Zenon
    <3>3. parent[q] = r /\ r # n
      BY <3>1, <3>2, Zenon
    <3> QED BY <1>7, <2>1, <3>3, Zenon DEF ParentInv
  <2>4. \A q \in Procs \ {initproc} : state'[q] \notin {"UNUSED", "USED"} => parent'[q] \in Procs
    BY <1>7, <2>1, Zenon DEF ParentInv
  <2>5. \A q \in Procs : ForkLinked(q)' => ForkLinked(q) /\ q # p
    BY <1>4, <1>6, Zenon DEF ForkLinked
  <2>6. \A q \in Procs : ForkLinked(q) => np[q] \in Procs /\ state[np[q]] = "USED"
    BY Zenon DEF ForkLinked, Forking, LockInv, ForkInv
  <2>7. \A q \in Procs : ForkLinked(q)' => parent'[np'[q]] = q
    <3> SUFFICES ASSUME NEW q \in Procs, ForkLinked(q)' PROVE parent'[np'[q]] = q
      BY Zenon
    <3>1. ForkLinked(q) /\ q # p
      BY <2>5, Zenon
    <3>2. np[q] \in Procs /\ np[q] # n /\ parent[np[q]] = q
      BY <1>3, <2>1, <2>6, <3>1, Zenon DEF ParentInv
    <3> QED BY <1>6, <1>7, <3>1, <3>2, Zenon
  <2> QED
    BY <1>6, <1>11, <2>2, <2>3, <2>4, <2>7, Zenon DEF TreePart
<1>13. WaitPart(p)
  BY <1>6, Zenon DEF WaitPart
<1>14. WakePart(p)
  <2>1. \A e \in Procs : pc[e] # "wakeup_init"
    BY <1>1, <1>5, Zenon DEF HoldsWaitLock
  <2>2. \A r, q \in Procs :
          state[r] = "SLEEPING" /\ parent[q] = r /\ state[q] = "ZOMBIE" => FALSE
    BY <2>1, Zenon DEF KinInv, PendingWakeInv
  <2>3. pc'[p] # "exit_zombie" /\ pc'[p] # "wakeup_parent"
    BY <1>6, Zenon
  <2>4. \A r, q \in Procs : state'[r] = "SLEEPING" /\ parent'[q] = r /\ state'[q] = "ZOMBIE" => FALSE
    <3> SUFFICES ASSUME NEW r \in Procs, NEW q \in Procs, state'[r] = "SLEEPING", parent'[q] = r, state'[q] = "ZOMBIE"
                 PROVE  FALSE
      BY Zenon
    <3>1. r # n /\ state[r] = "SLEEPING"
      BY <1>7, Zenon
    <3>2. parent[q] = r
      BY <1>3, <1>7, <1>10, Zenon
    <3>3. state[q] = "ZOMBIE"
      BY <1>3, <1>7, Zenon
    <3> QED BY <2>2, <3>1, <3>2, <3>3, Zenon
  <2> QED
    BY <2>3, <2>4, Zenon DEF WakePart
<1> QED
  BY <1>8, <1>9, <1>12, <1>13, <1>14, AloneStepInv, Zenon

-----------------------------------------------------------------------------
(* The invariant is inductive.                                              *)
LEMMA FamilyStep == FamilyInv /\ [Next]_vars => FamilyInv'
<1> SUFFICES ASSUME FamilyInv, [Next]_vars PROVE FamilyInv'
  BY Zenon
<1>1. LockInv /\ LocalsInv /\ KinInv /\ TypeOK
  BY Zenon DEF FamilyInv, LockInv
<1>2. LockInv' /\ TypeOK'
  BY <1>1, LockStep_Inv, Zenon DEF LockInv
<1>3. CASE UNCHANGED vars
  <2>1. QuietStep
    BY <1>3, Zenon DEF QuietStep, vars, procVars, threadVars
  <2> QED
    BY <1>1, <1>2, <2>1, QuietStepInv, Zenon DEF FamilyInv
<1>4. ASSUME NEW c \in Cpus, SchedulerBack(c)
      PROVE  FamilyInv'
  <2>1. initproc \in Procs /\ (Runs(c, initproc) => state[initproc] = RunState(pc[initproc]))
    BY <1>1, InitprocIsProc, RunnerFacts, Zenon
  <2>2. QuietStep
    BY <1>1, <1>4, <2>1, QuietActions, Zenon
  <2> QED
    BY <1>1, <1>2, <2>2, QuietStepInv, Zenon DEF FamilyInv
<1>5. ASSUME NEW c \in Cpus, NEW p \in Procs,
             \/ SchedulerPick(c, p) \/ sched(c, p) \/ forkret(c, p) \/ Yield(c, p)
             \/ YieldBack(c, p) \/ Exit(c, p) \/ ExitRelease(c, p) \/ WaitStart(c, p)
             \/ SleepAcquire(c, p) \/ SleepBack(c, p) \/ SleepRelock(c, p)
             \/ \E n \in Procs : ForkNoMemory(c, p, n) \/ kill(c, p, n)
      PROVE  FamilyInv'
  <2>1. Runs(c, p) => state[p] = RunState(pc[p])
    BY <1>1, RunnerFacts, Zenon
  <2>2. QuietStep
    BY <1>1, <1>5, <2>1, QuietActions, Zenon
  <2> QED
    BY <1>1, <1>2, <2>2, QuietStepInv, Zenon DEF FamilyInv
<1>6. ASSUME NEW c \in Cpus, NEW p \in Procs, NEW n \in Procs, ForkAlloc(c, p, n)
      PROVE  FamilyInv'
  BY <1>1, <1>2, <1>6, ForkAllocQuiet, QuietStepInv, Zenon DEF FamilyInv
<1>7. ASSUME NEW c \in Cpus, NEW p \in Procs,
             \/ ForkParent(c, p) \/ reparent(c, p) \/ ReparentWakeup(c, p)
             \/ ExitWakeup(c, p) \/ ExitZombie(c, p) \/ WaitScan(c, p) \/ WaitEnd(c, p)
             \/ SleepCommit(c, p) \/ ForkRunnable(c, p) \/ WaitReap(c, p)
      PROVE  FamilyInv'
  BY <1>1, <1>2, <1>7, ForkParentKin, reparentKin, ReparentWakeupKin, ExitWakeupKin,
     ExitZombieKin, WaitScanKin, WaitEndKin, SleepCommitKin, ForkRunnableKin, WaitReapKin, Zenon
     DEF FamilyInv
<1> QED
  BY <1>3, <1>4, <1>5, <1>6, <1>7, NextCases, Zenon

(* The initial state satisfies the invariant.                               *)
LEMMA FamilyInit == Init => FamilyInv
<1> SUFFICES ASSUME Init PROVE FamilyInv
  BY Zenon
<1>1. LockInv
  BY LockInit, Zenon
<1>2. LocalsInv
  BY Zenon DEF Init, LocalsInv
<1>3. InitprocInv
  BY InitprocIsProc, Zenon DEF Init, InitprocInv
<1>4. ParentInv
  BY DEF Init, ParentInv, ForkLinked, NoProc, Procs
<1>5. ScanInv /\ WakeInv /\ PendingWakeInv
  BY Zenon DEF Init, ScanInv, WakeInv, PendingWakeInv, NoProc, Procs
<1> QED
  BY <1>1, <1>2, <1>3, <1>4, <1>5, Zenon DEF FamilyInv, KinInv

(* The locking and family invariant holds in every reachable state.         *)
THEOREM FamilyCorrect == Spec => []FamilyInv
BY FamilyInit, FamilyStep, PTL DEF Spec

(* No wakeup between exit() and wait() is lost.                             *)
THEOREM WakeupCorrect == Spec => []NoLostWakeup
<1>1. FamilyInv => NoLostWakeup
  <2> SUFFICES ASSUME FamilyInv, wait_lock = NoCpu, NEW p \in Procs, NEW q \in Procs,
                      state[p] = "SLEEPING", parent[q] = p, state[q] = "ZOMBIE"
               PROVE  FALSE
    BY Zenon DEF NoLostWakeup
  <2>1. PICK e \in Procs : pc[e] = "wakeup_init"
    BY Zenon DEF FamilyInv, KinInv, PendingWakeInv
  <2>2. PICK d \in Cpus : Runs(d, e)
    BY <2>1, Zenon DEF FamilyInv, LockInv, ParkedInv, ParkedStates
  <2>3. wait_lock = d
    BY <2>1, <2>2, RunnerFacts, Zenon DEF FamilyInv, HoldsWaitLock
  <2> QED
    BY <2>3, ProcAssumption, Zenon
<1> QED
  BY <1>1, FamilyCorrect, PTL

(* exit() and reparent() leave no process without a living parent.          *)
THEOREM ParentCorrect == Spec => []ParentIsAlive
<1>1. FamilyInv => ParentIsAlive
  BY Zenon DEF FamilyInv, KinInv, ParentInv, ParentIsAlive
<1> QED
  BY <1>1, FamilyCorrect, PTL

(* wait() returns "no children" only when there are none.                   *)
THEOREM WaitScanCorrect == Spec => []WaitSeesEveryChild
<1>1. FamilyInv => WaitSeesEveryChild
  <2> SUFFICES ASSUME FamilyInv, NEW p \in Procs, pc[p] = "wait_scan", np[p] = NPROC + 1
               PROVE  havekids[p] <=> Children(p) # {}
    BY Zenon DEF WaitSeesEveryChild
  <2>1. \A q \in Procs : q < np[p]
    BY ProcAssumption DEF Procs
  <2>2. havekids[p] \in BOOLEAN
    BY Zenon DEF FamilyInv, LockInv, TypeOK
  <2> QED
    BY <2>1, <2>2, Zenon DEF FamilyInv, KinInv, ScanInv, Children
<1> QED
  BY <1>1, FamilyCorrect, PTL

(* The panics of sched() are out of reach, and no thread runs past exit().  *)
THEOREM SchedCorrect == Spec => [](SchedNeverPanics /\ ZombieNeverRuns)
<1>1. LockInv => SchedNeverPanics /\ ZombieNeverRuns
  BY RunnerFacts DEF SchedNeverPanics, ZombieNeverRuns, RunState, HoldsProcLock, HoldsWaitLock
<1> QED
  BY <1>1, LockingCorrect, PTL

=============================================================================
