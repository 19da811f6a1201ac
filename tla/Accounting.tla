----------------------------- MODULE Accounting -----------------------------
(***************************************************************************)
(* The FCFS and PBS policies and the times they and waitx() rely on.  The  *)
(* clock interrupt of one CPU walks through proc[] in update_vals() while  *)
(* the scheduler of every CPU scans the same table, each taking one        *)
(* p->lock at a time.  What fork(), exit(), wait() and sleep() do with     *)
(* their other locks is in Proc; here they change states and times.        *)
(***************************************************************************)
EXTENDS Integers, FiniteSets, FiniteSetsExt

CONSTANTS
  NPROC,
  Cpus,
  Cpu0,         \* the CPU whose timer calls clockintr()
  Args,         \* bound: arguments of set_priority()
  MaxPid,       \* bound: pids given out
  MaxTicks,     \* bound: clock ticks
  MaxRuns       \* bound: sum of nrun over the table (PBS)

ASSUME AccountingAssumption ==
  /\ NPROC \in Nat /\ NPROC >= 1
  /\ Cpu0 \in Cpus
  /\ Args \subseteq Nat \ {0}
  /\ MaxPid \in Nat /\ MaxTicks \in Nat /\ MaxRuns \in Nat

VARIABLES
  policy,       \* which of the two builds it is
  ticks,
  clock,        \* slot that update_vals() is at, 0 outside of clockintr()
  raw,          \* update_vals() holds the lock and has yet to clamp priority
  nextpid,
  state, pid, parent,
  acct,         \* acct[p]: the times and priorities of struct proc
  at,           \* what each CPU executes
  pos, temp,    \* scheduler(): loop variable and candidate; fork(): np
  running,      \* c->proc
  steady        \* during a scan of c: slots RUNNABLE and unchanged since it began

procVars == <<nextpid, state, pid, parent, acct>>
cpuVars == <<at, pos, temp, running>>
vars == <<policy, ticks, clock, raw, procVars, cpuVars, steady>>

Procs == 1..NPROC
Init1 == 1      \* initproc
None == 0

States == {"UNUSED", "USED", "SLEEPING", "RUNNABLE", "RUNNING", "ZOMBIE"}

(* What allocproc() sets, at time t, and what freeproc() leaves. *)
Fresh(t) ==
  [ctime |-> t, etime |-> 0, stime |-> 0, rtime |-> 0, rtime_whole |-> 0,
   spriority |-> 60, priority |-> 60, niceness |-> 5, nrun |-> 0]

Freed(a) ==
  [a EXCEPT !.ctime = 0, !.stime = 0, !.rtime = 0, !.rtime_whole = 0,
            !.spriority = 0, !.priority = 0, !.niceness = 0, !.nrun = 0]

Blank == [Freed(Fresh(0)) EXCEPT !.etime = 0]

(* After userinit(). *)
Init ==
  /\ policy \in {"FCFS", "PBS"}
  /\ ticks = 0 /\ clock = 0 /\ raw = FALSE
  /\ nextpid = 2
  /\ state = [p \in Procs |-> IF p = Init1 THEN "RUNNABLE" ELSE "UNUSED"]
  /\ pid = [p \in Procs |-> IF p = Init1 THEN 1 ELSE 0]
  /\ parent = [p \in Procs |-> None]
  /\ acct = [p \in Procs |-> IF p = Init1 THEN Fresh(0) ELSE Blank]
  /\ at = [c \in Cpus |-> "scan"]
  /\ pos = [c \in Cpus |-> 1]
  /\ temp = [c \in Cpus |-> None]
  /\ running = [c \in Cpus |-> None]
  /\ steady = [c \in Cpus |-> {}]

-----------------------------------------------------------------------------
(* update_vals() keeps the lock of the slot it is at between its two steps; *)
(* the thread it interrupted waits for it.                                  *)
Unlocked(p) == ~(raw /\ clock = p)
Free(c) == c = Cpu0 => clock = 0

(* A scan under way may have seen other values of p. *)
Disturb(p) ==
  IF acct'[p].priority = acct[p].priority /\ state'[p] = state[p] THEN UNCHANGED steady
  ELSE steady' = [c \in Cpus |-> steady[c] \ {p}]

Running(c, p) == Free(c) /\ at[c] = "run" /\ running[c] = p

(* The process on c has changed its state and swtch()es to scheduler(). *)
Resched(c) ==
  /\ at' = [at EXCEPT ![c] = "scan"]
  /\ pos' = [pos EXCEPT ![c] = 1]
  /\ temp' = [temp EXCEPT ![c] = None]
  /\ running' = [running EXCEPT ![c] = None]

-----------------------------------------------------------------------------
(* clockintr() and update_vals() *)

ClockInterrupt ==
  /\ clock = 0
  /\ ticks < MaxTicks
  /\ ticks' = ticks + 1
  /\ clock' = 1
  /\ UNCHANGED <<policy, raw, procVars, cpuVars, steady>>

Counted(s, a) ==
  IF s = "RUNNING" THEN [a EXCEPT !.rtime = @ + 1, !.rtime_whole = @ + 1]
  ELSE IF s = "SLEEPING" THEN [a EXCEPT !.stime = @ + 1]
  ELSE a

Niceness(a) ==
  IF a.rtime # 0 \/ a.stime # 0 THEN (a.stime * 10) \div (a.stime + a.rtime)
  ELSE a.niceness

UpdateTimes ==
  /\ clock # 0 /\ ~raw
  /\ raw' = TRUE
  /\ LET a == Counted(state[clock], acct[clock])
         nice == Niceness(a)
     IN  acct' = [acct EXCEPT ![clock] =
                    [a EXCEPT !.niceness = nice, !.priority = a.spriority - nice + 5]]
  /\ UNCHANGED <<policy, ticks, clock, nextpid, state, pid, parent, cpuVars>>
  /\ Disturb(clock)

Clamp(v) == IF v < 0 THEN 0 ELSE IF v > 100 THEN 100 ELSE v

ClampPriority ==
  /\ raw
  /\ raw' = FALSE
  /\ clock' = IF clock = NPROC THEN 0 ELSE clock + 1
  /\ acct' = [acct EXCEPT ![clock].priority = Clamp(@)]
  /\ UNCHANGED <<policy, ticks, nextpid, state, pid, parent, cpuVars>>
  /\ Disturb(clock)

-----------------------------------------------------------------------------
(* scheduler() *)

(* Mutant: nrun is compared whatever the priorities are. *)
Better_NrunFirst(t, p) ==
  \/ t = None
  \/ /\ policy = "FCFS"
     /\ acct[t].ctime > acct[p].ctime
  \/ /\ policy = "PBS"
     /\ \/ acct[t].priority > acct[p].priority
        \/ acct[t].nrun > acct[p].nrun
        \/ acct[t].priority = acct[p].priority /\ acct[t].ctime > acct[p].ctime

(* p replaces the candidate t; the fields of t are read without its lock. *)
Better(t, p) ==
  \/ t = None
  \/ /\ policy = "FCFS"
     /\ acct[t].ctime > acct[p].ctime
  \/ /\ policy = "PBS"
     /\ \/ acct[t].priority > acct[p].priority
        \/ acct[t].priority = acct[p].priority /\ acct[t].nrun > acct[p].nrun
        \/ acct[t].priority = acct[p].priority /\ acct[t].ctime > acct[p].ctime

RunnableSlots == {p \in Procs : state[p] = "RUNNABLE"}

ScanSlot(c) ==
  LET p == pos[c] IN
  /\ Free(c) /\ at[c] = "scan"
  /\ Unlocked(p)
  /\ temp' = [temp EXCEPT ![c] = IF state[p] = "RUNNABLE" /\ Better(@, p) THEN p ELSE @]
  /\ IF p = NPROC THEN at' = [at EXCEPT ![c] = "pick"] /\ pos' = [pos EXCEPT ![c] = 1]
     ELSE pos' = [pos EXCEPT ![c] = p + 1] /\ UNCHANGED at
  /\ steady' = IF p = 1 THEN [steady EXCEPT ![c] = RunnableSlots] ELSE steady
  /\ UNCHANGED <<policy, ticks, clock, raw, procVars, running>>

(* No candidate, or it is no longer RUNNABLE. *)
PickNothing(c) ==
  /\ Free(c) /\ at[c] = "pick"
  /\ temp[c] # None => Unlocked(temp[c]) /\ state[temp[c]] # "RUNNABLE"
  /\ Resched(c)
  /\ steady' = [steady EXCEPT ![c] = {}]
  /\ UNCHANGED <<policy, ticks, clock, raw, procVars>>

Scheduled(a) ==
  IF policy = "PBS"
  THEN [a EXCEPT !.stime = 0, !.rtime = 0, !.niceness = 5, !.nrun = @ + 1]
  ELSE a

RunsOfAll == MapThenSumSet(LAMBDA q : acct[q].nrun, Procs)

Pick(c) ==
  LET p == temp[c] IN
  /\ Free(c) /\ at[c] = "pick"
  /\ p # None
  /\ Unlocked(p) /\ state[p] = "RUNNABLE"
  /\ RunsOfAll < MaxRuns
  /\ state' = [state EXCEPT ![p] = "RUNNING"]
  /\ acct' = [acct EXCEPT ![p] = Scheduled(@)]
  /\ at' = [at EXCEPT ![c] = "run"]
  /\ running' = [running EXCEPT ![c] = p]
  /\ temp' = [temp EXCEPT ![c] = None]
  /\ steady' = [d \in Cpus |-> IF d = c THEN {} ELSE steady[d] \ {p}]
  /\ UNCHANGED <<policy, ticks, clock, raw, nextpid, pid, parent, pos>>

-----------------------------------------------------------------------------
(* The process on c. *)

(* fork() to the release of np->lock after allocproc() and the copies. *)
ForkAlloc(c, p) ==
  LET unused == {q \in Procs : state[q] = "UNUSED"} IN
  /\ Running(c, p)
  /\ unused # {} /\ nextpid <= MaxPid
  /\ LET q == Min(unused) IN
     /\ Unlocked(q)
     /\ state' = [state EXCEPT ![q] = "USED"]
     /\ pid' = [pid EXCEPT ![q] = nextpid]
     /\ parent' = [parent EXCEPT ![q] = p]
     /\ acct' = [acct EXCEPT ![q] = Fresh(ticks)]
     /\ temp' = [temp EXCEPT ![c] = q]
     /\ Disturb(q)
  /\ nextpid' = nextpid + 1
  /\ at' = [at EXCEPT ![c] = "fork"]
  /\ UNCHANGED <<policy, ticks, clock, raw, pos, running>>

ForkRunnable(c) ==
  /\ Free(c) /\ at[c] = "fork"
  /\ Unlocked(temp[c])
  /\ state' = [state EXCEPT ![temp[c]] = "RUNNABLE"]
  /\ at' = [at EXCEPT ![c] = "run"]
  /\ temp' = [temp EXCEPT ![c] = None]
  /\ UNCHANGED <<policy, ticks, clock, raw, nextpid, pid, parent, acct, pos, running, steady>>

Sleep(c, p) ==
  /\ Running(c, p) /\ Unlocked(p)
  /\ state' = [state EXCEPT ![p] = "SLEEPING"]
  /\ Resched(c)
  /\ UNCHANGED <<policy, ticks, clock, raw, nextpid, pid, parent, acct, steady>>

(* wakeup() of another process or an interrupt. *)
Wakeup(p) ==
  /\ \E c \in Cpus : Free(c)
  /\ Unlocked(p)
  /\ state[p] = "SLEEPING"
  /\ state' = [state EXCEPT ![p] = "RUNNABLE"]
  /\ UNCHANGED <<policy, ticks, clock, raw, nextpid, pid, parent, acct, cpuVars, steady>>

(* Mutant: the end of the process is not recorded. *)
Exit_NoEtime(c, p) ==
  /\ Running(c, p) /\ p # Init1 /\ Unlocked(p)
  /\ parent' = [q \in Procs |-> IF parent[q] = p THEN Init1 ELSE parent[q]]
  /\ state' = [state EXCEPT ![p] = "ZOMBIE"]
  /\ Resched(c)
  /\ UNCHANGED <<policy, ticks, clock, raw, nextpid, pid, acct, steady>>

Exit(c, p) ==
  /\ Running(c, p) /\ p # Init1 /\ Unlocked(p)
  /\ parent' = [q \in Procs |-> IF parent[q] = p THEN Init1 ELSE parent[q]]
  /\ state' = [state EXCEPT ![p] = "ZOMBIE"]
  /\ acct' = [acct EXCEPT ![p].etime = ticks]
  /\ Resched(c)
  /\ UNCHANGED <<policy, ticks, clock, raw, nextpid, pid, steady>>

(* waitx() that finds the ZOMBIE child z. *)
waitx(c, p, z) ==
  /\ Running(c, p)
  /\ state[z] = "ZOMBIE" /\ parent[z] = p /\ Unlocked(z)
  /\ state' = [state EXCEPT ![z] = "UNUSED"]
  /\ pid' = [pid EXCEPT ![z] = 0]
  /\ parent' = [parent EXCEPT ![z] = None]
  /\ acct' = [acct EXCEPT ![z] = Freed(@)]
  /\ UNCHANGED <<policy, ticks, clock, raw, nextpid, cpuVars, steady>>

(* sys_set_priority() and priority_updater(): both arguments are read with  *)
(* argint(0), so that target is not looked at.  prio # 0: a pid.            *)
set_priority(c, p, prio, target) ==
  LET hit == {q \in Procs : pid[q] = prio} IN
  /\ Running(c, p)
  /\ \A q \in hit : Unlocked(q)
  /\ acct' = [q \in Procs |->
                IF q \in hit THEN [acct[q] EXCEPT !.spriority = prio, !.niceness = 5]
                ELSE acct[q]]
  /\ at' = [at EXCEPT ![c] = IF \E q \in hit : acct[q].spriority > prio THEN "yield" ELSE "run"]
  /\ UNCHANGED <<policy, ticks, clock, raw, nextpid, state, pid, parent, pos, temp, running, steady>>

(* yield() at the end of priority_updater(). *)
Yield(c) ==
  /\ Free(c) /\ at[c] = "yield" /\ Unlocked(running[c])
  /\ state' = [state EXCEPT ![running[c]] = "RUNNABLE"]
  /\ Resched(c)
  /\ UNCHANGED <<policy, ticks, clock, raw, nextpid, pid, parent, acct, steady>>

-----------------------------------------------------------------------------

Next ==
  \/ ClockInterrupt \/ UpdateTimes \/ ClampPriority
  \/ \E p \in Procs : Wakeup(p)
  \/ \E c \in Cpus :
       \/ ScanSlot(c) \/ PickNothing(c) \/ Pick(c) \/ ForkRunnable(c) \/ Yield(c)
       \/ \E p \in Procs :
            \/ ForkAlloc(c, p) \/ Sleep(c, p) \/ Exit(c, p)
            \/ \E z \in Procs : waitx(c, p, z)
            \/ \E prio, target \in Args : set_priority(c, p, prio, target)

Spec == Init /\ [][Next]_vars

-----------------------------------------------------------------------------
(* Properties. *)

(* Every variable has its type; outside of update_vals() a priority is      *)
(* between 0 and 100 and a niceness between 0 and 10.                       *)
TypeOK ==
  /\ ticks \in 0..MaxTicks
  /\ clock \in 0..NPROC
  /\ state \in [Procs -> States]
  /\ \A p \in Procs :
       /\ acct[p].niceness \in 0..10
       /\ Unlocked(p) => acct[p].priority \in 0..100
  /\ \A c \in Cpus : temp[c] \in 0..NPROC /\ running[c] \in 0..NPROC

(* The process that scheduler() takes beats every other one that waited,    *)
(* unchanged, during the whole scan: it is the oldest (FCFS) or of the best *)
(* priority (PBS), whatever the clock and the other CPUs did meanwhile.     *)
PicksTheBest ==
  [][\A c \in Cpus :
       Pick(c) /\ temp[c] \in steady[c] =>
         \A q \in steady[c] :
           IF policy = "FCFS" THEN acct[temp[c]].ctime <= acct[q].ctime
           ELSE acct[temp[c]].priority <= acct[q].priority]_vars

(* The run time that waitx() reports exceeds the life time by at most one   *)
(* tick: the one during which the process was created.                      *)
RunTimeIsReal ==
  \A p \in Procs : state[p] = "ZOMBIE" =>
    acct[p].rtime_whole <= acct[p].etime - acct[p].ctime + 1

(* set_priority(priority, pid) gives the process of that pid that priority. *)
SetsThePriority ==
  [][\A c \in Cpus, p \in Procs, prio, target \in Args :
       set_priority(c, p, prio, target) =>
         \A q \in Procs : pid[q] = target => acct'[q].spriority = prio]_vars
=============================================================================
