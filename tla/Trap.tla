-------------------------------- MODULE Trap --------------------------------
(***************************************************************************)
(* kernel/trap.c, kernel/trampoline.S, kernel/kernelvec.S and              *)
(* kernel/spinlock.c, with sched(), sleep() and the DEFAULT scheduler of   *)
(* kernel/proc.c and sys_sleep() of kernel/sysproc.c: how traps nest with  *)
(* locks and context switches when a thread can leave one hart in the      *)
(* middle of a trap and come back on another.                              *)
(*                                                                         *)
(* A context is a thread or the scheduler of a hart (named by the hart).   *)
(* Where it is stands for its stack and kernel registers, except for what  *)
(* swtch() and the trap code treat on their own: tp, the trap registers of *)
(* the hart, the user's registers, and noff and intena of struct cpu.  A   *)
(* timer interrupt may be pending at any time.                             *)
(***************************************************************************)
EXTENDS Naturals, FiniteSets

CONSTANTS NCPU, Threads

Harts == 0..NCPU - 1
Locks == Threads \cup {"tickslock"}   \* p->lock of a thread is named by it
VARIABLES hart,      \* registers of each hart, and the context it executes
          cpu,       \* struct cpu: noff, intena
          ctx,       \* each context: where it is, and its trap on the stack
          proc,      \* each thread's struct proc, trapframe and user program
          lock,      \* the cpu recorded in a lock that is held, or NoCpu
          panicked

trapVars == <<hart, cpu, ctx, proc, lock, panicked>>

NoCpu == NCPU

ASSUME TrapAssumption ==
  /\ NCPU \in Nat \ {0}
  /\ Threads \cap 0..NCPU = {} /\ "tickslock" \notin Threads /\ "none" \notin Threads

NoTrap == [at |-> "none", sepc |-> "none", spp |-> "U", spie |-> FALSE, tp |-> 0]

TrapInit ==
  /\ hart = [c \in Harts |-> [sie |-> FALSE, spie |-> FALSE, spp |-> "S", sepc |-> "none",
                              stvec |-> "kernelvec", tp |-> c, regs |-> "kernel", run |-> c]]
  /\ cpu = [c \in Harts |-> [noff |-> 0, intena |-> FALSE]]
  /\ ctx = [x \in Threads \cup Harts |->
              [pc |-> IF x \in Threads THEN "forkret" ELSE "top", lk |-> "none", then |-> "none",
               trap |-> NoTrap, intena |-> FALSE, todo |-> {}]]
  /\ proc = [t \in Threads |->
               [state |-> "RUNNABLE", epc |-> "user", hartid |-> 0, regs |-> t, cause |-> "none"]]
  /\ lock = [l \in Locks |-> NoCpu]
  /\ panicked = "no"

(***************************************************************************)
(* Spin locks.  x is the context on hart c, q where it goes on.            *)
(***************************************************************************)
Run(c) == hart[c].run
Tp(c) == hart[c].tp
At(c, q) == panicked = "no" /\ ctx[Run(c)].pc = q
Goto(c, q) == ctx' = [ctx EXCEPT ![Run(c)].pc = q]

Panic(s) == panicked' = s /\ UNCHANGED <<hart, cpu, ctx, proc, lock>>

(* Mutant: interrupts stay as they are. *)
push_off_None(c) == /\ cpu' = [cpu EXCEPT ![Tp(c)].noff = @ + 1]
                    /\ UNCHANGED hart

push_off(c) ==
  /\ hart' = [hart EXCEPT ![c].sie = FALSE]
  /\ cpu' = [cpu EXCEPT ![Tp(c)] = [noff |-> @.noff + 1, intena |-> IF @.noff = 0 THEN hart[c].sie ELSE @.intena]]

(* The hart after pop_off, when struct cpu is k. *)
pop_off(c, k) ==
  /\ hart' = [hart EXCEPT ![c].sie = @ \/ (k.noff = 1 /\ k.intena)]
  /\ cpu' = [cpu EXCEPT ![Tp(c)] = [k EXCEPT !.noff = @ - 1]]

(* acquire(l): interrupts off, then spin; then stands for the code after it. *)
Acquire(c, l, then) ==
  IF lock[l] = Tp(c) THEN Panic("acquire")
  ELSE /\ push_off(c)
       /\ ctx' = [ctx EXCEPT ![Run(c)].pc = "spin", ![Run(c)].lk = l, ![Run(c)].then = then,
                            ![Run(c)].todo = IF then = "clockintr" THEN Threads ELSE {}]
       /\ UNCHANGED <<proc, lock, panicked>>

Spin(c) ==
  LET k == ctx[Run(c)]
  IN /\ At(c, "spin") /\ lock[k.lk] = NoCpu
     /\ lock' = [lock EXCEPT ![k.lk] = Tp(c)]
     /\ ctx' = [ctx EXCEPT ![Run(c)].pc = k.then, ![Run(c)].then = "none"]
     /\ UNCHANGED <<hart, cpu, proc, panicked>>

(* release(l) when struct cpu is k, and the panics of release and pop_off. *)
Release(c, l, k, q) ==
  IF lock[l] # Tp(c) \/ hart[c].sie \/ k.noff < 1 THEN Panic("release")
  ELSE /\ lock' = [lock EXCEPT ![l] = NoCpu]
       /\ pop_off(c, k)
       /\ ctx' = [ctx EXCEPT ![Run(c)].pc = q, ![Run(c)].lk = "none", ![Run(c)].intena = FALSE]
       /\ UNCHANGED <<proc, panicked>>

(***************************************************************************)
(* Leaving a hart and coming back to one.                                   *)
(***************************************************************************)
(* The trap registers, which no one may count on once the hart has returned  *)
(* from its trap or executes another context: they hold no address.         *)
Forgotten(c) == [hart[c] EXCEPT !.spie = TRUE, !.spp = "U", !.sepc = "none"]

(* sched() with struct cpu k, in a thread that is in state s from now on    *)
(* and goes on at q when it is chosen again; lk is the lock as sched() sees *)
(* it.  swtch() runs the scheduler of mycpu().                              *)
Sched(c, s, q, k, lk) ==
  LET t == Run(c)
  IN IF lk[t] # Tp(c) \/ k.noff # 1 \/ hart[c].sie THEN Panic("sched")
     ELSE /\ proc' = [proc EXCEPT ![t].state = s]
          /\ ctx' = [ctx EXCEPT ![t].pc = q, ![t].lk = "none", ![t].intena = k.intena]
          /\ hart' = [hart EXCEPT ![c] = [Forgotten(c) EXCEPT !.run = Tp(c)]]
          /\ cpu' = [cpu EXCEPT ![Tp(c)] = k]
          /\ lock' = lk
          /\ UNCHANGED panicked

(* Mutant: intena is left as the scheduler had it. *)
Resumed_Stale(c) == cpu[Tp(c)]

(* What sched() does when it returns: intena is the thread's. *)
Resumed(c) == [cpu[Tp(c)] EXCEPT !.intena = ctx[Run(c)].intena]

(***************************************************************************)
(* scheduler()                                                             *)
(***************************************************************************)
Loop(c) ==
  /\ At(c, "top")
  /\ hart' = [hart EXCEPT ![c].sie = TRUE]
  /\ Goto(c, "scan")
  /\ UNCHANGED <<cpu, proc, lock, panicked>>

Look(c, t) == At(c, "scan") /\ Acquire(c, t, "picked")

Looked(c) ==
  /\ At(c, "scan")
  /\ Goto(c, "top")
  /\ UNCHANGED <<hart, cpu, proc, lock, panicked>>

(* swtch() to a runnable process; the scheduler goes on at "back". *)
Switch(c) ==
  LET t == ctx[Run(c)].lk
  IN /\ At(c, "picked") /\ proc[t].state = "RUNNABLE"
     /\ proc' = [proc EXCEPT ![t].state = "RUNNING"]
     /\ hart' = [hart EXCEPT ![c].run = t]
     /\ Goto(c, "back")
     /\ UNCHANGED <<cpu, lock, panicked>>

Back(c) ==
  LET t == ctx[Run(c)].lk
  IN /\ At(c, "back") \/ (At(c, "picked") /\ proc[t].state # "RUNNABLE")
     /\ Release(c, t, cpu[Tp(c)], "scan")

(***************************************************************************)
(* Traps.                                                                   *)
(***************************************************************************)
(* Where user code goes on that trapped at "user": behind a system call. *)
After(cause) == IF cause = "ecall" THEN "next" ELSE "user"

(* The hart takes a trap from user code, and uservec saves the user's       *)
(* registers and takes tp from the trapframe.                               *)
UserTrap(c, cause) ==
  LET t == Run(c)
  IN /\ At(c, "user")
     /\ hart' = [hart EXCEPT ![c].sepc = "user", ![c].spp = "U", ![c].spie = hart[c].sie, ![c].sie = FALSE,
                             ![c].tp = proc[t].hartid, ![c].regs = "kernel"]
     /\ proc' = [proc EXCEPT ![t].regs = hart[c].regs, ![t].cause = cause]
     /\ IF hart[c].stvec = "uservec" THEN Goto(c, "usertrap") /\ UNCHANGED panicked
        ELSE panicked' = "kernelvec in user mode" /\ UNCHANGED ctx
     /\ UNCHANGED <<cpu, lock>>

(* usertrap: a system call turns interrupts on, an interrupt is a timer's.  *)
usertrap(c) ==
  LET t == Run(c)
      call == proc[t].cause = "ecall"
  IN /\ At(c, "usertrap")
     /\ IF hart[c].spp # "U" THEN Panic("usertrap")
        ELSE /\ proc' = [proc EXCEPT ![t].epc = IF call THEN After("ecall") ELSE hart[c].sepc]
             /\ hart' = [hart EXCEPT ![c].stvec = "kernelvec", ![c].sie = call]
             /\ Goto(c, IF call THEN "syscall" ELSE "devintr")
             /\ UNCHANGED <<cpu, lock, panicked>>

(* An interrupt in the kernel: the hart and kernelvec save where it was, and *)
(* kerneltrap the trap registers.                                           *)
kerneltrap(c) ==
  LET x == Run(c)
      at == ctx[x].pc
  IN /\ panicked = "no" /\ at # "user" /\ hart[c].sie
     /\ IF hart[c].stvec # "kernelvec" THEN Panic("uservec in the kernel")
        ELSE /\ hart' = [hart EXCEPT ![c].sepc = at, ![c].spp = "S", ![c].spie = TRUE, ![c].sie = FALSE]
             /\ ctx' = [ctx EXCEPT ![x].pc = "devintr",
                          ![x].trap = [at |-> at, sepc |-> at, spp |-> "S", spie |-> TRUE, tp |-> Tp(c)]]
             /\ UNCHANGED <<cpu, proc, lock, panicked>>

(* After devintr a running process yields; the scheduler just goes on. *)
Acked(c) == IF \E t \in Threads : t = Run(c) /\ proc[t].state = "RUNNING" THEN "yield" ELSE "kernelret"

(* devintr: hart 0 keeps the time, under tickslock. *)
devintr(c) ==
  /\ At(c, "devintr")
  /\ IF Tp(c) = 0 THEN Acquire(c, "tickslock", "clockintr")
     ELSE Goto(c, Acked(c)) /\ UNCHANGED <<hart, cpu, proc, lock, panicked>>

(* In clockintr update_vals and wakeup(&ticks) take the lock of each process *)
(* for a while.                                                             *)
clockintr(c, t) ==
  /\ At(c, "clockintr") /\ t \in ctx[Run(c)].todo
  /\ IF lock[t] = Tp(c) THEN Panic("acquire")
     ELSE /\ lock[t] = NoCpu
          /\ proc' = [proc EXCEPT ![t].state = IF @ = "SLEEPING" THEN "RUNNABLE" ELSE @]
          /\ ctx' = [ctx EXCEPT ![Run(c)].todo = @ \ {t}]
          /\ UNCHANGED <<hart, cpu, lock, panicked>>

Ticked(c) ==
  /\ At(c, "clockintr") /\ ctx[Run(c)].todo = {}
  /\ Release(c, "tickslock", cpu[Tp(c)], Acked(c))

yield(c) == At(c, "yield") /\ Acquire(c, Run(c), "yielding")

Yielding(c) == At(c, "yielding") /\ Sched(c, "RUNNABLE", "yielded", cpu[Tp(c)], lock)

Yielded(c) ==
  LET inKernel == ctx[Run(c)].trap # NoTrap
  IN At(c, "yielded") /\ Release(c, Run(c), Resumed(c), IF inKernel THEN "kernelret" ELSE "usertrapret")

(* A process that never ran begins here, with its lock held by the scheduler. *)
forkret(c) == At(c, "forkret") /\ Release(c, Run(c), cpu[Tp(c)], "usertrapret")

(* The end of kerneltrap: w_sepc and w_sstatus. *)
kernelret(c) ==
  LET f == ctx[Run(c)].trap
  IN /\ At(c, "kernelret")
     /\ hart' = [hart EXCEPT ![c].sepc = f.sepc, ![c].spp = f.spp, ![c].spie = f.spie, ![c].sie = FALSE]
     /\ Goto(c, "sret")
     /\ UNCHANGED <<cpu, proc, lock, panicked>>

(* Mutant: kernelvec restores tp with the other registers. *)
KernelTp_Saved(c) == ctx[Run(c)].trap.tp

(* tp stays as it is, "in case we moved CPUs". *)
KernelTp(c) == Tp(c)

(* What the sret instruction does. *)
Returned(c) == [Forgotten(c) EXCEPT !.sie = hart[c].spie]

(* The end of kernelvec. *)
sret(c) ==
  /\ At(c, "sret")
  /\ hart' = [hart EXCEPT ![c] = [Returned(c) EXCEPT !.tp = KernelTp(c)]]
  /\ ctx' = [ctx EXCEPT ![Run(c)].pc = hart[c].sepc, ![Run(c)].trap = NoTrap]
  /\ UNCHANGED <<cpu, proc, lock, panicked>>

(* usertrapret, with interrupts off; userret restores the user's registers. *)
usertrapret(c) ==
  LET t == Run(c)
  IN /\ At(c, "usertrapret")
     /\ hart' = [hart EXCEPT ![c].sie = FALSE, ![c].stvec = "uservec", ![c].spp = "U", ![c].spie = TRUE,
                             ![c].sepc = proc[t].epc]
     /\ proc' = [proc EXCEPT ![t].hartid = Tp(c)]
     /\ Goto(c, "userret")
     /\ UNCHANGED <<cpu, lock, panicked>>

userret(c) ==
  LET t == Run(c)
  IN /\ At(c, "userret")
     /\ hart' = [hart EXCEPT ![c] = [Returned(c) EXCEPT !.regs = proc[t].regs]]
     /\ proc' = [proc EXCEPT ![t].cause = "none"]
     /\ Goto(c, "user")
     /\ UNCHANGED <<cpu, lock, panicked>>

(***************************************************************************)
(* System calls: sys_sleep for a tick, and any that comes back at once.     *)
(***************************************************************************)
SysReturn(c) ==
  /\ At(c, "syscall")
  /\ Goto(c, "usertrapret")
  /\ UNCHANGED <<hart, cpu, proc, lock, panicked>>

sys_sleep(c) == At(c, "syscall") /\ Acquire(c, "tickslock", "while")

(* The loop's test: ticks - ticks0 and n are left open. *)
SleepEnd(c) == At(c, "while") /\ Release(c, "tickslock", cpu[Tp(c)], "usertrapret")

sleep(c) == At(c, "while") /\ Acquire(c, Run(c), "sleep")

(* release(lk) under p->lock, then sched(). *)
Sleeping(c) ==
  LET k == cpu[Tp(c)]
  IN /\ At(c, "sleep")
     /\ IF lock["tickslock"] # Tp(c) \/ k.noff < 2 THEN Panic("release")
        ELSE Sched(c, "SLEEPING", "slept", [k EXCEPT !.noff = @ - 1], [lock EXCEPT !["tickslock"] = NoCpu])

Slept(c) == At(c, "slept") /\ Release(c, Run(c), Resumed(c), "reacquire")

Reacquire(c) == At(c, "reacquire") /\ Acquire(c, "tickslock", "while")

Scheduler(c) == Loop(c) \/ Looked(c) \/ Switch(c) \/ Back(c) \/ (\E t \in Threads : Look(c, t))
Interrupt(c) ==
  \/ kerneltrap(c) \/ devintr(c) \/ (\E t \in Threads : clockintr(c, t)) \/ Ticked(c)
  \/ yield(c) \/ Yielding(c) \/ Yielded(c) \/ kernelret(c) \/ sret(c)
User(c) ==
  \/ \E cause \in {"ecall", "timer"} : UserTrap(c, cause)
  \/ usertrap(c) \/ usertrapret(c) \/ userret(c) \/ forkret(c)
Syscall(c) ==
  SysReturn(c) \/ sys_sleep(c) \/ SleepEnd(c) \/ sleep(c) \/ Sleeping(c) \/ Slept(c) \/ Reacquire(c)

TrapNext == \E c \in Harts : Spin(c) \/ Scheduler(c) \/ Interrupt(c) \/ User(c) \/ Syscall(c)

TrapSpec == TrapInit /\ [][TrapNext]_trapVars

(***************************************************************************)
(* Properties.                                                             *)
(***************************************************************************)
(* None of the panics of acquire, release, pop_off, sched and usertrap      *)
(* happens, and no trap arrives at the vector for the other mode.           *)
TrapsNeverPanic == panicked = "no"

(* kerneltrap and usertrapret: a trap returns to where it was taken, with    *)
(* interrupts as they were, the user's registers are the process's own and  *)
(* tp is the hart, whatever switches and traps came in between.             *)
TrapsReturnExactly ==
  \A c \in Harts :
    /\ At(c, "sret") => /\ hart[c].sepc = ctx[Run(c)].trap.at /\ hart[c].spp = "S"
                        /\ hart[c].spie /\ ~hart[c].sie
    /\ At(c, "userret") => hart[c].sepc = After(proc[Run(c)].cause) /\ hart[c].spp = "U" /\ ~hart[c].sie
    /\ At(c, "user") => hart[c].regs = Run(c) /\ hart[c].sie
    /\ ~At(c, "user") /\ panicked = "no" => Tp(c) = c

(* push_off and pop_off: a cpu's noff counts the locks it holds and the one  *)
(* it spins for, interrupts are off as long as it is not zero, and code of   *)
(* a system call outside every lock and trap has them on.                   *)
InterruptsBalanced ==
  \A c \in Harts :
    LET held == {l \in Locks : lock[l] = c} \cup {l \in Locks : At(c, "spin") /\ ctx[Run(c)].lk = l}
    IN panicked = "no" =>
         /\ cpu[c].noff = Cardinality(held)
         /\ held # {} => ~hart[c].sie
         /\ ctx[Run(c)].pc \in {"syscall", "reacquire"} => hart[c].sie

(***************************************************************************)
(* The inductive invariant: what is true at each point of a context.       *)
(***************************************************************************)
(* Where a context is, or will be when it has the lock it spins for. *)
Point(k) == IF k.pc = "spin" THEN k.then ELSE k.pc

(* Points of kernel code where interrupts may be on, and can come in. *)
SchedulerHome == {"top", "scan"}
ThreadHome == {"syscall", "reacquire", "usertrapret"}
Home(x) == IF x \in Threads THEN ThreadHome ELSE SchedulerHome

(* The locks of context x there. *)
OneLock == {"picked", "back", "forkret", "yielding", "yielded", "slept", "clockintr", "while"}
LocksAt(x, k) ==
  IF Point(k) \in {"picked", "back"} THEN {k.lk}
  ELSE IF Point(k) \in {"forkret", "yielding", "yielded", "slept"} THEN {x}
  ELSE IF Point(k) \in {"clockintr", "while"} THEN {"tickslock"}
  ELSE IF Point(k) = "sleep" THEN {"tickslock", x}
  ELSE {}
HeldAt(x, k) == IF k.pc = "spin" THEN LocksAt(x, k) \ {k.lk} ELSE LocksAt(x, k)

(* Points of a trap, from its entry to its end. *)
SchedulerTrap == {"devintr", "clockintr", "kernelret", "sret"}
ThreadTrap == SchedulerTrap \cup {"yield", "yielding", "yielded"}
SchedulerAts == SchedulerHome \cup SchedulerTrap \cup {"picked", "back"}
ThreadAts ==
  ThreadHome \cup ThreadTrap \cup {"forkret", "user", "usertrap", "userret", "while", "sleep", "slept"}
Ats == SchedulerAts \cup ThreadAts \cup {"spin", "next", "none"}

HartType ==
  [sie : BOOLEAN, spie : BOOLEAN, spp : {"U", "S"}, sepc : Ats, stvec : {"uservec", "kernelvec"},
   tp : Harts, regs : Threads \cup {"kernel"}, run : Threads \cup Harts]
FrameType == [at : Ats, sepc : Ats, spp : {"U", "S"}, spie : BOOLEAN, tp : Harts]
ContextType ==
  [pc : Ats, lk : Locks \cup {"none"}, then : Ats, trap : FrameType, intena : BOOLEAN, todo : SUBSET Threads]
ProcType ==
  [state : {"RUNNABLE", "RUNNING", "SLEEPING"}, epc : Ats, hartid : Harts,
   regs : Threads \cup {"kernel"}, cause : {"none", "ecall", "timer"}]

(* Every variable has its type. *)
TrapTypeOK ==
  /\ hart \in [Harts -> HartType]
  /\ cpu \in [Harts -> [noff : Nat, intena : BOOLEAN]]
  /\ ctx \in [Threads \cup Harts -> ContextType]
  /\ proc \in [Threads -> ProcType]
  /\ lock \in [Locks -> Harts \cup {NoCpu}]

(* A context knows the lock it wants, and a trap on its stack is one of the *)
(* kernel, taken where interrupts may be on.                                *)
ContextInv(x) ==
  LET k == ctx[x]
  IN /\ Point(k) \in IF x \in Threads THEN ThreadAts ELSE SchedulerAts
     /\ k.pc = "spin" => Point(k) \in {"picked", "clockintr", "yielding", "while", "sleep"}
     /\ Point(k) \in {"picked", "back"} => k.lk \in Threads
     /\ k.pc = "spin" /\ Point(k) \in {"clockintr", "while"} => k.lk = "tickslock"
     /\ k.pc = "spin" /\ Point(k) \in {"yielding", "sleep"} => k.lk = x
     /\ k.trap # NoTrap =>
          /\ Point(k) \in IF x \in Threads THEN ThreadTrap ELSE SchedulerTrap
          /\ k.trap.at \in Home(x) /\ k.trap.sepc = k.trap.at /\ k.trap.spp = "S" /\ k.trap.spie
     /\ k.trap = NoTrap => Point(k) \notin IF x \in Threads THEN {"kernelret", "sret"} ELSE SchedulerTrap

(* sched() keeps intena of the thread; the trapframe has the user's         *)
(* registers and where the user program goes on.                            *)
ThreadInv(t) ==
  LET k == ctx[t]
  IN /\ k.pc = "yielded" => ~k.intena
     /\ k.pc = "slept" => k.intena
     /\ proc[t].regs = t
     /\ k.pc \notin {"user", "usertrap"} => proc[t].epc = After(proc[t].cause)

(* A thread that no hart executes has left one in sched(), or never ran.    *)
ParkedInv(t) ==
  (\A c \in Harts : Run(c) # t) =>
    proc[t].state # "RUNNING" /\ ctx[t].pc \in {"forkret", "yielded", "slept"}

(* The registers and struct cpu of a hart go with the point of the context  *)
(* that it executes, a thread that its scheduler switched to or that        *)
(* scheduler.                                                               *)
HartInv(c) ==
  LET x == Run(c)
      h == hart[c]
      k == ctx[x]
  IN /\ Tp(c) = c
     /\ x = c \/ (x \in Threads /\ proc[x].state = "RUNNING" /\ ctx[c].pc = "back" /\ ctx[c].lk = x)
     /\ \A l \in Locks : lock[l] = c <=> l \in HeldAt(x, k)
     /\ cpu[c].noff = IF Point(k) \in OneLock THEN 1 ELSE IF Point(k) = "sleep" THEN 2 ELSE 0
     /\ Point(k) \in {"clockintr", "yielding"} => ~cpu[c].intena
     /\ Point(k) \in {"while", "sleep"} => cpu[c].intena
     /\ k.pc \notin {"top", "scan", "usertrapret"} => (h.sie <=> k.pc \in {"user", "syscall", "reacquire"})
     /\ h.stvec = IF k.pc \in {"user", "usertrap", "userret"} THEN "uservec" ELSE "kernelvec"
     /\ k.pc \in {"user", "userret"} => proc[x].hartid = c
     /\ k.pc = "user" => h.regs = x
     /\ k.pc = "usertrap" => h.spp = "U" /\ h.sepc = "user"
     /\ k.pc = "userret" => h.spp = "U" /\ h.sepc = proc[x].epc /\ h.spie
     /\ k.pc = "sret" => h.spp = "S" /\ h.sepc = k.trap.at /\ h.spie

TrapInv ==
  /\ panicked = "no"
  /\ TrapTypeOK
  /\ \A c, d \in Harts : Run(c) = Run(d) => c = d
  /\ \A x \in Threads \cup Harts : ContextInv(x)
  /\ \A t \in Threads : ThreadInv(t) /\ ParkedInv(t)
  /\ \A c \in Harts : HartInv(c)
=============================================================================
