-------------------------------- MODULE Mlfq --------------------------------
(***************************************************************************)
(* Proc under the MLFQ policy.  queues[i] is the part of the array         *)
(* queues[i][] up to q_index[i]; an entry is a pointer to a slot of        *)
(* proc[], and pop() compares pids, which tells slots apart because the    *)
(* pid it looks for is the one of a living process.  The Makefile builds   *)
(* MLFQ for one CPU.                                                       *)
(***************************************************************************)
EXTENDS Proc, SequencesExt

CONSTANTS
  NQ,         \* number of queues, 5 in the code
  AGE_LIMIT

ASSUME MlfqAssumption == NQ \in Nat \ {0} /\ AGE_LIMIT \in Nat

VARIABLES
  queues, curr_q,
  rtime       \* ticks as RUNNING since p was scheduled or pushed

qVars == <<queues, curr_q, rtime>>
mlfqVars == <<vars, qVars>>

Levels == 0..(NQ - 1)

q_tick(q) == 2^q

(* Every assignment to p->atime sets it to 0. *)
atime(p) == 0

-----------------------------------------------------------------------------
(* push() and pop() on the queues qs. *)

Clamp(q) == IF q < 0 THEN 0 ELSE IF q > NQ - 1 THEN NQ - 1 ELSE q

push(qs, p, q) == [qs EXCEPT ![Clamp(q)] = Append(@, p)]

pop(qs, p) ==
  LET i == SelectLastInSeq(qs[curr_q[p]], LAMBDA e : e = p)
  IN  IF i = 0 THEN qs ELSE [qs EXCEPT ![curr_q[p]] = RemoveAt(@, i)]

(* The fields that push(p, q) sets. *)
Queued(p, q) ==
  /\ curr_q' = [curr_q EXCEPT ![p] = Clamp(q)]
  /\ rtime' = [rtime EXCEPT ![p] = 0]

-----------------------------------------------------------------------------
MlfqInit ==
  /\ Init
  /\ queues = [q \in Levels |-> IF q = 0 THEN <<initproc>> ELSE <<>>]
  /\ curr_q = [p \in Procs |-> 0]
  /\ rtime = [p \in Procs |-> 0]

RunnableAt(q, i) == state[queues[q][i]] = "RUNNABLE"

(* The first RUNNABLE entry, lowest queue first. *)
IsFirst(q, i) ==
  /\ RunnableAt(q, i)
  /\ \A j \in 1..(i - 1) : ~RunnableAt(q, j)
  /\ \A r \in 0..(q - 1) : \A j \in DOMAIN queues[r] : ~RunnableAt(r, j)

(* scheduler(): the loop that promotes aged processes finds none, because   *)
(* p->atime stays 0; then the first RUNNABLE entry runs.                    *)
MlfqPick(c) ==
  /\ \A q \in Levels : \A i \in DOMAIN queues[q] : atime(queues[q][i]) <= AGE_LIMIT
  /\ \E q \in Levels : \E i \in DOMAIN queues[q] :
       LET p == queues[q][i] IN
       /\ IsFirst(q, i)
       /\ SchedulerPick(c, p)
       /\ rtime' = [rtime EXCEPT ![p] = 0]
  /\ UNCHANGED <<queues, curr_q>>

MlfqBack(c) == SchedulerBack(c) /\ UNCHANGED qVars

-----------------------------------------------------------------------------
(* Timer interrupts while p runs.  clockintr() first calls update_vals().   *)

(* pop(p), push(p, p->curr_q + 1), yield(). *)
Demote(c, p) ==
  /\ Yield(c, p)
  /\ queues' = push(pop(queues, p), p, curr_q[p] + 1)
  /\ curr_q' = [curr_q EXCEPT ![p] = Clamp(@ + 1)]
  /\ rtime' = [rtime EXCEPT ![p] = 0]

(* Mutant: a process of the last queue keeps its place; the tick counts. *)
UserTick_Stays(c, p) ==
  /\ pc[p] = "user"
  /\ ~killed[p]
  /\ IF curr_q[p] = NQ - 1
     THEN /\ Yield(c, p)
          /\ rtime' = [rtime EXCEPT ![p] = @ + 1]
          /\ UNCHANGED <<queues, curr_q>>
     ELSE Demote(c, p)

(* usertrap(): demoted at every tick. *)
UserTick(c, p) ==
  /\ pc[p] = "user"
  /\ ~killed[p]
  /\ Demote(c, p)

(* kerneltrap(): demoted once the quota of the queue is exceeded. *)
KernelTick(c, p) ==
  /\ Runs(c, p)
  /\ pc[p] \in Interruptible \ {"user"}
  /\ IF rtime[p] + 1 > q_tick(curr_q[p])
     THEN Demote(c, p)
     ELSE /\ rtime' = [rtime EXCEPT ![p] = @ + 1]
          /\ UNCHANGED <<vars, queues, curr_q>>

(* sys_set_priority() of a lower value: priority_updater() calls yield().   *)
PriorityYield(c, p) ==
  /\ pc[p] = "user"
  /\ ~killed[p]
  /\ Yield(c, p)
  /\ UNCHANGED qVars

-----------------------------------------------------------------------------
(* Steps of Proc that push. *)

(* Mutant: fork() does not push the child. *)
MlfqForkRunnable_NoPush(c, p) ==
  /\ ForkRunnable(c, p)
  /\ UNCHANGED qVars

MlfqForkRunnable(c, p) ==
  /\ ForkRunnable(c, p)
  /\ queues' = push(queues, np[p], 0)
  /\ Queued(np[p], 0)

(* kill() pushes a process that sleeps, without pop(). *)
MlfqKill(c, p, t) ==
  /\ kill(c, p, t)
  /\ IF state[t] = "SLEEPING"
     THEN queues' = push(queues, t, 0) /\ Queued(t, 0)
     ELSE UNCHANGED qVars

(* The other steps leave the queues alone; allocproc() and freeproc() clear *)
(* the fields of the slot.                                                  *)
Cleared(f) ==
  [q \in Procs |-> IF state'[q] # state[q] /\ state'[q] \in {"UNUSED", "USED"}
                   THEN 0 ELSE f[q]]

ClearsFields ==
  /\ curr_q' = Cleared(curr_q)
  /\ rtime' = Cleared(rtime)
  /\ UNCHANGED queues

MlfqKernelStep(c, p) ==
  \/ MlfqForkRunnable(c, p)
  \/ pc[p] # "fork_runnable" /\ KernelStep(c, p) /\ ClearsFields

MlfqUserStep(c, p) ==
  \/ \E t \in Procs : MlfqKill(c, p, t)
  \/ /\ Exit(c, p) \/ WaitStart(c, p)
        \/ \E n \in Procs : ForkAlloc(c, p, n) \/ ForkNoMemory(c, p, n)
     /\ ClearsFields

MlfqNext ==
  \E c \in Cpus :
    \/ MlfqPick(c) \/ MlfqBack(c)
    \/ \E p \in Procs :
         \/ UserTick(c, p) \/ KernelTick(c, p) \/ MlfqKernelStep(c, p) \/ MlfqUserStep(c, p)
         \/ PriorityYield(c, p)

MlfqSpec == MlfqInit /\ [][MlfqNext]_mlfqVars

(* The CPU keeps executing, and the interval of the timer is long enough    *)
(* for a step between two ticks.  A process that is in user mode again and  *)
(* again meets a tick there in the end; a killed one exits when it is back  *)
(* in usertrap().                                                           *)
MlfqFairness ==
  \A c \in Cpus :
    /\ WF_mlfqVars(MlfqPick(c) \/ MlfqBack(c))
    /\ \A p \in Procs :
         /\ SF_mlfqVars(UserTick(c, p))
         /\ SF_mlfqVars(MlfqKernelStep(c, p))
         /\ WF_mlfqVars(killed[p] /\ Exit(c, p) /\ ClearsFields)

FairMlfqSpec == MlfqSpec /\ MlfqFairness

-----------------------------------------------------------------------------
(* Properties. *)

(* Every variable has its type. *)
MlfqTypeOK ==
  /\ TypeOK
  /\ queues \in [Levels -> Seq(Procs)]
  /\ curr_q \in [Procs -> Levels]
  /\ rtime \in [Procs -> Nat]

(* p is in the queue that p->curr_q names. *)
HasEntry(p) == \E i \in DOMAIN queues[curr_q[p]] : queues[curr_q[p]][i] = p

(* The scheduler can find every process that wants the CPU: a RUNNABLE      *)
(* process is in the queue that p->curr_q names, through demotions, kill()  *)
(* of a sleeper, exit() that leaves its entry behind, and reuse of slots.   *)
RunnableIsQueued ==
  \A p \in Procs : state[p] = "RUNNABLE" => HasEntry(p)

(* The inductive invariant: a process keeps its entry while it runs and     *)
(* while it sleeps, since neither yield() nor wakeup() pushes it.           *)
QueuedInv ==
  \A p \in Procs : state[p] \in {"RUNNABLE", "RUNNING", "SLEEPING"} => HasEntry(p)

(* No slot has an entry besides the one in the queue of its process. *)
NoEntryLeftBehind ==
  \A q \in Levels : \A i \in DOMAIN queues[q] :
    \A r \in Levels : \A j \in DOMAIN queues[r] :
      queues[q][i] = queues[r][j] => q = r /\ i = j

(* A process gives up the CPU before its tick is over: it sleeps, exits or  *)
(* has raised its own priority.                                             *)
LeavesEarly ==
  \/ \E q \in Procs : state[q] = "RUNNING" /\ state'[q] \in {"SLEEPING", "ZOMBIE"}
  \/ \E c \in Cpus, q \in Procs : PriorityYield(c, q)

(* Only processes that leave early can starve another one, since yield()    *)
(* demotes nobody but the timer does: as long as every process is preempted *)
(* by the timer, each RUNNABLE process gets its turn.  (An entry left       *)
(* behind by exit() or kill() breaks this: a slot that is used again may    *)
(* stay in queue 0.)                                                        *)
StarvedOnlyBySleepers ==
  \A p \in Procs :
    []NoEntryLeftBehind /\ <>[](state[p] = "RUNNABLE") => []<><<LeavesEarly>>_mlfqVars

=============================================================================
