---------------------------- MODULE PolicyProofs ----------------------------
(***************************************************************************)
(* The two scheduling policies keep the promises of the process table,     *)
(* and MLFQ loses no process, for every number of slots, CPUs and queues.  *)
(***************************************************************************)
EXTENDS Mlfq, RoundRobin, ProcProofs, SequenceTheorems, WellFoundedInduction

(* A set of indices that is not empty has a largest one.                    *)
LEMMA MaxExists ==
  ASSUME NEW n \in Nat, NEW I, I \subseteq 1..n, I # {}
  PROVE  Max(I) \in I
<1> DEFINE T == {n - i : i \in I}
           R == OpToRel(<, Nat)
<1>0. \A i \in I : i \in Nat /\ i <= n /\ n - i \in Nat
  OBVIOUS
<1>1. T \subseteq Nat /\ T # {}
  <2>1. T \subseteq Nat
    BY <1>0, Zenon
  <2>2. PICK i \in I : TRUE
    BY Zenon
  <2>3. n - i \in T
    BY Zenon
  <2> QED BY <2>1, <2>3, Zenon
<1>2. IsWellFoundedOn(R, Nat)
  BY NatLessThanWellFounded, Zenon
<1>3. PICK x \in T : \A y \in T : ~(<<y, x>> \in R)
  <2> HIDE DEF T, R
  <2> QED BY <1>1, <1>2, WFMin, Zenon
<1>4. ASSUME NEW y \in T PROVE ~(y < x)
  <2>1. x \in Nat /\ y \in Nat /\ <<y, x>> \notin R
    BY <1>1, <1>3, <1>4, Zenon
  <2>2. y < x => <<y, x>> \in R
    BY <2>1, Zenon DEF OpToRel
  <2> QED BY <2>1, <2>2, Zenon
<1>5. PICK m \in I : x = n - m
  BY Zenon
<1>6. ASSUME NEW j \in I PROVE m >= j
  <2>1. ~(n - j < n - m)
    BY <1>4, <1>5, Zenon
  <2>2. n \in Int /\ j \in Int /\ m \in Int
    BY <1>0
  <2> QED BY <2>1, <2>2, SMTT(30)
<1> QED BY <1>5, <1>6, Zenon DEF Max

(* What pop() leaves of a queue.                                            *)
LEMMA RemoveAtElements ==
  ASSUME NEW S, NEW s \in Seq(S), NEW k \in 1..Len(s)
  PROVE  /\ RemoveAt(s, k) \in Seq(S)
         /\ Len(RemoveAt(s, k)) = Len(s) - 1
         /\ \A j \in 1..(Len(s) - 1) : RemoveAt(s, k)[j] = IF j < k THEN s[j] ELSE s[j + 1]
<1> DEFINE u == SubSeq(s, 1, k - 1)
           v == SubSeq(s, k + 1, Len(s))
<1>1. Len(s) \in Nat /\ k \in Nat /\ 1 <= k /\ k <= Len(s)
  OBVIOUS
<1>2. u \in Seq(S) /\ Len(u) = k - 1 /\ \A j \in 1..(k - 1) : u[j] = s[j]
  BY <1>1, SubSeqProperties
<1>3. v \in Seq(S) /\ Len(v) = Len(s) - k /\ \A j \in 1..(Len(s) - k) : v[j] = s[k + j]
  BY <1>1, SubSeqProperties
<1>4. /\ u \o v \in Seq(S) /\ Len(u \o v) = Len(u) + Len(v)
      /\ \A j \in 1..(Len(u) + Len(v)) :
           (u \o v)[j] = IF j <= Len(u) THEN u[j] ELSE v[j - Len(u)]
  <2> HIDE DEF u, v
  <2> QED BY <1>2, <1>3, ConcatProperties, Zenon
<1>5. RemoveAt(s, k) = u \o v
  BY Zenon DEF RemoveAt
<1>6. Len(u \o v) = Len(s) - 1
  <2> HIDE DEF u, v
  <2>1. /\ Len(u) = k - 1 /\ Len(v) = Len(s) - k
        /\ Len(u \o v) = Len(u) + Len(v)
    BY <1>2, <1>3, <1>4, Zenon
  <2> QED BY <1>1, <2>1
<1>7. ASSUME NEW j \in 1..(Len(s) - 1)
      PROVE  (u \o v)[j] = IF j < k THEN s[j] ELSE s[j + 1]
  <2> HIDE DEF u, v
  <2>1. CASE j < k
    BY <1>1, <1>2, <1>3, <1>4, <2>1
  <2>2. CASE ~(j < k)
    <3>1. j - (k - 1) \in 1..(Len(s) - k) /\ k + (j - (k - 1)) = j + 1
      BY <1>1, <2>2
    <3>2. (u \o v)[j] = v[j - (k - 1)]
      BY <1>1, <1>2, <1>3, <1>4, <2>2, SMTT(30)
    <3> QED BY <1>3, <2>2, <3>1, <3>2, Zenon
  <2> QED BY <2>1, <2>2, Zenon
<1> QED BY <1>4, <1>5, <1>6, <1>7, Zenon

(* The queues have the type of the arrays of the code.                      *)
QueueTypes ==
  /\ queues \in [Levels -> Seq(Procs)]
  /\ curr_q \in [Procs -> Levels]
  /\ rtime \in [Procs -> Nat]

(* The index that pop() finds is the one of an entry of p.                  *)
LEMMA LastEntry ==
  ASSUME NEW s \in Seq(Procs), NEW p \in Procs
  PROVE  LET i == SelectLastInSeq(s, LAMBDA e : e = p)
         IN  i = 0 \/ (i \in 1..Len(s) /\ s[i] = p)
<1> DEFINE I == {i \in 1..Len(s) : s[i] = p}
<1>1. SelectLastInSeq(s, LAMBDA e : e = p) = IF I # {} THEN Max(I) ELSE 0
  BY Zenon DEF SelectLastInSeq
<1>2. I \subseteq 1..Len(s) /\ Len(s) \in Nat
  OBVIOUS
<1>3. I # {} => Max(I) \in I
  <2> HIDE DEF I
  <2> QED BY <1>2, MaxExists, Zenon
<1> QED BY <1>1, <1>3, Zenon

(* pop(p) takes no entry of another process out of its queue.               *)
LEMMA PopKeeps ==
  ASSUME QueueTypes, NEW p \in Procs
  PROVE  /\ pop(queues, p) \in [Levels -> Seq(Procs)]
         /\ \A l \in Levels : \A i \in DOMAIN queues[l] : queues[l][i] # p =>
              \E j \in DOMAIN pop(queues, p)[l] : pop(queues, p)[l][j] = queues[l][i]
<1> DEFINE k == SelectLastInSeq(queues[curr_q[p]], LAMBDA e : e = p)
           s == queues[curr_q[p]]
<1>1. curr_q[p] \in Levels /\ s \in Seq(Procs)
  BY DEF QueueTypes
<1>2. pop(queues, p) = IF k = 0 THEN queues ELSE [queues EXCEPT ![curr_q[p]] = RemoveAt(s, k)]
  BY Zenon DEF pop
<1>3. k = 0 \/ (k \in 1..Len(s) /\ s[k] = p)
  BY <1>1, LastEntry, Zenon
<1> HIDE DEF k
<1>4. CASE k = 0
  BY <1>2, <1>4 DEF QueueTypes
<1>5. CASE k \in 1..Len(s) /\ s[k] = p
  <2>1. /\ RemoveAt(s, k) \in Seq(Procs) /\ Len(RemoveAt(s, k)) = Len(s) - 1
        /\ \A j \in 1..(Len(s) - 1) : RemoveAt(s, k)[j] = IF j < k THEN s[j] ELSE s[j + 1]
    BY <1>1, <1>5, RemoveAtElements, Zenon
  <2>2. pop(queues, p) = [queues EXCEPT ![curr_q[p]] = RemoveAt(s, k)]
    BY <1>2, <1>5
  <2>3. ASSUME NEW i \in DOMAIN s, s[i] # p
        PROVE  \E j \in DOMAIN RemoveAt(s, k) : RemoveAt(s, k)[j] = s[i]
    <3>1. i \in 1..Len(s) /\ i # k /\ Len(s) \in Nat
      BY <1>1, <1>5, <2>3, SMTT(30)
    <3>2. DOMAIN RemoveAt(s, k) = 1..(Len(s) - 1)
      BY <2>1
    <3>3. CASE i < k
      BY <1>5, <2>1, <3>1, <3>2, <3>3, SMTT(30)
    <3>4. CASE ~(i < k)
      <4>1. i - 1 \in 1..(Len(s) - 1) /\ ~(i - 1 < k) /\ i - 1 + 1 = i
        BY <1>5, <3>1, <3>4, SMTT(30)
      <4> QED BY <2>1, <3>2, <4>1, Zenon
    <3> QED BY <3>3, <3>4, Zenon
  <2> HIDE DEF s
  <2>4. /\ pop(queues, p) \in [Levels -> Seq(Procs)] /\ pop(queues, p)[curr_q[p]] = RemoveAt(s, k)
        /\ \A l \in Levels \ {curr_q[p]} : pop(queues, p)[l] = queues[l]
    BY <1>1, <2>1, <2>2, SMTT(30) DEF QueueTypes
  <2>5. s = queues[curr_q[p]]
    BY Zenon DEF s
  <2> QED BY <2>3, <2>4, <2>5
<1> QED BY <1>3, <1>4, <1>5, Zenon

(* push(p, q) leaves every entry in its place and adds one of p.            *)
LEMMA PushKeeps ==
  ASSUME NEW qs \in [Levels -> Seq(Procs)], NEW p \in Procs, NEW q \in Nat
  PROVE  /\ Clamp(q) \in Levels
         /\ push(qs, p, q) \in [Levels -> Seq(Procs)]
         /\ \A l \in Levels : \A i \in DOMAIN qs[l] :
              i \in DOMAIN push(qs, p, q)[l] /\ push(qs, p, q)[l][i] = qs[l][i]
         /\ \E j \in DOMAIN push(qs, p, q)[Clamp(q)] : push(qs, p, q)[Clamp(q)][j] = p
<1>1. Clamp(q) \in Levels
  BY MlfqAssumption DEF Clamp, Levels
<1> DEFINE k == Clamp(q)
           s == qs[k]
           a == Append(s, p)
<1>2. s \in Seq(Procs)
  BY <1>1, Zenon
<1>3. /\ a \in Seq(Procs) /\ Len(a) = Len(s) + 1 /\ Len(s) \in Nat
      /\ \A i \in 1..Len(s) : a[i] = s[i]
      /\ a[Len(s) + 1] = p
  <2> HIDE DEF s
  <2> QED BY <1>2, AppendProperties
<1>4. push(qs, p, q) = [qs EXCEPT ![k] = a]
  BY Zenon DEF push
<1>5. DOMAIN s = 1..Len(s) /\ DOMAIN a = 1..(Len(s) + 1)
  BY <1>2, <1>3
<1>6. s = qs[k] /\ k \in Levels
  BY <1>1, Zenon
<1> HIDE DEF k, s, a
<1>7. /\ push(qs, p, q) \in [Levels -> Seq(Procs)] /\ push(qs, p, q)[k] = a
      /\ \A l \in Levels \ {k} : push(qs, p, q)[l] = qs[l]
  BY <1>3, <1>4, <1>6, Zenon
<1>8. \A i \in DOMAIN s : i \in DOMAIN a /\ a[i] = s[i]
  BY <1>3, <1>5
<1>9. Len(s) + 1 \in DOMAIN a
  BY <1>3, <1>5, SMTT(30)
<1>10. /\ \A l \in Levels : \A i \in DOMAIN qs[l] :
            i \in DOMAIN push(qs, p, q)[l] /\ push(qs, p, q)[l][i] = qs[l][i]
       /\ \E j \in DOMAIN push(qs, p, q)[k] : push(qs, p, q)[k][j] = p
  BY <1>3, <1>6, <1>7, <1>8, <1>9, Zenon
<1> QED BY <1>1, <1>7, <1>10, Zenon DEF k

-----------------------------------------------------------------------------
(* A step of MLFQ is a step of the process table. *)

LEMMA MlfqStepImplements ==
  ASSUME QueueTypes, [MlfqNext]_mlfqVars
  PROVE  [Next]_vars
<1>1. CASE UNCHANGED mlfqVars
  BY <1>1 DEF mlfqVars
<1>2. ASSUME NEW c \in Cpus, MlfqPick(c) PROVE Next
  <2>1. PICK q \in Levels : \E i \in DOMAIN queues[q] : SchedulerPick(c, queues[q][i])
    BY <1>2, Zenon DEF MlfqPick
  <2>2. PICK i \in DOMAIN queues[q] : SchedulerPick(c, queues[q][i])
    BY <2>1, Zenon
  <2>3. queues[q][i] \in Procs
    BY <2>1, <2>2 DEF QueueTypes
  <2> QED BY <2>2, <2>3, Zenon DEF Next
<1>3. ASSUME NEW c \in Cpus, MlfqBack(c) PROVE Next
  BY <1>3, Zenon DEF MlfqBack, Next
<1>4. ASSUME NEW c \in Cpus, NEW p \in Procs,
             UserTick(c, p) \/ KernelTick(c, p) \/ PriorityYield(c, p)
      PROVE  [Next]_vars
  <2>1. Yield(c, p) \/ UNCHANGED vars
    BY <1>4, Zenon DEF UserTick, KernelTick, PriorityYield, Demote
  <2> QED BY <2>1, Zenon DEF Next
<1>5. ASSUME NEW c \in Cpus, NEW p \in Procs, MlfqKernelStep(c, p) \/ MlfqUserStep(c, p)
      PROVE  Next
  <2>1. KernelStep(c, p) \/ UserStep(c, p)
    BY <1>5 DEF MlfqKernelStep, MlfqUserStep, MlfqForkRunnable, MlfqKill, KernelStep, LockStep,
                UserStep
  <2> QED BY <2>1, Zenon DEF Next
<1> QED BY <1>1, <1>2, <1>3, <1>4, <1>5, Zenon DEF MlfqNext

(* Steps that neither push nor pop: a process that can come back to the     *)
(* queues afterwards was already one before.                                *)
Living == {"RUNNABLE", "RUNNING", "SLEEPING"}

PlainStep(c, p) ==
  \/ pc[p] # "fork_runnable" /\ KernelStep(c, p)
  \/ Exit(c, p) \/ WaitStart(c, p)
  \/ \E n \in Procs : ForkAlloc(c, p, n) \/ ForkNoMemory(c, p, n)

LEMMA PlainStepLives ==
  ASSUME LockInv, NEW c \in Cpus, NEW p \in Procs, PlainStep(c, p)
  PROVE  \A q \in Procs : state'[q] \in Living => state[q] \in Living
<1> USE DEF Living
<1>0. state \in [Procs -> States]
  BY Zenon DEF LockInv, TypeOK
<1>1. CASE UNCHANGED state
  BY <1>1, SMTT(30)
<1>2. CASE ReparentWakeup(c, p) \/ ExitWakeup(c, p)
  BY <1>0, <1>2, Zenon DEF ReparentWakeup, ExitWakeup, wakeup, WakeupSlot
<1>3. CASE ExitZombie(c, p)
  BY <1>0, <1>3, SMTT(30) DEF ExitZombie
<1>4. CASE WaitReap(c, p)
  BY <1>0, <1>4, Zenon DEF WaitReap, freeproc, procVars
<1>5. CASE SleepCommit(c, p)
  <2>1. state[p] = "RUNNING"
    BY <1>5, Zenon DEF SleepCommit, LockInv, RunningInv, RunState
  <2> QED BY <1>0, <1>5, <2>1, Zenon DEF SleepCommit
<1>6. ASSUME NEW n \in Procs, ForkAlloc(c, p, n)
      PROVE  \A q \in Procs : state'[q] \in Living => state[q] \in Living
  BY <1>0, <1>6, SMTT(30) DEF ForkAlloc
<1>7. CASE PlainStep(c, p) /\ state' # state
  <2>1. ~Exit(c, p) /\ ~WaitStart(c, p) /\ \A n \in Procs : ~ForkNoMemory(c, p, n)
    BY <1>7, SMTT(30) DEF Exit, WaitStart, ForkNoMemory, procVars
  <2>2. /\ ~sched(c, p) /\ ~forkret(c, p) /\ ~YieldBack(c, p) /\ ~reparent(c, p)
        /\ ~ExitRelease(c, p) /\ ~WaitEnd(c, p) /\ ~SleepBack(c, p)
    BY <1>7, Zenon DEF sched, forkret, YieldBack, reparent, ExitRelease, WaitEnd, SleepBack, procVars
  <2>3. ~ForkParent(c, p) /\ ~WaitScan(c, p) /\ ~SleepAcquire(c, p) /\ ~SleepRelock(c, p)
    BY <1>7, Zenon DEF ForkParent, WaitScan, SleepAcquire, SleepRelock, procVars
  <2>4. pc[p] # "fork_runnable" => ~ForkRunnable(c, p)
    BY DEF ForkRunnable
  <2> QED BY <1>2, <1>3, <1>4, <1>5, <1>6, <1>7, <2>1, <2>2, <2>3, <2>4, Zenon
          DEF PlainStep, KernelStep, LockStep
<1> QED BY <1>1, <1>7, Zenon

-----------------------------------------------------------------------------
(* No process is lost from the queues. *)

LEMMA LevelZero == 0 \in Levels /\ Clamp(0) = 0
BY MlfqAssumption DEF Levels, Clamp

(* Steps that leave the queues as they are.                                 *)
LEMMA KeepQueued ==
  ASSUME QueueTypes, QueuedInv, UNCHANGED queues, curr_q' \in [Procs -> Levels],
         rtime' \in [Procs -> Nat],
         \A q \in Procs : state'[q] \in Living => state[q] \in Living /\ curr_q'[q] = curr_q[q]
  PROVE  QueueTypes' /\ QueuedInv'
BY Zenon DEF QueueTypes, QueuedInv, HasEntry, Living

LEMMA PlainQueued ==
  ASSUME LockInv, QueueTypes, QueuedInv, NEW c \in Cpus, NEW p \in Procs, PlainStep(c, p),
         ClearsFields
  PROVE  QueueTypes' /\ QueuedInv'
<1>1. \A q \in Procs : state'[q] \in Living => state[q] \in Living
  BY PlainStepLives
<1>2. UNCHANGED queues /\ curr_q' \in [Procs -> Levels] /\ rtime' \in [Procs -> Nat]
  BY LevelZero, Zenon DEF ClearsFields, Cleared, QueueTypes
<1>3. \A q \in Procs : state'[q] \in Living => curr_q'[q] = curr_q[q]
  BY Zenon DEF ClearsFields, Cleared, Living
<1> QED BY <1>1, <1>2, <1>3, KeepQueued, ZenonT(40)

(* The timer, fork() and kill(): the entries of the other processes stay    *)
(* and p gets a new one in the queue that its curr_q names.                 *)
LEMMA PushQueued ==
  ASSUME QueuedInv, queues' \in [Levels -> Seq(Procs)], NEW p \in Procs, NEW k \in Levels,
         QueueTypes, curr_q' = [curr_q EXCEPT ![p] = k], rtime' = [rtime EXCEPT ![p] = 0],
         \A q \in Procs \ {p} : state'[q] = state[q],
         \A l \in Levels : \A i \in DOMAIN queues[l] : queues[l][i] # p =>
           \E j \in DOMAIN queues'[l] : queues'[l][j] = queues[l][i],
         \E j \in DOMAIN queues'[k] : queues'[k][j] = p
  PROVE  QueueTypes' /\ QueuedInv'
<1>1. QueueTypes'
  BY Zenon DEF QueueTypes
<1>2. HasEntry(p)'
  BY Zenon DEF QueueTypes, HasEntry
<1>3. ASSUME NEW q \in Procs \ {p}, HasEntry(q) PROVE HasEntry(q)'
  <2>1. curr_q'[q] = curr_q[q] /\ curr_q[q] \in Levels
    BY Zenon DEF QueueTypes
  <2> QED BY <1>3, <2>1, SMTT(30) DEF HasEntry
<1> QED BY <1>1, <1>2, <1>3, Zenon DEF QueuedInv

LEMMA DemoteQueued ==
  ASSUME LockInv, QueueTypes, QueuedInv, NEW c \in Cpus, NEW p \in Procs, Demote(c, p)
  PROVE  QueueTypes' /\ QueuedInv'
<1> DEFINE qs == pop(queues, p)
           k == Clamp(curr_q[p] + 1)
<1>1. curr_q[p] + 1 \in Nat
  BY MlfqAssumption DEF QueueTypes, Levels
<1>2. /\ qs \in [Levels -> Seq(Procs)]
      /\ \A l \in Levels : \A i \in DOMAIN queues[l] : queues[l][i] # p =>
           \E j \in DOMAIN qs[l] : qs[l][j] = queues[l][i]
  BY PopKeeps, Zenon
<1>3. /\ queues' = push(qs, p, curr_q[p] + 1) /\ curr_q' = [curr_q EXCEPT ![p] = k]
      /\ rtime' = [rtime EXCEPT ![p] = 0]
  BY Zenon DEF Demote
<1> HIDE DEF qs
<1>4. /\ k \in Levels /\ queues' \in [Levels -> Seq(Procs)]
      /\ \A l \in Levels : \A i \in DOMAIN qs[l] :
           i \in DOMAIN queues'[l] /\ queues'[l][i] = qs[l][i]
      /\ \E j \in DOMAIN queues'[k] : queues'[k][j] = p
  <2> DEFINE n == curr_q[p] + 1
             ps == push(qs, p, n)
  <2>1. /\ Clamp(n) \in Levels /\ ps \in [Levels -> Seq(Procs)]
        /\ \A l \in Levels : \A i \in DOMAIN qs[l] : i \in DOMAIN ps[l] /\ ps[l][i] = qs[l][i]
        /\ \E j \in DOMAIN ps[Clamp(n)] : ps[Clamp(n)][j] = p
    <3> HIDE DEF n
    <3> QED BY <1>1, <1>2, PushKeeps, ZenonT(40) DEF n
  <2>2. queues' = ps /\ k = Clamp(n)
    BY <1>3, Zenon
  <2> HIDE DEF ps, k, n
  <2> QED BY <2>1, <2>2, Zenon
<1> HIDE DEF k
<1>5. \A l \in Levels : \A i \in DOMAIN queues[l] : queues[l][i] # p =>
        \E j \in DOMAIN queues'[l] : queues'[l][j] = queues[l][i]
  BY <1>2, <1>4
<1>6. \A q \in Procs \ {p} : state'[q] = state[q]
  BY Zenon DEF Demote, Yield, LockInv, TypeOK
<1> QED BY <1>3, <1>4, <1>5, <1>6, PushQueued, Zenon

(* push(p, 0) without pop(), in fork() and kill().                          *)
LEMMA PushZeroQueued ==
  ASSUME QueueTypes, QueuedInv, NEW p \in Procs, queues' = push(queues, p, 0), Queued(p, 0),
         \A q \in Procs \ {p} : state'[q] = state[q]
  PROVE  QueueTypes' /\ QueuedInv'
<1>1. queues \in [Levels -> Seq(Procs)] /\ Clamp(0) = 0 /\ 0 \in Levels
  BY LevelZero DEF QueueTypes
<1>2. /\ queues' \in [Levels -> Seq(Procs)]
      /\ \A l \in Levels : \A i \in DOMAIN queues[l] :
           i \in DOMAIN queues'[l] /\ queues'[l][i] = queues[l][i]
      /\ \E j \in DOMAIN queues'[0] : queues'[0][j] = p
  <2> DEFINE ps == push(queues, p, 0)
  <2>1. /\ ps \in [Levels -> Seq(Procs)]
        /\ \A l \in Levels : \A i \in DOMAIN queues[l] :
             i \in DOMAIN ps[l] /\ ps[l][i] = queues[l][i]
        /\ \E j \in DOMAIN ps[Clamp(0)] : ps[Clamp(0)][j] = p
    BY <1>1, PushKeeps, 0 \in Nat, ZenonT(40)
  <2>2. queues' = ps
    BY Zenon
  <2> HIDE DEF ps
  <2> QED BY <1>1, <2>1, <2>2, Zenon
<1>3. curr_q' = [curr_q EXCEPT ![p] = 0] /\ rtime' = [rtime EXCEPT ![p] = 0]
  BY <1>1, Zenon DEF Queued
<1>4. \A l \in Levels : \A i \in DOMAIN queues[l] : queues[l][i] # p =>
        \E j \in DOMAIN queues'[l] : queues'[l][j] = queues[l][i]
  BY <1>2, Zenon
<1> QED BY <1>1, <1>2, <1>3, <1>4, PushQueued, Zenon

LEMMA QueuedStep ==
  ASSUME LockInv, QueueTypes, QueuedInv, [MlfqNext]_mlfqVars
  PROVE  QueueTypes' /\ QueuedInv'
<1>0. state \in [Procs -> States]
  BY DEF LockInv, TypeOK
<1>1. CASE UNCHANGED mlfqVars
  BY <1>1, KeepQueued, Zenon DEF mlfqVars, vars, procVars, qVars, QueueTypes
<1>2. ASSUME NEW c \in Cpus, MlfqPick(c) PROVE QueueTypes' /\ QueuedInv'
  <2>1. PICK q \in Levels : \E i \in DOMAIN queues[q] :
          /\ SchedulerPick(c, queues[q][i])
          /\ rtime' = [rtime EXCEPT ![queues[q][i]] = 0]
    BY <1>2, Zenon DEF MlfqPick
  <2>2. PICK i \in DOMAIN queues[q] :
          SchedulerPick(c, queues[q][i]) /\ rtime' = [rtime EXCEPT ![queues[q][i]] = 0]
    BY <2>1, Zenon
  <2>3. UNCHANGED <<queues, curr_q>> /\ rtime' \in [Procs -> Nat]
    BY <1>2, <2>2, Zenon DEF MlfqPick, QueueTypes
  <2>4. \A r \in Procs : state'[r] \in Living => state[r] \in Living
    BY <1>0, <2>2, SMTT(30) DEF SchedulerPick, Living
  <2> QED BY <2>3, <2>4, KeepQueued, Zenon DEF QueueTypes
<1>3. ASSUME NEW c \in Cpus, MlfqBack(c) PROVE QueueTypes' /\ QueuedInv'
  BY <1>3, KeepQueued, Zenon DEF MlfqBack, SchedulerBack, procVars, qVars, QueueTypes
<1>4. ASSUME NEW c \in Cpus, NEW p \in Procs, UserTick(c, p) PROVE QueueTypes' /\ QueuedInv'
  BY <1>4, DemoteQueued, SMTT(30) DEF UserTick
<1>5. ASSUME NEW c \in Cpus, NEW p \in Procs, KernelTick(c, p) PROVE QueueTypes' /\ QueuedInv'
  <2>1. CASE Demote(c, p)
    BY <2>1, DemoteQueued, SMTT(30)
  <2>2. CASE rtime' = [rtime EXCEPT ![p] = @ + 1] /\ UNCHANGED <<vars, queues, curr_q>>
    BY <2>2, KeepQueued, SMTT(30) DEF vars, procVars, QueueTypes
  <2> QED BY <1>5, <2>1, <2>2, Zenon DEF KernelTick
<1>6. ASSUME NEW c \in Cpus, NEW p \in Procs, PriorityYield(c, p) PROVE QueueTypes' /\ QueuedInv'
  <2>1. state[p] = "RUNNING"
    BY <1>6, Zenon DEF PriorityYield, Yield, LockInv, RunningInv, RunState
  <2>2. \A q \in Procs : state'[q] \in Living => state[q] \in Living
    BY <1>0, <1>6, <2>1, SMTT(30) DEF PriorityYield, Yield, Living
  <2> QED BY <1>6, <2>2, KeepQueued, Zenon DEF PriorityYield, qVars, QueueTypes
<1>7. ASSUME NEW c \in Cpus, NEW p \in Procs, MlfqForkRunnable(c, p)
      PROVE  QueueTypes' /\ QueuedInv'
  <2>1. np[p] \in Procs
    BY <1>7 DEF MlfqForkRunnable, ForkRunnable, LockInv, ForkInv, Forking
  <2>2. \A q \in Procs \ {np[p]} : state'[q] = state[q]
    BY <1>0, <1>7, Zenon DEF MlfqForkRunnable, ForkRunnable
  <2> QED BY <1>7, <2>1, <2>2, PushZeroQueued, Zenon DEF MlfqForkRunnable
<1>8. ASSUME NEW c \in Cpus, NEW p \in Procs, NEW r \in Procs, MlfqKill(c, p, r)
      PROVE  QueueTypes' /\ QueuedInv'
  <2>1. \A q \in Procs : q # r \/ state[r] # "SLEEPING" => state'[q] = state[q]
    BY <1>0, <1>8, ZenonT(40) DEF MlfqKill, kill
  <2>2. CASE state[r] = "SLEEPING"
    BY <1>8, <2>1, <2>2, PushZeroQueued, SMTT(30) DEF MlfqKill
  <2>3. CASE state[r] # "SLEEPING"
    BY <1>8, <2>1, <2>3, KeepQueued, Zenon DEF MlfqKill, qVars, QueueTypes
  <2> QED BY <2>2, <2>3, SMTT(30)
<1>9. ASSUME NEW c \in Cpus, NEW p \in Procs, MlfqKernelStep(c, p) \/ MlfqUserStep(c, p)
      PROVE  QueueTypes' /\ QueuedInv'
  <2>1. \/ MlfqForkRunnable(c, p) \/ \E r \in Procs : MlfqKill(c, p, r)
        \/ PlainStep(c, p) /\ ClearsFields
    BY <1>9, Zenon DEF MlfqKernelStep, MlfqUserStep, PlainStep
  <2> QED BY <1>7, <1>8, <2>1, PlainQueued
<1> QED BY <1>1, <1>2, <1>3, <1>4, <1>5, <1>6, <1>9, Zenon DEF MlfqNext

MlfqInv == LockInv /\ QueueTypes /\ QueuedInv

LEMMA MlfqInvInit == MlfqInit => MlfqInv
<1> SUFFICES ASSUME MlfqInit PROVE MlfqInv
  BY Zenon
<1>1. LockInv
  BY LockInit, Zenon DEF MlfqInit
<1>2. initproc \in Procs
  BY ProcAssumption DEF initproc, Procs
<1>3. /\ queues = [q \in Levels |-> IF q = 0 THEN <<initproc>> ELSE <<>>]
      /\ curr_q = [p \in Procs |-> 0] /\ rtime = [p \in Procs |-> 0]
      /\ state = [p \in Procs |-> IF p = initproc THEN "RUNNABLE" ELSE "UNUSED"]
  BY Zenon DEF MlfqInit, Init
<1>4. QueueTypes
  BY <1>2, <1>3, LevelZero, SMTT(30) DEF QueueTypes
<1>5. QueuedInv
  <2>1. queues[0] = <<initproc>> /\ curr_q[initproc] = 0
    BY <1>2, <1>3, LevelZero, SMTT(30)
  <2>2. HasEntry(initproc)
    BY <2>1 DEF HasEntry
  <2> QED BY <1>2, <1>3, <2>2, Zenon DEF QueuedInv
<1> QED BY <1>1, <1>4, <1>5, Zenon DEF MlfqInv

LEMMA MlfqInvStep == MlfqInv /\ [MlfqNext]_mlfqVars => MlfqInv' /\ [Next]_vars
<1> SUFFICES ASSUME MlfqInv, [MlfqNext]_mlfqVars PROVE MlfqInv' /\ [Next]_vars
  OBVIOUS
<1>1. [Next]_vars
  BY MlfqStepImplements, Zenon DEF MlfqInv
<1>2. LockInv'
  BY <1>1, LockStep_Inv, Zenon DEF MlfqInv
<1> QED BY <1>1, <1>2, QueuedStep, Zenon DEF MlfqInv

(* Whatever the choice of MLFQ, its demotions and its kill() do to the      *)
(* queues, the process table takes only the steps of Proc: every theorem    *)
(* about Proc holds under MLFQ.                                             *)
THEOREM MlfqImplementsProc == MlfqSpec => Spec
<1>1. MlfqInit => Init
  BY Zenon DEF MlfqInit
<1> QED BY <1>1, MlfqInvInit, MlfqInvStep, PTL DEF MlfqSpec, Spec

(* The queues are of their types, with every level inside the array.        *)
THEOREM MlfqTypeCorrect == MlfqSpec => []MlfqTypeOK
<1>1. MlfqInv => MlfqTypeOK
  BY SMTT(30) DEF MlfqInv, LockInv, QueueTypes, MlfqTypeOK
<1> QED BY <1>1, MlfqInvInit, MlfqInvStep, PTL DEF MlfqSpec

(* Demotion, kill() of a sleeper, exit() and the reuse of slots never lose  *)
(* a RUNNABLE process from the queue that its curr_q names.                 *)
THEOREM QueuedCorrect == MlfqSpec => []RunnableIsQueued
<1>1. MlfqInv => RunnableIsQueued
  BY Zenon DEF MlfqInv, QueuedInv, RunnableIsQueued
<1> QED BY <1>1, MlfqInvInit, MlfqInvStep, PTL DEF MlfqSpec

-----------------------------------------------------------------------------
(* Round robin. *)

ScanType == scan \in [Cpus -> Procs]

LEMMA ScanStep == ScanType /\ [RRNext]_rrVars => ScanType' /\ [Next]_vars
<1> SUFFICES ASSUME ScanType, [RRNext]_rrVars PROVE ScanType' /\ [Next]_vars
  BY Zenon
<1>1. CASE UNCHANGED rrVars
  BY <1>1 DEF rrVars, ScanType
<1>2. ASSUME NEW c \in Cpus, Advance(c) PROVE ScanType'
  BY <1>2, ProcAssumption DEF Advance, ScanType, Procs
<1>3. ASSUME NEW c \in Cpus, ScanSkip(c) \/ TimerInterrupt(c) PROVE ScanType' /\ [Next]_vars
  BY <1>2, <1>3, Zenon DEF ScanSkip, TimerInterrupt, ScanType
<1>4. ASSUME NEW c \in Cpus, ScanPick(c) PROVE ScanType' /\ Next
  BY <1>4, Zenon DEF ScanPick, ScanType, Next
<1>5. ASSUME NEW c \in Cpus, ScanBack(c) PROVE ScanType' /\ Next
  BY <1>2, <1>5 DEF ScanBack, Next
<1>6. ASSUME NEW c \in Cpus, NEW p \in Procs,
             Preempt(c, p) \/ RRKernelStep(c, p) \/ RRUserStep(c, p)
      PROVE  ScanType' /\ Next
  BY <1>6, Zenon DEF Preempt, RRKernelStep, RRUserStep, ScanType, Next
<1> QED BY <1>1, <1>3, <1>4, <1>5, <1>6, Zenon DEF RRNext

(* The DEFAULT policy, with its scan of proc[] and the timer of each CPU,   *)
(* takes only the steps of Proc: every theorem about Proc holds under it.   *)
THEOREM RRImplementsProc == RRSpec => Spec
<1>1. RRInit => Init /\ ScanType
  BY ProcAssumption DEF RRInit, ScanType, Procs
<1> QED BY <1>1, ScanStep, PTL DEF RRSpec, Spec

=============================================================================
