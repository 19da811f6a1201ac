------------------------------ MODULE TrapProofs ------------------------------
(***************************************************************************)
(* Traps, spin locks and context switches, proved for every number of      *)
(* harts and threads.                                                      *)
(***************************************************************************)
EXTENDS Trap, FiniteSetTheorems, TLAPS

(* Threads, harts and locks are told apart by their names.                  *)
LEMMA Names ==
  /\ Threads \cap Harts = {} /\ NoCpu \notin Harts /\ 0 \in Harts
  /\ "tickslock" \notin Threads /\ "tickslock" \in Locks /\ Threads \subseteq Locks
  /\ "none" \notin Locks
BY TrapAssumption DEF Harts, NoCpu, Locks

-----------------------------------------------------------------------------
(* Records keep their types. *)

LEMMA ContextField ==
  ASSUME NEW k \in ContextType
  PROVE  /\ \A q \in Ats : [k EXCEPT !.pc = q] \in ContextType
         /\ \A l \in Locks \cup {"none"} : [k EXCEPT !.lk = l] \in ContextType
         /\ \A r \in Ats : [k EXCEPT !.then = r] \in ContextType
         /\ \A f \in FrameType : [k EXCEPT !.trap = f] \in ContextType
         /\ \A b \in BOOLEAN : [k EXCEPT !.intena = b] \in ContextType
         /\ \A n \in SUBSET Threads : [k EXCEPT !.todo = n] \in ContextType
<1>1. \A q \in Ats : [k EXCEPT !.pc = q] \in ContextType
  BY Zenon DEF ContextType
<1>2. \A l \in Locks \cup {"none"} : [k EXCEPT !.lk = l] \in ContextType
  BY Zenon DEF ContextType
<1>3. \A r \in Ats : [k EXCEPT !.then = r] \in ContextType
  BY Zenon DEF ContextType
<1>4. \A f \in FrameType : [k EXCEPT !.trap = f] \in ContextType
  BY Zenon DEF ContextType
<1>5. \A b \in BOOLEAN : [k EXCEPT !.intena = b] \in ContextType
  BY Zenon DEF ContextType
<1>6. \A n \in SUBSET Threads : [k EXCEPT !.todo = n] \in ContextType
  BY Zenon DEF ContextType
<1> QED BY <1>1, <1>2, <1>3, <1>4, <1>5, <1>6, Zenon

LEMMA ContextUpdates ==
  ASSUME NEW k \in ContextType, NEW q \in Ats
  PROVE  /\ \A r \in Ats : [k EXCEPT !.pc = q, !.then = r] \in ContextType
         /\ \A f \in FrameType : [k EXCEPT !.pc = q, !.trap = f] \in ContextType
         /\ \A l \in Locks \cup {"none"}, b \in BOOLEAN :
              [k EXCEPT !.pc = q, !.lk = l, !.intena = b] \in ContextType
         /\ \A l \in Locks \cup {"none"}, r \in Ats, n \in SUBSET Threads :
              [k EXCEPT !.pc = q, !.lk = l, !.then = r, !.todo = n] \in ContextType
<1> DEFINE k1 == [k EXCEPT !.pc = q]
<1>1. k1 \in ContextType
  BY ContextField, Zenon
<1>2. ASSUME NEW r \in Ats PROVE [k EXCEPT !.pc = q, !.then = r] \in ContextType
  <2>1. [k EXCEPT !.pc = q, !.then = r] = [k1 EXCEPT !.then = r]
    BY Zenon
  <2> QED BY <1>1, <2>1, ContextField, Zenon
<1>3. ASSUME NEW f \in FrameType PROVE [k EXCEPT !.pc = q, !.trap = f] \in ContextType
  <2>1. [k EXCEPT !.pc = q, !.trap = f] = [k1 EXCEPT !.trap = f]
    BY Zenon
  <2> QED BY <1>1, <2>1, ContextField, Zenon
<1>4. ASSUME NEW l \in Locks \cup {"none"}, NEW b \in BOOLEAN
      PROVE  [k EXCEPT !.pc = q, !.lk = l, !.intena = b] \in ContextType
  <2>1. [k EXCEPT !.pc = q, !.lk = l, !.intena = b] = [[k1 EXCEPT !.lk = l] EXCEPT !.intena = b]
    BY Zenon
  <2>2. [k1 EXCEPT !.lk = l] \in ContextType
    BY <1>1, ContextField, Zenon
  <2> QED BY <2>1, <2>2, ContextField, Zenon
<1>5. ASSUME NEW l \in Locks \cup {"none"}, NEW r \in Ats, NEW n \in SUBSET Threads
      PROVE  [k EXCEPT !.pc = q, !.lk = l, !.then = r, !.todo = n] \in ContextType
  <2>1. [k EXCEPT !.pc = q, !.lk = l, !.then = r, !.todo = n]
          = [[[k1 EXCEPT !.lk = l] EXCEPT !.then = r] EXCEPT !.todo = n]
    BY Zenon
  <2>2. [k1 EXCEPT !.lk = l] \in ContextType
    BY <1>1, ContextField, Zenon
  <2>3. [[k1 EXCEPT !.lk = l] EXCEPT !.then = r] \in ContextType
    BY <2>2, ContextField, Zenon
  <2> QED BY <2>1, <2>3, ContextField, Zenon
<1> QED BY <1>2, <1>3, <1>4, <1>5, Zenon

LEMMA HartField ==
  ASSUME NEW h \in HartType
  PROVE  /\ \A b \in BOOLEAN : [h EXCEPT !.sie = b] \in HartType /\ [h EXCEPT !.spie = b] \in HartType
         /\ \A u \in {"U", "S"} : [h EXCEPT !.spp = u] \in HartType
         /\ \A a \in Ats : [h EXCEPT !.sepc = a] \in HartType
         /\ \A v \in {"uservec", "kernelvec"} : [h EXCEPT !.stvec = v] \in HartType
         /\ \A d \in Harts : [h EXCEPT !.tp = d] \in HartType
         /\ \A g \in Threads \cup {"kernel"} : [h EXCEPT !.regs = g] \in HartType
         /\ \A x \in Threads \cup Harts : [h EXCEPT !.run = x] \in HartType
<1>1. \A b \in BOOLEAN : [h EXCEPT !.sie = b] \in HartType
  BY Zenon DEF HartType
<1>2. \A b \in BOOLEAN : [h EXCEPT !.spie = b] \in HartType
  BY Zenon DEF HartType
<1>3. \A u \in {"U", "S"} : [h EXCEPT !.spp = u] \in HartType
  BY Zenon DEF HartType
<1>4. \A a \in Ats : [h EXCEPT !.sepc = a] \in HartType
  BY Zenon DEF HartType
<1>5. \A v \in {"uservec", "kernelvec"} : [h EXCEPT !.stvec = v] \in HartType
  BY Zenon DEF HartType
<1>6. \A d \in Harts : [h EXCEPT !.tp = d] \in HartType
  BY Zenon DEF HartType
<1>7. \A g \in Threads \cup {"kernel"} : [h EXCEPT !.regs = g] \in HartType
  BY Zenon DEF HartType
<1>8. \A x \in Threads \cup Harts : [h EXCEPT !.run = x] \in HartType
  BY Zenon DEF HartType
<1> QED BY <1>1, <1>2, <1>3, <1>4, <1>5, <1>6, <1>7, <1>8, Zenon

LEMMA HartUpdates ==
  ASSUME NEW h \in HartType, NEW s \in BOOLEAN, NEW u \in {"U", "S"}, NEW a \in Ats
  PROVE  /\ [h EXCEPT !.spie = s, !.spp = u, !.sepc = a] \in HartType
         /\ \A b \in BOOLEAN : [h EXCEPT !.sepc = a, !.spp = u, !.spie = s, !.sie = b] \in HartType
         /\ \A b \in BOOLEAN, d \in Harts, g \in Threads \cup {"kernel"} :
              [h EXCEPT !.sepc = a, !.spp = u, !.spie = s, !.sie = b, !.tp = d, !.regs = g] \in HartType
         /\ \A b \in BOOLEAN, v \in {"uservec", "kernelvec"} :
              [h EXCEPT !.sie = b, !.stvec = v, !.spp = u, !.spie = s, !.sepc = a] \in HartType
<1>1. [h EXCEPT !.spie = s, !.spp = u, !.sepc = a] \in HartType
  <2>1. [h EXCEPT !.spie = s, !.spp = u, !.sepc = a]
          = [[[h EXCEPT !.spie = s] EXCEPT !.spp = u] EXCEPT !.sepc = a]
    BY Zenon
  <2>2. [h EXCEPT !.spie = s] \in HartType
    BY HartField, Zenon
  <2>3. [[h EXCEPT !.spie = s] EXCEPT !.spp = u] \in HartType
    BY <2>2, HartField, Zenon
  <2> QED BY <2>1, <2>3, HartField, Zenon
<1>2. ASSUME NEW b \in BOOLEAN
      PROVE  [h EXCEPT !.sepc = a, !.spp = u, !.spie = s, !.sie = b] \in HartType
  <2> DEFINE h1 == [[h EXCEPT !.sepc = a] EXCEPT !.spp = u]
  <2>1. [h EXCEPT !.sepc = a, !.spp = u, !.spie = s, !.sie = b] = [[h1 EXCEPT !.spie = s] EXCEPT !.sie = b]
    BY Zenon
  <2>2. [h EXCEPT !.sepc = a] \in HartType
    BY HartField, Zenon
  <2>3. h1 \in HartType
    BY <2>2, HartField, Zenon
  <2>4. [h1 EXCEPT !.spie = s] \in HartType
    BY <2>3, HartField, Zenon
  <2> QED BY <2>1, <2>4, HartField, Zenon
<1>3. ASSUME NEW b \in BOOLEAN, NEW d \in Harts, NEW g \in Threads \cup {"kernel"}
      PROVE  [h EXCEPT !.sepc = a, !.spp = u, !.spie = s, !.sie = b, !.tp = d, !.regs = g] \in HartType
  <2> DEFINE h1 == [h EXCEPT !.sepc = a, !.spp = u, !.spie = s, !.sie = b]
  <2>1. [h EXCEPT !.sepc = a, !.spp = u, !.spie = s, !.sie = b, !.tp = d, !.regs = g]
          = [[h1 EXCEPT !.tp = d] EXCEPT !.regs = g]
    BY Zenon
  <2>2. [h1 EXCEPT !.tp = d] \in HartType
    BY <1>2, HartField, Zenon
  <2> QED BY <2>1, <2>2, HartField, Zenon
<1>4. ASSUME NEW b \in BOOLEAN, NEW v \in {"uservec", "kernelvec"}
      PROVE  [h EXCEPT !.sie = b, !.stvec = v, !.spp = u, !.spie = s, !.sepc = a] \in HartType
  <2> DEFINE h1 == [[h EXCEPT !.sie = b] EXCEPT !.stvec = v]
  <2>1. [h EXCEPT !.sie = b, !.stvec = v, !.spp = u, !.spie = s, !.sepc = a]
          = [[[h1 EXCEPT !.spp = u] EXCEPT !.spie = s] EXCEPT !.sepc = a]
    BY Zenon
  <2>2. [h EXCEPT !.sie = b] \in HartType
    BY HartField, Zenon
  <2>3. h1 \in HartType
    BY <2>2, HartField, Zenon
  <2>4. [h1 EXCEPT !.spp = u] \in HartType
    BY <2>3, HartField, Zenon
  <2>5. [[h1 EXCEPT !.spp = u] EXCEPT !.spie = s] \in HartType
    BY <2>4, HartField, Zenon
  <2> QED BY <2>1, <2>5, HartField, Zenon
<1> QED BY <1>1, <1>2, <1>3, <1>4, Zenon

LEMMA ProcUpdates ==
  ASSUME NEW f \in ProcType
  PROVE  /\ \A s \in {"RUNNABLE", "RUNNING", "SLEEPING"} : [f EXCEPT !.state = s] \in ProcType
         /\ \A a \in Ats : [f EXCEPT !.epc = a] \in ProcType
         /\ \A c \in Harts : [f EXCEPT !.hartid = c] \in ProcType
         /\ \A e \in {"none", "ecall", "timer"} : [f EXCEPT !.cause = e] \in ProcType
         /\ \A g \in Threads \cup {"kernel"}, e \in {"none", "ecall", "timer"} :
              [f EXCEPT !.regs = g, !.cause = e] \in ProcType
<1>1. \A s \in {"RUNNABLE", "RUNNING", "SLEEPING"} : [f EXCEPT !.state = s] \in ProcType
  BY Zenon DEF ProcType
<1>2. \A a \in Ats : [f EXCEPT !.epc = a] \in ProcType
  BY Zenon DEF ProcType
<1>3. \A c \in Harts : [f EXCEPT !.hartid = c] \in ProcType
  BY Zenon DEF ProcType
<1>4. \A e \in {"none", "ecall", "timer"} : [f EXCEPT !.cause = e] \in ProcType
  BY Zenon DEF ProcType
<1>5. ASSUME NEW g \in Threads \cup {"kernel"}, NEW e \in {"none", "ecall", "timer"}
      PROVE  [f EXCEPT !.regs = g, !.cause = e] \in ProcType
  <2> DEFINE f1 == [f EXCEPT !.regs = g]
  <2>1. f1 \in ProcType
    BY Zenon DEF ProcType
  <2>2. [f EXCEPT !.regs = g, !.cause = e] = [f1 EXCEPT !.cause = e]
    BY Zenon
  <2>3. [f1 EXCEPT !.cause = e] \in ProcType
    <3> HIDE DEF f1
    <3> QED BY <2>1, Zenon DEF ProcType
  <2> QED BY <2>2, <2>3, Zenon
<1> QED BY <1>1, <1>2, <1>3, <1>4, <1>5, Zenon

-----------------------------------------------------------------------------
(* A hart keeps its invariant when nothing of it or of its context changes. *)
LEMMA OtherHartInv ==
  ASSUME TrapInv, NEW d \in Harts, hart'[d] = hart[d], cpu'[d] = cpu[d], ctx'[d] = ctx[d],
         ctx'[Run(d)] = ctx[Run(d)], Run(d) \in Threads => proc'[Run(d)] = proc[Run(d)],
         \A l \in Locks : lock'[l] = d <=> lock[l] = d
  PROVE  HartInv(d)'
<1>1. HartInv(d) /\ Run(d)' = Run(d) /\ Run(d) \in Threads \cup Harts
  BY SMTT(30) DEF TrapInv, Run, HartInv
<1>2. CASE Run(d) \in Threads
  BY <1>1, <1>2, SMTT(30) DEF HartInv, Tp, Run
<1>3. CASE Run(d) \notin Threads
  <2>1. ctx[Run(d)].pc \notin {"user", "userret"}
    BY <1>1, <1>3, Zenon DEF TrapInv, ContextInv, Point, SchedulerAts, SchedulerHome, SchedulerTrap
  <2> QED BY <1>1, <1>3, <2>1, Zenon DEF HartInv, Tp, Run
<1> QED BY <1>2, <1>3, Zenon

(* Nobody else sees what the context x of hart c does to its own hart, its  *)
(* own context, its own process and its own locks.                          *)
OwnStep(c, x) ==
  /\ panicked' = "no" /\ TrapTypeOK'
  /\ Run(c) = x /\ hart'[c].run = x
  /\ \A d \in Harts \ {c} : hart'[d] = hart[d] /\ cpu'[d] = cpu[d]
  /\ \A y \in (Threads \cup Harts) \ {x} : ctx'[y] = ctx[y]
  /\ \A t \in Threads \ {x} : proc'[t] = proc[t]
  /\ \A l \in Locks, d \in Harts \ {c} : lock'[l] = d <=> lock[l] = d

LEMMA OwnStepInv ==
  ASSUME TrapInv, NEW c \in Harts, NEW x \in Threads \cup Harts, OwnStep(c, x),
         ContextInv(x)', x \in Threads => ThreadInv(x)', HartInv(c)'
  PROVE  TrapInv'
<1>1. \A d \in Harts : hart'[d].run = hart[d].run
  BY Zenon DEF OwnStep, Run
<1>2. \A d, e \in Harts : (Run(d) = Run(e))' => d = e
  BY <1>1, Zenon DEF TrapInv, Run
<1>3. ASSUME NEW y \in Threads \cup Harts PROVE ContextInv(y)'
  <2>1. CASE y = x
    BY <2>1, Zenon
  <2>2. CASE y # x
    BY <2>2 DEF OwnStep, TrapInv, ContextInv
  <2> QED BY <2>1, <2>2, Zenon
<1>4. ASSUME NEW t \in Threads PROVE ThreadInv(t)' /\ ParkedInv(t)'
  <2>1. CASE t = x
    BY <2>1, Zenon DEF OwnStep, ParkedInv, Run
  <2>2. CASE t # x
    <3>1. ctx'[t] = ctx[t] /\ proc'[t] = proc[t]
      BY <2>2, Zenon DEF OwnStep
    <3>2. (\A d \in Harts : Run(d) # t)' => \A d \in Harts : Run(d) # t
      BY <1>1, Zenon DEF Run
    <3> QED BY <3>1, <3>2, Zenon DEF TrapInv, ThreadInv, ParkedInv
  <2> QED BY <2>1, <2>2, Zenon
<1>5. ASSUME NEW d \in Harts PROVE HartInv(d)'
  <2>1. CASE d = c
    BY <2>1, Zenon
  <2>2. CASE d # c
    <3>1. HartInv(d) /\ Run(d) # x
      BY <2>2, Zenon DEF TrapInv, OwnStep
    <3>2. x = c \/ x \in Threads
      BY DEF TrapInv, HartInv, OwnStep
    <3>3. Run(d) \in Threads \cup Harts /\ (Run(d) = d \/ Run(d) \in Threads)
      BY <3>1, Zenon DEF HartInv
    <3>4. /\ hart'[d] = hart[d] /\ cpu'[d] = cpu[d] /\ ctx'[d] = ctx[d] /\ ctx'[Run(d)] = ctx[Run(d)]
          /\ Run(d)' = Run(d) /\ (Run(d) \in Threads => proc'[Run(d)] = proc[Run(d)])
          /\ \A l \in Locks : lock'[l] = d <=> lock[l] = d
      BY <2>2, <3>1, <3>2, <3>3, Names DEF OwnStep, Run
    <3> QED BY <3>4, OtherHartInv, Zenon DEF Run
  <2> QED BY <2>1, <2>2, Zenon
<1> QED BY <1>2, <1>3, <1>4, <1>5, Zenon DEF TrapInv, OwnStep

-----------------------------------------------------------------------------
(* acquire(). *)

(* What the code after acquire(), release() and the rest of a step finds in *)
(* the registers and the context that it left alone.                        *)
SameHart(c) ==
  /\ hart'[c].spie = hart[c].spie /\ hart'[c].spp = hart[c].spp /\ hart'[c].sepc = hart[c].sepc
  /\ hart'[c].stvec = hart[c].stvec /\ hart'[c].tp = hart[c].tp /\ hart'[c].regs = hart[c].regs

LEMMA Executing ==
  ASSUME TrapInv, NEW c \in Harts
  PROVE  /\ Run(c) \in Threads \cup Harts /\ Tp(c) = c /\ (Run(c) \in Threads \/ Run(c) = c)
         /\ ContextInv(Run(c)) /\ HartInv(c) /\ (Run(c) \in Threads => ThreadInv(Run(c)))
BY DEF TrapInv, HartInv

LEMMA AcquireEffect ==
  ASSUME TrapInv, NEW c \in Harts, NEW x \in Threads \cup Harts, x = Run(c), NEW l \in Locks,
         NEW q \in Ats, lock[l] # c, Acquire(c, l, q)
  PROVE  /\ OwnStep(c, x) /\ SameHart(c) /\ ~hart'[c].sie
         /\ cpu'[c].noff = cpu[c].noff + 1
         /\ cpu'[c].intena = IF cpu[c].noff = 0 THEN hart[c].sie ELSE cpu[c].intena
         /\ ctx'[x].pc = "spin" /\ ctx'[x].lk = l /\ ctx'[x].then = q
         /\ ctx'[x].trap = ctx[x].trap /\ ctx'[x].intena = ctx[x].intena
         /\ UNCHANGED <<proc, lock>>
<1>1. Tp(c) = c /\ panicked = "no" /\ TrapTypeOK
  BY Executing, Zenon DEF TrapInv
<1>2. /\ hart' = [hart EXCEPT ![c].sie = FALSE]
      /\ cpu' = [cpu EXCEPT ![c] = [noff |-> cpu[c].noff + 1,
                    intena |-> IF cpu[c].noff = 0 THEN hart[c].sie ELSE cpu[c].intena]]
      /\ ctx' = [ctx EXCEPT ![x].pc = "spin", ![x].lk = l, ![x].then = q,
                            ![x].todo = IF q = "clockintr" THEN Threads ELSE {}]
      /\ UNCHANGED <<proc, lock, panicked>>
  BY <1>1, Zenon DEF Acquire, push_off, TrapTypeOK
<1>3. hart' \in [Harts -> HartType]
  <2>1. [hart[c] EXCEPT !.sie = FALSE] \in HartType
    BY <1>1, HartField, Zenon DEF TrapTypeOK
  <2> QED BY <1>1, <1>2, <2>1, Zenon DEF TrapTypeOK
<1>4. cpu' \in [Harts -> [noff : Nat, intena : BOOLEAN]]
  <2>1. hart[c].sie \in BOOLEAN
    BY <1>1, Zenon DEF TrapTypeOK, HartType
  <2> QED BY <1>1, <1>2, <2>1 DEF TrapTypeOK
<1>5. ctx' \in [Threads \cup Harts -> ContextType]
  <2>1. [ctx[x] EXCEPT !.pc = "spin", !.lk = l, !.then = q,
                       !.todo = IF q = "clockintr" THEN Threads ELSE {}] \in ContextType
    <3>1. "spin" \in Ats /\ ctx[x] \in ContextType
      BY <1>1, Zenon DEF Ats, TrapTypeOK
    <3>2. (IF q = "clockintr" THEN Threads ELSE {}) \in SUBSET Threads
      BY Zenon
    <3> QED BY <3>1, <3>2, ContextUpdates, Zenon
  <2> QED BY <1>1, <1>2, <2>1, Zenon DEF TrapTypeOK
<1>6. TrapTypeOK'
  BY <1>1, <1>2, <1>3, <1>4, <1>5, Zenon DEF TrapTypeOK
<1>7. /\ \A d \in Harts \ {c} : hart'[d] = hart[d] /\ cpu'[d] = cpu[d]
      /\ \A y \in (Threads \cup Harts) \ {x} : ctx'[y] = ctx[y]
  BY <1>1, <1>2, Zenon DEF TrapTypeOK
<1>8. /\ hart'[c].run = x /\ SameHart(c) /\ ~hart'[c].sie
      /\ cpu'[c].noff = cpu[c].noff + 1
      /\ cpu'[c].intena = IF cpu[c].noff = 0 THEN hart[c].sie ELSE cpu[c].intena
  BY <1>1, <1>2 DEF TrapTypeOK, SameHart, Run
<1>9. /\ ctx'[x].pc = "spin" /\ ctx'[x].lk = l /\ ctx'[x].then = q
      /\ ctx'[x].trap = ctx[x].trap /\ ctx'[x].intena = ctx[x].intena
  BY <1>1, <1>2 DEF TrapTypeOK
<1> QED BY <1>1, <1>2, <1>6, <1>7, <1>8, <1>9, Zenon DEF OwnStep

(* The calls of acquire(), each with the point that it is called from. *)
AcquireCall(x, pc, l, q) ==
  \/ pc = "scan" /\ l \in Threads /\ q = "picked"
  \/ pc = "devintr" /\ l = "tickslock" /\ q = "clockintr"
  \/ pc = "yield" /\ l = x /\ q = "yielding"
  \/ pc \in {"syscall", "reacquire"} /\ l = "tickslock" /\ q = "while"
  \/ pc = "while" /\ l = x /\ q = "sleep"

LEMMA AcquireInv ==
  ASSUME TrapInv, NEW c \in Harts, NEW x \in Threads \cup Harts, x = Run(c), NEW l, NEW q,
         AcquireCall(x, ctx[x].pc, l, q), Acquire(c, l, q)
  PROVE  TrapInv'
<1> DEFINE pc == ctx[x].pc
<1>1. ContextInv(x) /\ HartInv(c) /\ (x \in Threads => ThreadInv(x)) /\ (x \in Threads \/ x = c)
  BY Executing, Zenon
<1>2. pc # "spin" /\ Point(ctx[x]) = pc
  BY Zenon DEF AcquireCall, Point
<1>3. pc \in {"yield", "syscall", "reacquire", "while"} => x \in Threads
  BY <1>1, <1>2, Zenon DEF ContextInv, SchedulerAts, SchedulerHome, SchedulerTrap
<1>4. pc = "scan" => x \notin Threads
  BY <1>1, <1>2, Zenon DEF ContextInv, ThreadAts, ThreadHome, ThreadTrap, SchedulerTrap
<1>5. l \in Locks /\ q \in Ats
  BY <1>3, Names, Zenon DEF AcquireCall, Ats, SchedulerAts, SchedulerTrap, ThreadAts, ThreadTrap
<1>6. HeldAt(x, ctx[x]) = IF pc = "while" THEN {"tickslock"} ELSE {}
  BY <1>2, Zenon DEF HeldAt, LocksAt, AcquireCall
<1>7. lock[l] # c
  BY <1>1, <1>3, <1>5, <1>6, Names, Zenon DEF HartInv, AcquireCall
<1>8. /\ OwnStep(c, x) /\ SameHart(c) /\ ~hart'[c].sie
      /\ cpu'[c].noff = cpu[c].noff + 1
      /\ cpu'[c].intena = IF cpu[c].noff = 0 THEN hart[c].sie ELSE cpu[c].intena
      /\ ctx'[x].pc = "spin" /\ ctx'[x].lk = l /\ ctx'[x].then = q
      /\ ctx'[x].trap = ctx[x].trap /\ ctx'[x].intena = ctx[x].intena
      /\ UNCHANGED <<proc, lock>>
  BY <1>5, <1>7, AcquireEffect
<1>9. Point(ctx[x])' = q /\ Point(ctx'[x]) = q
  BY <1>8, Zenon DEF Point
<1>10. ContextInv(x)'
  <2>1. q \in IF x \in Threads THEN ThreadAts ELSE SchedulerAts
    BY <1>3, <1>4, Zenon DEF AcquireCall, ThreadAts, ThreadTrap, SchedulerAts, SchedulerTrap
  <2>2. /\ q \in {"picked", "clockintr", "yielding", "while", "sleep"}
        /\ q \in {"picked", "back"} => l \in Threads
        /\ q \in {"clockintr", "while"} => l = "tickslock"
        /\ q \in {"yielding", "sleep"} => l = x
    BY Zenon DEF AcquireCall
  <2>3. ctx[x].trap # NoTrap => q \in IF x \in Threads THEN ThreadTrap ELSE SchedulerTrap
    BY <1>1, <1>2, <1>3, <1>4, Zenon
    DEF ContextInv, AcquireCall, ThreadTrap, SchedulerTrap
  <2>4. ctx[x].trap = NoTrap => q \notin IF x \in Threads THEN {"kernelret", "sret"} ELSE SchedulerTrap
    BY <1>1, <1>2, <1>3, <1>4, Zenon DEF ContextInv, AcquireCall, SchedulerTrap
  <2> QED BY <1>1, <1>8, <1>9, <2>1, <2>2, <2>3, <2>4, Zenon DEF ContextInv
<1>11. x \in Threads => ThreadInv(x)'
  <2>1. pc \notin {"user", "usertrap"}
    BY Zenon DEF AcquireCall
  <2> QED BY <1>1, <1>8, <2>1, Zenon DEF ThreadInv
<1>12. HartInv(c)'
  <2>1. HeldAt(x, ctx'[x]) = HeldAt(x, ctx[x])
    BY <1>3, <1>6, <1>8, <1>9, Names, SMTT(30) DEF HeldAt, LocksAt, AcquireCall
  <2>2. (Run(c))' = x /\ Tp(c)' = c
    BY <1>1, <1>8, Zenon DEF OwnStep, SameHart, Run, Tp, HartInv
  <2>3. /\ cpu'[c].noff = IF q \in OneLock THEN 1 ELSE IF q = "sleep" THEN 2 ELSE 0
        /\ q \in {"clockintr", "yielding"} => ~cpu'[c].intena
        /\ q \in {"while", "sleep"} => cpu'[c].intena
    BY <1>1, <1>2, <1>8, SMTT(30) DEF HartInv, AcquireCall, OneLock
  <2>4. x = c \/ (x \in Threads /\ proc'[x].state = "RUNNING" /\ ctx'[c].pc = "back" /\ ctx'[c].lk = x)
    BY <1>1, <1>8, Names, Zenon DEF HartInv, OwnStep
  <2>5. hart'[c].stvec = "kernelvec"
    BY <1>1, <1>8, Zenon DEF HartInv, AcquireCall, SameHart
  <2>6. \A m \in Locks : lock'[m] = c <=> m \in HeldAt(x, ctx'[x])
    BY <1>1, <1>8, <2>1, Zenon DEF HartInv
  <2> QED BY <1>8, <1>9, <2>2, <2>3, <2>4, <2>5, <2>6, Zenon DEF HartInv
<1> QED BY <1>8, <1>10, <1>11, <1>12, OwnStepInv, Zenon

-----------------------------------------------------------------------------
(* release(). *)

CpuType == [noff : Nat, intena : BOOLEAN]

LEMMA ReleaseEffect ==
  ASSUME TrapInv, NEW c \in Harts, NEW x \in Threads \cup Harts, x = Run(c), NEW l \in Locks,
         NEW k \in CpuType, NEW q \in Ats, k.noff = 1, lock[l] = c, ~hart[c].sie, Release(c, l, k, q)
  PROVE  /\ OwnStep(c, x) /\ SameHart(c) /\ (hart'[c].sie <=> k.intena)
         /\ cpu'[c].noff = 0
         /\ ctx'[x].pc = q /\ ctx'[x].trap = ctx[x].trap
         /\ proc' = proc /\ lock' = [lock EXCEPT ![l] = NoCpu]
<1>1. Tp(c) = c /\ panicked = "no" /\ TrapTypeOK
  BY Executing, Zenon DEF TrapInv
<1>2. /\ hart' = [hart EXCEPT ![c].sie = hart[c].sie \/ (k.noff = 1 /\ k.intena)]
      /\ cpu' = [cpu EXCEPT ![c] = [k EXCEPT !.noff = k.noff - 1]]
      /\ ctx' = [ctx EXCEPT ![x].pc = q, ![x].lk = "none", ![x].intena = FALSE]
      /\ lock' = [lock EXCEPT ![l] = NoCpu]
      /\ UNCHANGED <<proc, panicked>>
  BY <1>1 DEF Release, pop_off, TrapTypeOK, CpuType
<1>3. hart' \in [Harts -> HartType]
  <2>1. \A b \in BOOLEAN : [hart[c] EXCEPT !.sie = b] \in HartType
    BY <1>1, HartField, Zenon DEF TrapTypeOK
  <2>2. (hart[c].sie \/ (k.noff = 1 /\ k.intena)) \in BOOLEAN
    BY Zenon
  <2>3. [hart[c] EXCEPT !.sie = hart[c].sie \/ (k.noff = 1 /\ k.intena)] \in HartType
    BY <2>1, <2>2, Zenon
  <2> QED BY <1>1, <1>2, <2>3, Zenon DEF TrapTypeOK
<1>4. cpu' \in [Harts -> [noff : Nat, intena : BOOLEAN]]
  <2>1. [k EXCEPT !.noff = k.noff - 1] \in CpuType
    BY DEF CpuType
  <2> QED BY <1>1, <1>2, <2>1, Zenon DEF TrapTypeOK, CpuType
<1>5. ctx' \in [Threads \cup Harts -> ContextType]
  <2>1. [ctx[x] EXCEPT !.pc = q, !.lk = "none", !.intena = FALSE] \in ContextType
    <3>1. ctx[x] \in ContextType
      BY <1>1, Zenon DEF TrapTypeOK
    <3> QED BY <3>1, ContextUpdates, Zenon
  <2> QED BY <1>1, <1>2, <2>1, Zenon DEF TrapTypeOK
<1>6. TrapTypeOK'
  BY <1>1, <1>2, <1>3, <1>4, <1>5, Zenon DEF TrapTypeOK
<1>7. /\ \A d \in Harts \ {c} : hart'[d] = hart[d] /\ cpu'[d] = cpu[d]
      /\ \A y \in (Threads \cup Harts) \ {x} : ctx'[y] = ctx[y]
  BY <1>1, <1>2, Zenon DEF TrapTypeOK
<1>8. /\ hart'[c].run = x /\ SameHart(c) /\ (hart'[c].sie <=> k.intena)
  BY <1>1, <1>2 DEF TrapTypeOK, SameHart, Run, HartType, CpuType
<1>9. cpu'[c].noff = 0
  BY <1>1, <1>2 DEF TrapTypeOK, CpuType
<1>10. ctx'[x].pc = q /\ ctx'[x].trap = ctx[x].trap
  BY <1>1, <1>2 DEF TrapTypeOK
<1>11. \A m \in Locks, d \in Harts \ {c} : lock'[m] = d <=> lock[m] = d
  BY <1>1, <1>2, Names, Zenon DEF TrapTypeOK
<1> QED BY <1>1, <1>2, <1>6, <1>7, <1>8, <1>9, <1>10, <1>11, Zenon DEF OwnStep

(* The calls of release(), each with the point that it is called from, the  *)
(* intena that pop_off() finds and the point where the code goes on.        *)
ReleaseCall(c, x, pc, l, k, q) ==
  \/ pc \in {"picked", "back"} /\ l = ctx[x].lk /\ k = cpu[c] /\ q = "scan"
  \/ pc = "clockintr" /\ l = "tickslock" /\ k = cpu[c] /\ q = Acked(c)
  \/ /\ pc = "yielded" /\ l = x /\ k = Resumed(c)
     /\ q = IF ctx[x].trap # NoTrap THEN "kernelret" ELSE "usertrapret"
  \/ pc = "forkret" /\ l = x /\ k = cpu[c] /\ q = "usertrapret"
  \/ pc = "while" /\ l = "tickslock" /\ k = cpu[c] /\ q = "usertrapret"
  \/ pc = "slept" /\ l = x /\ k = Resumed(c) /\ q = "reacquire"

(* Of the contexts, threads yield when a tick is over; schedulers go on.    *)
LEMMA AckedPoint ==
  ASSUME TrapInv, NEW c \in Harts, NEW x \in Threads \cup Harts, x = Run(c)
  PROVE  Acked(c) = IF x \in Threads THEN "yield" ELSE "kernelret"
BY Executing, Names DEF Acked, HartInv

LEMMA ReleaseInv ==
  ASSUME TrapInv, NEW c \in Harts, NEW x \in Threads \cup Harts, x = Run(c), NEW l, NEW k, NEW q,
         ReleaseCall(c, x, ctx[x].pc, l, k, q), Release(c, l, k, q)
  PROVE  TrapInv'
<1> DEFINE pc == ctx[x].pc
<1>1. ContextInv(x) /\ HartInv(c) /\ (x \in Threads => ThreadInv(x)) /\ (x \in Threads \/ x = c) /\ Tp(c) = c
  BY Executing, Zenon
<1>2. pc # "spin" /\ Point(ctx[x]) = pc
  BY Zenon DEF ReleaseCall, Point
<1>3. pc \in {"yielded", "forkret", "while", "slept"} => x \in Threads
  BY <1>1, <1>2, Zenon DEF ContextInv, SchedulerAts, SchedulerHome, SchedulerTrap
<1>4. pc \in {"picked", "back"} => x \notin Threads
  BY <1>1, <1>2, Zenon DEF ContextInv, ThreadAts, ThreadHome, ThreadTrap, SchedulerTrap
<1>5. Acked(c) = IF x \in Threads THEN "yield" ELSE "kernelret"
  BY AckedPoint, Zenon
<1>6. HeldAt(x, ctx[x]) = {l} /\ l \in Locks
  <2>1. l \in Locks
    BY <1>1, <1>2, <1>3, Names, Zenon DEF ContextInv, ReleaseCall
  <2>2. HeldAt(x, ctx[x]) = {l}
    BY <1>2, Zenon DEF HeldAt, LocksAt, ReleaseCall
  <2> QED BY <2>1, <2>2, Zenon
<1>7. lock[l] = c /\ cpu[c].noff = 1 /\ ~hart[c].sie /\ hart[c].stvec = "kernelvec"
  BY <1>1, <1>2, <1>6, Zenon DEF HartInv, ReleaseCall, OneLock
<1>8. q \in Ats
  BY <1>5, Zenon DEF ReleaseCall, Ats, SchedulerAts, SchedulerHome, SchedulerTrap, ThreadAts, ThreadHome, ThreadTrap
<1>9. k \in CpuType /\ k.noff = 1
      /\ (k.intena <=> IF pc \in {"yielded", "slept"} THEN ctx[x].intena ELSE cpu[c].intena)
  <2>1. cpu[c] \in CpuType /\ ctx[x].intena \in BOOLEAN
    BY Zenon DEF TrapInv, TrapTypeOK, CpuType, ContextType
  <2>2. CASE pc \in {"yielded", "slept"}
    <3>1. k = [cpu[c] EXCEPT !.intena = ctx[x].intena]
      BY <1>1, <2>2, Zenon DEF ReleaseCall, Resumed
    <3> QED BY <1>7, <2>1, <2>2, <3>1, Zenon DEF CpuType
  <2>3. CASE pc \notin {"yielded", "slept"}
    BY <1>7, <2>1, <2>3, Zenon DEF ReleaseCall
  <2> QED BY <2>2, <2>3, Zenon
<1>10. /\ OwnStep(c, x) /\ SameHart(c) /\ (hart'[c].sie <=> k.intena)
       /\ cpu'[c].noff = 0
       /\ ctx'[x].pc = q /\ ctx'[x].trap = ctx[x].trap
       /\ proc' = proc /\ lock' = [lock EXCEPT ![l] = NoCpu]
  BY <1>6, <1>7, <1>8, <1>9, ReleaseEffect
<1>11. Point(ctx'[x]) = q /\ q \in {"scan", "yield", "kernelret", "usertrapret", "reacquire"}
  BY <1>5, <1>10, Zenon DEF Point, ReleaseCall
<1>12. ContextInv(x)'
  <2>1. q \in IF x \in Threads THEN ThreadAts ELSE SchedulerAts
    BY <1>3, <1>4, <1>5, Zenon DEF ReleaseCall, ThreadAts, ThreadHome, ThreadTrap, SchedulerAts, SchedulerHome, SchedulerTrap
  <2>2. ctx[x].trap # NoTrap => q \in IF x \in Threads THEN ThreadTrap ELSE SchedulerTrap
    BY <1>1, <1>2, <1>3, <1>4, <1>5, Zenon DEF ContextInv, ReleaseCall, ThreadTrap, SchedulerTrap
  <2>3. ctx[x].trap = NoTrap => q \notin IF x \in Threads THEN {"kernelret", "sret"} ELSE SchedulerTrap
    BY <1>1, <1>2, <1>3, <1>4, <1>5, Zenon DEF ContextInv, ReleaseCall, SchedulerTrap
  <2> QED BY <1>1, <1>10, <1>11, <2>1, <2>2, <2>3, Zenon DEF ContextInv
<1>13. x \in Threads => ThreadInv(x)'
  <2>1. pc \notin {"user", "usertrap"}
    BY Zenon DEF ReleaseCall
  <2> QED BY <1>1, <1>10, <1>11, <2>1, Zenon DEF ThreadInv
<1>14. HartInv(c)'
  <2>1. HeldAt(x, ctx'[x]) = {}
    BY <1>10, <1>11, Zenon DEF HeldAt, LocksAt
  <2>2. (Run(c))' = x /\ Tp(c)' = c
    BY <1>1, <1>10, Zenon DEF OwnStep, SameHart, Run, Tp, HartInv
  <2>3. q \in {"yield", "kernelret"} => ~k.intena
    BY <1>1, <1>2, <1>3, <1>9, Zenon DEF HartInv, ThreadInv, ReleaseCall
  <2>4. q = "reacquire" => k.intena
    BY <1>1, <1>3, <1>5, <1>9, Zenon DEF ThreadInv, ReleaseCall
  <2>5. x = c \/ (x \in Threads /\ proc'[x].state = "RUNNING" /\ ctx'[c].pc = "back" /\ ctx'[c].lk = x)
    BY <1>1, <1>10, Names, Zenon DEF HartInv, OwnStep
  <2>6. \A m \in Locks : lock'[m] # c
    <3>1. \A m \in Locks : lock[m] = c <=> m = l
      BY <1>1, <1>6, Zenon DEF HartInv
    <3>2. lock \in [Locks -> Harts \cup {NoCpu}]
      BY Zenon DEF TrapInv, TrapTypeOK
    <3> QED BY <1>6, <1>10, <3>1, <3>2, Names, Zenon
  <2> QED BY <1>7, <1>10, <1>11, <2>1, <2>2, <2>3, <2>4, <2>5, <2>6, SMTT(30) DEF HartInv, OneLock, SameHart
<1> QED BY <1>10, <1>12, <1>13, <1>14, OwnStepInv, Zenon

-----------------------------------------------------------------------------
(* Getting the lock that a context spins for. *)

LEMMA SpinInv ==
  ASSUME TrapInv, NEW c \in Harts, Spin(c)
  PROVE  TrapInv'
<1>0. PICK x, q, l : x = Run(c) /\ q = ctx[x].then /\ l = ctx[x].lk
  BY Zenon
<1>1. /\ x \in Threads \cup Harts /\ (x \in Threads \/ x = c) /\ Tp(c) = c
      /\ ContextInv(x) /\ HartInv(c) /\ (x \in Threads => ThreadInv(x))
  BY <1>0, Executing, Zenon
<1>2. TrapTypeOK /\ panicked = "no" /\ ctx[x].pc = "spin" /\ Point(ctx[x]) = q
  BY <1>0, Zenon DEF Spin, At, TrapInv, Point
<1>3. q \in {"picked", "clockintr", "yielding", "while", "sleep"}
  BY <1>1, <1>2, Zenon DEF ContextInv
<1>4. l \in Locks
  BY <1>0, <1>1, <1>2, <1>3, Names, Zenon DEF ContextInv, ThreadAts, SchedulerAts, SchedulerHome, SchedulerTrap
<1>5. /\ lock[l] = NoCpu /\ lock' = [lock EXCEPT ![l] = c]
      /\ ctx' = [ctx EXCEPT ![x].pc = q, ![x].then = "none"]
      /\ UNCHANGED <<hart, cpu, proc, panicked>>
  BY <1>0, <1>1, Zenon DEF Spin
<1>6. TrapTypeOK'
  <2>1. [ctx[x] EXCEPT !.pc = q, !.then = "none"] \in ContextType
    <3>1. ctx[x] \in ContextType /\ q \in Ats /\ "none" \in Ats
      BY <1>0, <1>1, <1>2 DEF TrapTypeOK, ContextType, Ats
    <3> QED BY <3>1, ContextUpdates, Zenon
  <2>2. ctx' \in [Threads \cup Harts -> ContextType]
    BY <1>2, <1>5, <2>1, Zenon DEF TrapTypeOK
  <2>3. lock' \in [Locks -> Harts \cup {NoCpu}]
    BY <1>2, <1>4, <1>5, Zenon DEF TrapTypeOK
  <2> QED BY <1>2, <1>5, <2>2, <2>3, Zenon DEF TrapTypeOK
<1>7. /\ ctx'[x].pc = q /\ ctx'[x].lk = l /\ ctx'[x].trap = ctx[x].trap /\ ctx'[x].intena = ctx[x].intena
      /\ \A y \in (Threads \cup Harts) \ {x} : ctx'[y] = ctx[y]
  BY <1>0, <1>1, <1>2, <1>5 DEF TrapTypeOK
<1>8. Point(ctx'[x]) = q
  BY <1>3, <1>7, Zenon DEF Point
<1>9. OwnStep(c, x)
  <2>1. \A m \in Locks, d \in Harts \ {c} : lock'[m] = d <=> lock[m] = d
    BY <1>2, <1>4, <1>5, Names, Zenon DEF TrapTypeOK
  <2> QED BY <1>0, <1>2, <1>5, <1>6, <1>7, <2>1, Zenon DEF OwnStep, Run
<1>10. ContextInv(x)'
  BY <1>0, <1>1, <1>2, <1>3, <1>7, <1>8, Zenon DEF ContextInv
<1>11. x \in Threads => ThreadInv(x)'
  BY <1>1, <1>2, <1>3, <1>5, <1>7, Zenon DEF ThreadInv
<1>12. HartInv(c)'
  <2>1. LocksAt(x, ctx'[x]) = LocksAt(x, ctx[x]) /\ HeldAt(x, ctx'[x]) = LocksAt(x, ctx'[x])
    BY <1>0, <1>2, <1>3, <1>7, <1>8, Zenon DEF LocksAt, HeldAt
  <2>2. l \in LocksAt(x, ctx[x]) /\ HeldAt(x, ctx[x]) = LocksAt(x, ctx[x]) \ {l}
    BY <1>0, <1>1, <1>2, <1>3, Zenon DEF ContextInv, LocksAt, HeldAt
  <2>3. \A m \in Locks : lock'[m] = c <=> m \in HeldAt(x, ctx'[x])
    BY <1>0, <1>1, <1>2, <1>4, <1>5, <2>1, <2>2 DEF HartInv, TrapTypeOK
  <2>4. x = c \/ (x \in Threads /\ proc'[x].state = "RUNNING" /\ ctx'[c].pc = "back" /\ ctx'[c].lk = x)
    BY <1>0, <1>1, <1>5, <1>7, Names, Zenon DEF HartInv
  <2>5. Run(c)' = x /\ Tp(c)' = c
    BY <1>0, <1>1, <1>5, Zenon DEF Run, Tp
  <2>6. /\ cpu'[c].noff = IF q \in OneLock THEN 1 ELSE IF q = "sleep" THEN 2 ELSE 0
        /\ q \in {"clockintr", "yielding"} => ~cpu'[c].intena
        /\ q \in {"while", "sleep"} => cpu'[c].intena
        /\ ~hart'[c].sie /\ hart'[c].stvec = "kernelvec"
    BY <1>0, <1>1, <1>2, <1>5, Zenon DEF HartInv
  <2> QED BY <1>3, <1>7, <1>8, <2>3, <2>4, <2>5, <2>6, Zenon DEF HartInv
<1> QED BY <1>1, <1>9, <1>10, <1>11, <1>12, OwnStepInv, Zenon

-----------------------------------------------------------------------------
(* Steps outside every lock, which touch the registers of the hart, the     *)
(* context and its trapframe only.                                          *)

LockFree ==
  {"top", "scan", "syscall", "reacquire", "usertrapret", "user", "usertrap", "userret", "devintr", "yield",
   "kernelret", "sret"}

(* What HartInv says of the registers h of hart c, whose context x is at pc, *)
(* has a trap taken at a, and has the trapframe f.                          *)
RegistersAt(c, x, h, pc, a, f) ==
  /\ pc \notin {"top", "scan", "usertrapret"} => (h.sie <=> pc \in {"user", "syscall", "reacquire"})
  /\ h.stvec = IF pc \in {"user", "usertrap", "userret"} THEN "uservec" ELSE "kernelvec"
  /\ pc \in {"user", "userret"} => f.hartid = c
  /\ pc = "user" => h.regs = x
  /\ pc = "usertrap" => h.spp = "U" /\ h.sepc = "user"
  /\ pc = "userret" => h.spp = "U" /\ h.sepc = f.epc /\ h.spie
  /\ pc = "sret" => h.spp = "S" /\ h.sepc = a /\ h.spie

LEMMA RegisterInv ==
  ASSUME TrapInv, NEW c \in Harts, NEW x \in Threads \cup Harts, OwnStep(c, x),
         UNCHANGED <<cpu, lock>>, hart'[c].tp = c, x \in Threads => proc'[x].state = proc[x].state,
         ctx[x].pc \in LockFree, ctx'[x].pc \in LockFree,
         ContextInv(x)', x \in Threads => ThreadInv(x)',
         RegistersAt(c, x, hart'[c], ctx'[x].pc, ctx'[x].trap.at, proc'[x])
  PROVE  TrapInv'
<1>1. Run(c) = x /\ HartInv(c) /\ (x \in Threads \/ x = c)
  BY Executing, Zenon DEF OwnStep
<1>2. Point(ctx[x]) = ctx[x].pc /\ Point(ctx'[x]) = ctx'[x].pc
  BY Zenon DEF Point, LockFree
<1>3. HeldAt(x, ctx[x]) = {} /\ HeldAt(x, ctx'[x]) = {}
  BY <1>2, Zenon DEF HeldAt, LocksAt, LockFree
<1>4. /\ \A l \in Locks : lock'[l] = c <=> l \in HeldAt(x, ctx'[x])
      /\ cpu'[c].noff = 0 /\ ctx'[x].pc \notin OneLock \cup {"spin", "sleep"}
  BY <1>1, <1>2, <1>3, Zenon DEF HartInv, LockFree, OneLock
<1>5. x = c \/ (x \in Threads /\ proc'[x].state = "RUNNING" /\ ctx'[c].pc = "back" /\ ctx'[c].lk = x)
  BY <1>1, Names, Zenon DEF HartInv, OwnStep
<1>6. Run(c)' = x /\ Tp(c)' = c
  BY Zenon DEF Run, Tp, OwnStep
<1>7. ctx'[x].pc \notin {"clockintr", "yielding", "while", "sleep"}
  BY Zenon DEF LockFree
<1>8. HartInv(c)'
  BY <1>2, <1>4, <1>5, <1>6, <1>7, Zenon DEF HartInv, RegistersAt, OneLock
<1> QED BY <1>8, OwnStepInv, Zenon

(* The step gives the hart the registers h, its context the state y.       *)
Updated(c, x, h, y) ==
  /\ hart' = [hart EXCEPT ![c] = h] /\ h \in HartType /\ h.run = x
  /\ ctx' = [ctx EXCEPT ![x] = y] /\ y \in ContextType
  /\ proc' \in [Threads -> ProcType] /\ \A t \in Threads \ {x} : proc'[t] = proc[t]
  /\ UNCHANGED <<cpu, lock, panicked>>

LEMMA RegisterEffect ==
  ASSUME TrapInv, NEW c \in Harts, NEW x \in Threads \cup Harts, x = Run(c), NEW h, NEW y, Updated(c, x, h, y)
  PROVE  OwnStep(c, x) /\ hart'[c] = h /\ ctx'[x] = y
<1>1. TrapTypeOK /\ panicked = "no"
  BY Zenon DEF TrapInv
<1>2. TrapTypeOK'
  BY <1>1, Zenon DEF TrapTypeOK, Updated
<1>3. /\ hart'[c] = h /\ ctx'[x] = y
      /\ \A d \in Harts \ {c} : hart'[d] = hart[d]
      /\ \A z \in (Threads \cup Harts) \ {x} : ctx'[z] = ctx[z]
  BY <1>1, Zenon DEF TrapTypeOK, Updated
<1> QED BY <1>1, <1>2, <1>3, Zenon DEF OwnStep, Updated

(* The same for a context that goes on at q. *)
Moved(c, x, h, q) ==
  /\ hart' = [hart EXCEPT ![c] = h] /\ h \in HartType /\ h.run = x
  /\ Goto(c, q) /\ q \in Ats
  /\ proc' \in [Threads -> ProcType] /\ \A t \in Threads \ {x} : proc'[t] = proc[t]
  /\ UNCHANGED <<cpu, lock, panicked>>

LEMMA GotoEffect ==
  ASSUME TrapInv, NEW c \in Harts, NEW x \in Threads \cup Harts, x = Run(c), NEW h, NEW q, Moved(c, x, h, q)
  PROVE  /\ OwnStep(c, x) /\ hart'[c] = h
         /\ ctx'[x].pc = q /\ ctx'[x].trap = ctx[x].trap /\ ctx'[x].lk = ctx[x].lk
         /\ ctx'[x].intena = ctx[x].intena
<1>1. PICK y : y = [ctx[x] EXCEPT !.pc = q]
  BY Zenon
<1>2. ctx[x] \in ContextType
  BY Zenon DEF TrapInv, TrapTypeOK
<1>3. y \in ContextType /\ ctx' = [ctx EXCEPT ![x] = y]
  BY <1>1, <1>2, ContextField, Zenon DEF Goto, Moved
<1>4. OwnStep(c, x) /\ hart'[c] = h /\ ctx'[x] = y
  <2>1. Updated(c, x, h, y)
    BY <1>3, Zenon DEF Updated, Moved
  <2> QED BY <2>1, RegisterEffect, Zenon
<1>5. y.pc = q /\ y.trap = ctx[x].trap /\ y.lk = ctx[x].lk /\ y.intena = ctx[x].intena
  BY <1>1, <1>2, Zenon DEF ContextType
<1> QED BY <1>4, <1>5, Zenon

(* Where a context outside every lock may go on, its trap being as it was.  *)
LEMMA GotoContext ==
  ASSUME NEW x, ContextInv(x), ctx[x].pc \in LockFree, ctx'[x].pc \in LockFree, ctx'[x].trap = ctx[x].trap,
         ctx'[x].pc \in IF x \in Threads THEN ThreadAts ELSE SchedulerAts,
         ctx[x].trap # NoTrap => ctx'[x].pc \in IF x \in Threads THEN ThreadTrap ELSE SchedulerTrap,
         ctx[x].trap = NoTrap =>
           ctx'[x].pc \notin IF x \in Threads THEN {"kernelret", "sret"} ELSE SchedulerTrap
  PROVE  ContextInv(x)'
<1>1. Point(ctx[x]) = ctx[x].pc /\ Point(ctx'[x]) = ctx'[x].pc
  BY Zenon DEF Point, LockFree
<1>2. ctx'[x].pc \notin {"spin", "picked", "back"}
  BY Zenon DEF LockFree
<1> QED BY <1>1, <1>2, Zenon DEF ContextInv

(* The context of hart c, at pc outside a lock, and the hart as the types say. *)
LEMMA AtPoint ==
  ASSUME TrapInv, NEW c \in Harts, NEW x \in Threads \cup Harts, x = Run(c), ctx[x].pc \in LockFree
  PROVE  /\ ContextInv(x) /\ HartInv(c) /\ (x \in Threads => ThreadInv(x)) /\ (x \in Threads \/ x = c)
         /\ hart[c] \in HartType /\ hart[c].run = x /\ hart[c].tp = c /\ ctx[x] \in ContextType
         /\ x \in Threads => proc[x] \in ProcType
         /\ hart = [hart EXCEPT ![c] = hart[c]] /\ proc \in [Threads -> ProcType]
         /\ Point(ctx[x]) = ctx[x].pc
         /\ RegistersAt(c, x, hart[c], ctx[x].pc, ctx[x].trap.at, proc[x])
<1>1. Point(ctx[x]) = ctx[x].pc
  BY Zenon DEF Point, LockFree
<1>2. TrapTypeOK /\ hart[c].tp = c
  BY Executing, Zenon DEF TrapInv, Tp
<1>3. ContextInv(x) /\ HartInv(c) /\ (x \in Threads => ThreadInv(x)) /\ (x \in Threads \/ x = c)
  BY Executing, Zenon
<1>4. RegistersAt(c, x, hart[c], ctx[x].pc, ctx[x].trap.at, proc[x])
  BY <1>3, Zenon DEF HartInv, RegistersAt
<1> QED BY <1>1, <1>2, <1>3, <1>4, Zenon DEF TrapTypeOK, Run

(* scheduler() turns interrupts on. *)
LEMMA LoopInv ==
  ASSUME TrapInv, NEW c \in Harts, Loop(c)
  PROVE  TrapInv'
<1>1. PICK x, h : x = Run(c) /\ h = [hart[c] EXCEPT !.sie = TRUE]
  BY Zenon
<1>2. x \in Threads \cup Harts /\ ctx[x].pc = "top" /\ "top" \in LockFree /\ "scan" \in LockFree
  BY <1>1, Executing, Zenon DEF Loop, At, LockFree
<1>3. /\ ContextInv(x) /\ (x \in Threads \/ x = c) /\ hart[c] \in HartType /\ hart[c].run = x /\ hart[c].tp = c
      /\ proc \in [Threads -> ProcType] /\ Point(ctx[x]) = "top" /\ hart[c].stvec = "kernelvec"
  BY <1>1, <1>2, AtPoint DEF RegistersAt
<1>4. x \notin Threads
  BY <1>3, Zenon DEF ContextInv, ThreadAts, ThreadHome, ThreadTrap, SchedulerTrap
<1>5. h \in HartType /\ h.run = x /\ h.tp = c /\ h.stvec = "kernelvec"
  <2>1. h \in HartType
    BY <1>1, <1>3, HartField, Zenon
  <2> QED BY <1>1, <1>3, <2>1, Zenon DEF HartType
<1>6. Moved(c, x, h, "scan")
  BY <1>1, <1>3, <1>5, Zenon DEF Loop, Moved, Ats, SchedulerAts, SchedulerHome
<1>7. OwnStep(c, x) /\ hart'[c] = h /\ ctx'[x].pc = "scan" /\ ctx'[x].trap = ctx[x].trap
  BY <1>1, <1>2, <1>6, GotoEffect
<1>8. ContextInv(x)'
  <2>1. ctx[x].trap = NoTrap
    BY <1>3, <1>4, Zenon DEF ContextInv, SchedulerTrap
  <2> QED BY <1>2, <1>3, <1>4, <1>7, <2>1, GotoContext, Zenon DEF SchedulerAts, SchedulerHome, SchedulerTrap
<1>9. RegistersAt(c, x, hart'[c], ctx'[x].pc, ctx'[x].trap.at, proc'[x])
  BY <1>5, <1>7, Zenon DEF RegistersAt
<1> QED BY <1>2, <1>4, <1>5, <1>7, <1>8, <1>9, RegisterInv, Zenon DEF Loop

(* Steps that only go on: the end of a scan, a system call that returns,    *)
(* and devintr() of a hart that does not keep the time.                     *)
PlainGoto(c, pc, q) ==
  \/ pc = "scan" /\ q = "top"
  \/ pc = "syscall" /\ q = "usertrapret"
  \/ pc = "devintr" /\ q = Acked(c)

LEMMA PlainGotoInv ==
  ASSUME TrapInv, NEW c \in Harts, NEW x \in Threads \cup Harts, x = Run(c), NEW q,
         PlainGoto(c, ctx[x].pc, q), Goto(c, q), UNCHANGED <<hart, cpu, proc, lock, panicked>>
  PROVE  TrapInv'
<1>1. Acked(c) = IF x \in Threads THEN "yield" ELSE "kernelret"
  BY AckedPoint, Zenon
<1>2. ctx[x].pc \in LockFree /\ q \in LockFree /\ q \in Ats
  BY <1>1, Zenon DEF PlainGoto, LockFree, Ats, SchedulerAts, SchedulerHome, SchedulerTrap, ThreadAts, ThreadHome, ThreadTrap
<1>3. /\ ContextInv(x) /\ (x \in Threads => ThreadInv(x)) /\ hart[c] \in HartType /\ hart[c].run = x
      /\ hart[c].tp = c /\ hart = [hart EXCEPT ![c] = hart[c]]
      /\ proc \in [Threads -> ProcType] /\ Point(ctx[x]) = ctx[x].pc
      /\ RegistersAt(c, x, hart[c], ctx[x].pc, ctx[x].trap.at, proc[x])
  BY <1>2, AtPoint, Zenon
<1>4. Moved(c, x, hart[c], q)
  BY <1>2, <1>3, Zenon DEF Moved
<1>5. /\ OwnStep(c, x) /\ hart'[c] = hart[c] /\ ctx'[x].pc = q /\ ctx'[x].trap = ctx[x].trap
      /\ ctx'[x].intena = ctx[x].intena
  BY <1>4, GotoEffect
<1>6. ContextInv(x)'
  <2>1. q \in IF x \in Threads THEN ThreadAts ELSE SchedulerAts
    BY <1>1, <1>3, Zenon
    DEF PlainGoto, ContextInv, ThreadAts, ThreadHome, ThreadTrap, SchedulerAts, SchedulerHome, SchedulerTrap
  <2>2. /\ ctx[x].trap # NoTrap => q \in IF x \in Threads THEN ThreadTrap ELSE SchedulerTrap
        /\ ctx[x].trap = NoTrap => q \notin IF x \in Threads THEN {"kernelret", "sret"} ELSE SchedulerTrap
    BY <1>1, <1>3, Zenon DEF PlainGoto, ContextInv, ThreadTrap, SchedulerTrap
  <2> QED BY <1>2, <1>3, <1>5, <2>1, <2>2, GotoContext, Zenon
<1>7. x \in Threads => ThreadInv(x)'
  BY <1>1, <1>3, <1>5, Zenon DEF ThreadInv, PlainGoto
<1>8. RegistersAt(c, x, hart'[c], ctx'[x].pc, ctx'[x].trap.at, proc'[x])
  BY <1>1, <1>3, <1>5, Zenon DEF RegistersAt, PlainGoto
<1> QED BY <1>2, <1>3, <1>5, <1>6, <1>7, <1>8, RegisterInv, Zenon

(* The hart takes a trap from user code. *)
LEMMA UserTrapInv ==
  ASSUME TrapInv, NEW c \in Harts, NEW cause \in {"ecall", "timer"}, UserTrap(c, cause)
  PROVE  TrapInv'
<1>1. PICK x, h : /\ x = Run(c)
                  /\ h = [hart[c] EXCEPT !.sepc = "user", !.spp = "U", !.spie = hart[c].sie, !.sie = FALSE,
                                         !.tp = proc[x].hartid, !.regs = "kernel"]
  BY Zenon
<1>2. x \in Threads \cup Harts /\ ctx[x].pc = "user" /\ "user" \in LockFree /\ "usertrap" \in LockFree
  BY <1>1, Executing, Zenon DEF UserTrap, At, LockFree
<1>3. /\ ContextInv(x) /\ (x \in Threads => ThreadInv(x)) /\ hart[c] \in HartType /\ hart[c].run = x
      /\ hart[c].tp = c /\ proc \in [Threads -> ProcType] /\ Point(ctx[x]) = "user"
      /\ x \in Threads => proc[x] \in ProcType
      /\ hart[c].stvec = "uservec" /\ proc[x].hartid = c /\ hart[c].regs = x /\ hart[c].sie
  BY <1>1, <1>2, AtPoint DEF RegistersAt
<1>4. x \in Threads
  BY <1>3, Zenon DEF ContextInv, SchedulerAts, SchedulerHome, SchedulerTrap
<1>5. h \in HartType /\ h.run = x /\ h.tp = c /\ h.stvec = "uservec" /\ h.spp = "U" /\ h.sepc = "user" /\ ~h.sie
  <2>1. "user" \in Ats /\ hart[c].sie \in BOOLEAN /\ proc[x].hartid \in Harts /\ "U" \in {"U", "S"}
        /\ "kernel" \in Threads \cup {"kernel"} /\ FALSE \in BOOLEAN
    BY <1>3, Zenon DEF Ats, ThreadAts, HartType
  <2>2. ASSUME NEW g \in HartType, NEW s \in BOOLEAN, NEW d \in Harts
        PROVE  [g EXCEPT !.sepc = "user", !.spp = "U", !.spie = s, !.sie = FALSE, !.tp = d, !.regs = "kernel"]
                 \in HartType
    BY <2>1, HartUpdates, Zenon
  <2>3. h \in HartType
    BY <1>1, <1>3, <2>1, <2>2, Zenon
  <2> QED BY <1>1, <1>3, <2>3 DEF HartType
<1>6. /\ proc' = [proc EXCEPT ![x].regs = x, ![x].cause = cause]
      /\ hart' = [hart EXCEPT ![c] = h] /\ Goto(c, "usertrap") /\ UNCHANGED <<cpu, lock, panicked>>
  <2>1. hart' = [hart EXCEPT ![c] = h]
    BY <1>1, Zenon DEF UserTrap
  <2>2. proc' = [proc EXCEPT ![x].regs = hart[c].regs, ![x].cause = cause]
    BY <1>1, Zenon DEF UserTrap
  <2>3. Goto(c, "usertrap") /\ UNCHANGED <<cpu, lock, panicked>>
    BY <1>1, <1>3, Zenon DEF UserTrap
  <2> QED BY <1>3, <2>1, <2>2, <2>3, Zenon
<1>7. proc' \in [Threads -> ProcType]
  <2>1. [proc[x] EXCEPT !.regs = x, !.cause = cause] \in ProcType
    <3>1. x \in Threads \cup {"kernel"} /\ cause \in {"none", "ecall", "timer"} /\ proc[x] \in ProcType
      BY <1>3, <1>4, Zenon
    <3> QED BY <3>1, ProcUpdates, Zenon
  <2> QED BY <1>3, <1>6, <2>1, Zenon
<1>8. /\ \A t \in Threads \ {x} : proc'[t] = proc[t]
      /\ proc'[x].regs = x /\ proc'[x].state = proc[x].state
  BY <1>3, <1>4, <1>6, Zenon DEF ProcType
<1>9. Moved(c, x, h, "usertrap")
  BY <1>5, <1>6, <1>7, <1>8, Zenon DEF Moved, Ats, ThreadAts
<1>10. /\ OwnStep(c, x) /\ hart'[c] = h /\ ctx'[x].pc = "usertrap" /\ ctx'[x].trap = ctx[x].trap
       /\ ctx'[x].intena = ctx[x].intena
  BY <1>1, <1>2, <1>9, GotoEffect
<1>11. ContextInv(x)'
  <2>1. ctx[x].trap = NoTrap
    BY <1>3, <1>4, Zenon DEF ContextInv, ThreadTrap, SchedulerTrap
  <2> QED BY <1>2, <1>3, <1>4, <1>10, <2>1, GotoContext, Zenon DEF ThreadAts
<1>12. ThreadInv(x)'
  BY <1>8, <1>10, Zenon DEF ThreadInv
<1>13. RegistersAt(c, x, hart'[c], ctx'[x].pc, ctx'[x].trap.at, proc'[x])
  BY <1>5, <1>10, Zenon DEF RegistersAt
<1> QED BY <1>2, <1>4, <1>5, <1>6, <1>8, <1>10, <1>11, <1>12, <1>13, RegisterInv, Zenon

(* usertrap(). *)
LEMMA UsertrapInv ==
  ASSUME TrapInv, NEW c \in Harts, usertrap(c)
  PROVE  TrapInv'
<1>1. PICK x, call, h, q : /\ x = Run(c) /\ call = (proc[x].cause = "ecall")
                           /\ h = [hart[c] EXCEPT !.stvec = "kernelvec", !.sie = call]
                           /\ q = IF call THEN "syscall" ELSE "devintr"
  BY Zenon
<1>2. x \in Threads \cup Harts /\ ctx[x].pc = "usertrap" /\ "usertrap" \in LockFree /\ q \in LockFree
  BY <1>1, Executing, Zenon DEF usertrap, At, LockFree
<1>3. /\ ContextInv(x) /\ (x \in Threads => ThreadInv(x)) /\ hart[c] \in HartType /\ hart[c].run = x
      /\ hart[c].tp = c /\ proc \in [Threads -> ProcType] /\ Point(ctx[x]) = "usertrap"
      /\ hart[c].spp = "U" /\ hart[c].sepc = "user"
  BY <1>1, <1>2, AtPoint DEF RegistersAt
<1>4. x \in Threads /\ proc[x] \in ProcType
  BY <1>2, <1>3, Zenon DEF ContextInv, SchedulerAts, SchedulerHome, SchedulerTrap
<1>5. h \in HartType /\ h.run = x /\ h.tp = c /\ h.stvec = "kernelvec" /\ (h.sie <=> call)
  <2>1. call \in BOOLEAN
    BY <1>1, Zenon
  <2>2. ASSUME NEW g \in HartType PROVE [g EXCEPT !.stvec = "kernelvec", !.sie = call] \in HartType
    <3>1. [g EXCEPT !.stvec = "kernelvec"] \in HartType
      BY HartField, Zenon
    <3>2. [[g EXCEPT !.stvec = "kernelvec"] EXCEPT !.sie = call] \in HartType
      BY <2>1, <3>1, HartField, Zenon
    <3>3. [g EXCEPT !.stvec = "kernelvec", !.sie = call] = [[g EXCEPT !.stvec = "kernelvec"] EXCEPT !.sie = call]
      BY Zenon
    <3> QED BY <3>2, <3>3, Zenon
  <2>3. h \in HartType
    BY <1>1, <1>3, <2>2, Zenon
  <2> QED BY <1>1, <1>3, <2>1, <2>3, Zenon DEF HartType
<1>6. /\ hart' = [hart EXCEPT ![c] = h] /\ Goto(c, q) /\ UNCHANGED <<cpu, lock, panicked>>
      /\ proc' = [proc EXCEPT ![x].epc = IF call THEN "next" ELSE "user"]
  <2>1. hart[c].spp = "U"
    BY <1>3, Zenon
  <2>2. hart' = [hart EXCEPT ![c] = h]
    BY <1>1, <2>1, Zenon DEF usertrap
  <2>3. Goto(c, q) /\ UNCHANGED <<cpu, lock, panicked>>
    BY <1>1, <2>1, Zenon DEF usertrap
  <2>4. proc' = [proc EXCEPT ![x].epc = IF call THEN "next" ELSE "user"]
    BY <1>1, <1>3, Zenon DEF usertrap, After
  <2> QED BY <2>2, <2>3, <2>4, Zenon
<1>7. proc' \in [Threads -> ProcType]
  <2>1. "next" \in Ats /\ "user" \in Ats
    BY Zenon DEF Ats, ThreadAts
  <2>2. [proc[x] EXCEPT !.epc = IF call THEN "next" ELSE "user"] \in ProcType
    BY <1>4, <2>1, ProcUpdates, Zenon
  <2> QED BY <1>3, <1>6, <2>2, Zenon
<1>8. /\ \A t \in Threads \ {x} : proc'[t] = proc[t]
      /\ proc'[x].regs = x /\ proc'[x].state = proc[x].state /\ proc'[x].epc = After(proc'[x].cause)
  <2>1. \A t \in Threads \ {x} : proc'[t] = proc[t]
    BY <1>3, <1>6, Zenon
  <2>2. /\ proc'[x].regs = proc[x].regs /\ proc'[x].state = proc[x].state /\ proc'[x].cause = proc[x].cause
        /\ proc'[x].epc = IF call THEN "next" ELSE "user"
    BY <1>3, <1>4, <1>6, Zenon DEF ProcType
  <2> QED BY <1>1, <1>3, <1>4, <2>1, <2>2, Zenon DEF ThreadInv, After
<1>9. Moved(c, x, h, q)
  BY <1>1, <1>5, <1>6, <1>7, <1>8, Zenon DEF Moved, Ats, ThreadAts, ThreadHome, ThreadTrap, SchedulerTrap
<1>10. /\ OwnStep(c, x) /\ hart'[c] = h /\ ctx'[x].pc = q /\ ctx'[x].trap = ctx[x].trap
       /\ ctx'[x].intena = ctx[x].intena
  BY <1>1, <1>2, <1>9, GotoEffect
<1>11. ContextInv(x)'
  <2>1. ctx[x].trap = NoTrap
    BY <1>3, <1>4, Zenon DEF ContextInv, ThreadTrap, SchedulerTrap
  <2>2. q \in ThreadAts /\ q \notin {"kernelret", "sret"}
    BY <1>1, Zenon DEF ThreadAts, ThreadHome, ThreadTrap, SchedulerTrap
  <2> QED BY <1>2, <1>3, <1>4, <1>10, <2>1, <2>2, GotoContext, Zenon
<1>12. ThreadInv(x)'
  BY <1>1, <1>8, <1>10, Zenon DEF ThreadInv
<1>13. RegistersAt(c, x, hart'[c], ctx'[x].pc, ctx'[x].trap.at, proc'[x])
  BY <1>1, <1>5, <1>10, Zenon DEF RegistersAt
<1> QED BY <1>2, <1>4, <1>5, <1>6, <1>8, <1>10, <1>11, <1>12, <1>13, RegisterInv, SMTT(30)

(* An interrupt in the kernel comes in at home only, and keeps what it needs *)
(* to go back there.                                                        *)
LEMMA KerneltrapInv ==
  ASSUME TrapInv, NEW c \in Harts, kerneltrap(c)
  PROVE  TrapInv'
<1>1. PICK x, at, h, f, y :
        /\ x = Run(c) /\ at = ctx[x].pc
        /\ h = [hart[c] EXCEPT !.sepc = at, !.spp = "S", !.spie = TRUE, !.sie = FALSE]
        /\ f = [at |-> at, sepc |-> at, spp |-> "S", spie |-> TRUE, tp |-> Tp(c)]
        /\ y = [ctx[x] EXCEPT !.pc = "devintr", !.trap = f]
  BY Zenon
<1>2. x \in Threads \cup Harts /\ HartInv(c) /\ ContextInv(x)
  BY <1>1, Executing, Zenon
<1>3. at \in {"top", "scan", "usertrapret", "syscall", "reacquire"} /\ at \in LockFree /\ "devintr" \in LockFree
  BY <1>1, <1>2, Zenon DEF HartInv, kerneltrap, LockFree
<1>4. /\ (x \in Threads => ThreadInv(x)) /\ hart[c] \in HartType /\ hart[c].run = x
      /\ hart[c].tp = c /\ proc \in [Threads -> ProcType] /\ Point(ctx[x]) = at /\ ctx[x] \in ContextType
      /\ hart[c].stvec = "kernelvec"
  BY <1>1, <1>2, <1>3, AtPoint, SMTT(30) DEF RegistersAt
<1>5. at \in Home(x) /\ at \in Ats
  BY <1>2, <1>3, <1>4, Zenon DEF ContextInv, Home, Ats, ThreadAts, ThreadHome, ThreadTrap, SchedulerAts, SchedulerHome, SchedulerTrap
<1>6. h \in HartType /\ h.run = x /\ h.tp = c /\ h.stvec = "kernelvec" /\ ~h.sie
  <2>1. ASSUME NEW g \in HartType PROVE [g EXCEPT !.sepc = at, !.spp = "S", !.spie = TRUE, !.sie = FALSE] \in HartType
    BY <1>5, HartUpdates, Zenon
  <2>2. h \in HartType
    BY <1>1, <1>4, <2>1, Zenon
  <2> QED BY <1>1, <1>4, <2>2, Zenon DEF HartType
<1>7. f \in FrameType /\ f # NoTrap /\ f.at = at /\ f.sepc = at /\ f.spp = "S" /\ f.spie
  BY <1>1, <1>4, <1>5, Zenon DEF FrameType, NoTrap, Tp
<1>8. y \in ContextType /\ y.pc = "devintr" /\ y.trap = f /\ y.intena = ctx[x].intena
  <2>1. "devintr" \in Ats
    BY Zenon DEF Ats, SchedulerAts, SchedulerTrap
  <2>2. y \in ContextType
    BY <1>1, <1>4, <1>7, <2>1, ContextUpdates, Zenon
  <2> QED BY <1>1, <1>4, <2>2, Zenon DEF ContextType
<1>9. hart' = [hart EXCEPT ![c] = h] /\ ctx' = [ctx EXCEPT ![x] = y] /\ UNCHANGED <<cpu, proc, lock, panicked>>
  <2>1. hart[c].stvec = "kernelvec"
    BY <1>4, Zenon
  <2>2. hart' = [hart EXCEPT ![c].sepc = ctx[Run(c)].pc, ![c].spp = "S", ![c].spie = TRUE, ![c].sie = FALSE]
    BY <2>1, Zenon DEF kerneltrap
  <2>3. ctx' = [ctx EXCEPT ![Run(c)].pc = "devintr",
                  ![Run(c)].trap = [at |-> ctx[Run(c)].pc, sepc |-> ctx[Run(c)].pc, spp |-> "S", spie |-> TRUE,
                                    tp |-> Tp(c)]]
    BY <2>1, Zenon DEF kerneltrap
  <2>4. UNCHANGED <<cpu, proc, lock, panicked>>
    BY <2>1, Zenon DEF kerneltrap
  <2>5. hart' = [hart EXCEPT ![c] = h]
    BY <1>1, <2>2, Zenon
  <2>6. ctx' = [ctx EXCEPT ![x] = y]
    BY <1>1, <2>3, Zenon
  <2> QED BY <2>4, <2>5, <2>6, Zenon
<1>10. Updated(c, x, h, y)
  BY <1>4, <1>6, <1>8, <1>9, Zenon DEF Updated
<1>11. OwnStep(c, x) /\ hart'[c] = h /\ ctx'[x] = y
  BY <1>1, <1>2, <1>10, RegisterEffect
<1>12. ContextInv(x)'
  <2>1. Point(ctx'[x]) = "devintr"
    BY <1>8, <1>11, Zenon DEF Point
  <2>2. "devintr" \in SchedulerTrap /\ "devintr" \in ThreadTrap /\ "devintr" \in SchedulerAts /\ "devintr" \in ThreadAts
    BY Zenon DEF ThreadAts, ThreadTrap, SchedulerAts, SchedulerTrap
  <2> QED BY <1>5, <1>7, <1>8, <1>11, <2>1, <2>2, Zenon DEF ContextInv
<1>13. x \in Threads => ThreadInv(x)'
  BY <1>1, <1>3, <1>4, <1>8, <1>9, <1>11, Zenon DEF ThreadInv
<1>14. RegistersAt(c, x, hart'[c], ctx'[x].pc, ctx'[x].trap.at, proc'[x])
  BY <1>6, <1>8, <1>11, Zenon DEF RegistersAt
<1> QED BY <1>1, <1>2, <1>3, <1>6, <1>8, <1>9, <1>11, <1>12, <1>13, <1>14, RegisterInv, SMTT(30)

(* The end of kerneltrap(). *)
LEMMA KernelretInv ==
  ASSUME TrapInv, NEW c \in Harts, kernelret(c)
  PROVE  TrapInv'
<1>1. PICK x, f, h : /\ x = Run(c) /\ f = ctx[x].trap
                     /\ h = [hart[c] EXCEPT !.sepc = f.sepc, !.spp = f.spp, !.spie = f.spie, !.sie = FALSE]
  BY Zenon
<1>2. x \in Threads \cup Harts /\ ctx[x].pc = "kernelret" /\ "kernelret" \in LockFree /\ "sret" \in LockFree
  BY <1>1, Executing, Zenon DEF kernelret, At, LockFree
<1>3. /\ ContextInv(x) /\ (x \in Threads => ThreadInv(x)) /\ hart[c] \in HartType /\ hart[c].run = x
      /\ hart[c].tp = c /\ proc \in [Threads -> ProcType] /\ Point(ctx[x]) = "kernelret"
      /\ ctx[x] \in ContextType /\ hart[c].stvec = "kernelvec"
  BY <1>1, <1>2, AtPoint DEF RegistersAt
<1>4. f # NoTrap /\ f.sepc = f.at /\ f.spp = "S" /\ f.spie
  BY <1>1, <1>3, Zenon DEF ContextInv, SchedulerTrap
<1>5. /\ h \in HartType /\ h.run = x /\ h.tp = c /\ h.stvec = "kernelvec" /\ ~h.sie
      /\ h.sepc = f.at /\ h.spp = "S" /\ h.spie
  <2>1. f.sepc \in Ats /\ f.spp \in {"U", "S"} /\ f.spie \in BOOLEAN
    BY <1>1, <1>3, Zenon DEF ContextType, FrameType
  <2>2. ASSUME NEW g \in HartType, NEW a \in Ats, NEW u \in {"U", "S"}, NEW s \in BOOLEAN
        PROVE  [g EXCEPT !.sepc = a, !.spp = u, !.spie = s, !.sie = FALSE] \in HartType
    BY HartUpdates, Zenon
  <2>3. h \in HartType
    BY <1>1, <1>3, <2>1, <2>2, Zenon
  <2> QED BY <1>1, <1>3, <1>4, <2>3 DEF HartType
<1>6. hart' = [hart EXCEPT ![c] = h] /\ Goto(c, "sret") /\ UNCHANGED <<cpu, proc, lock, panicked>>
  <2>1. hart' = [hart EXCEPT ![c] = h]
    BY <1>1, Zenon DEF kernelret
  <2> QED BY <2>1, Zenon DEF kernelret
<1>7. Moved(c, x, h, "sret")
  BY <1>3, <1>5, <1>6, Zenon DEF Moved, Ats, SchedulerAts, SchedulerTrap
<1>8. /\ OwnStep(c, x) /\ hart'[c] = h /\ ctx'[x].pc = "sret" /\ ctx'[x].trap = f
      /\ ctx'[x].intena = ctx[x].intena
  BY <1>1, <1>2, <1>7, GotoEffect
<1>9. ContextInv(x)'
  <2>1. "sret" \in SchedulerTrap /\ "sret" \in ThreadTrap /\ "sret" \in SchedulerAts /\ "sret" \in ThreadAts
    BY Zenon DEF ThreadAts, ThreadTrap, SchedulerAts, SchedulerTrap
  <2> QED BY <1>1, <1>2, <1>3, <1>4, <1>8, <2>1, GotoContext, Zenon
<1>10. x \in Threads => ThreadInv(x)'
  BY <1>2, <1>3, <1>6, <1>8, Zenon DEF ThreadInv
<1>11. RegistersAt(c, x, hart'[c], ctx'[x].pc, ctx'[x].trap.at, proc'[x])
  BY <1>5, <1>8, Zenon DEF RegistersAt
<1> QED BY <1>2, <1>5, <1>6, <1>8, <1>9, <1>10, <1>11, RegisterInv, Zenon

(* What the hart is after the sret instruction. *)
LEMMA ReturnedHart ==
  ASSUME NEW c \in Harts, hart[c] \in HartType
  PROVE  /\ Returned(c) \in HartType /\ (Returned(c).sie <=> hart[c].spie)
         /\ Returned(c).stvec = hart[c].stvec /\ Returned(c).tp = hart[c].tp /\ Returned(c).run = hart[c].run
<1>1. "none" \in Ats /\ hart[c].spie \in BOOLEAN
  BY Zenon DEF Ats, HartType
<1>2. Forgotten(c) \in HartType
  <2>1. ASSUME NEW g \in HartType PROVE [g EXCEPT !.spie = TRUE, !.spp = "U", !.sepc = "none"] \in HartType
    BY <1>1, HartUpdates, Zenon
  <2> QED BY <2>1, Zenon DEF Forgotten
<1>3. /\ Forgotten(c).stvec = hart[c].stvec /\ Forgotten(c).tp = hart[c].tp
      /\ Forgotten(c).run = hart[c].run
  BY Zenon DEF Forgotten, HartType
<1>4. Returned(c) \in HartType
  BY <1>1, <1>2, HartField, Zenon DEF Returned
<1>5. /\ Returned(c).sie = hart[c].spie /\ Returned(c).stvec = Forgotten(c).stvec
      /\ Returned(c).tp = Forgotten(c).tp /\ Returned(c).run = Forgotten(c).run
  BY <1>2, Zenon DEF Returned, HartType
<1> QED BY <1>3, <1>4, <1>5, Zenon

(* The end of kernelvec. *)
LEMMA SretInv ==
  ASSUME TrapInv, NEW c \in Harts, sret(c)
  PROVE  TrapInv'
<1>1. PICK x, h, q, y : /\ x = Run(c) /\ h = [Returned(c) EXCEPT !.tp = KernelTp(c)] /\ q = hart[c].sepc
                        /\ y = [ctx[x] EXCEPT !.pc = q, !.trap = NoTrap]
  BY Zenon
<1>2. x \in Threads \cup Harts /\ ctx[x].pc = "sret" /\ "sret" \in LockFree
  BY <1>1, Executing, Zenon DEF sret, At, LockFree
<1>3. /\ ContextInv(x) /\ (x \in Threads => ThreadInv(x)) /\ hart[c] \in HartType /\ hart[c].run = x
      /\ hart[c].tp = c /\ proc \in [Threads -> ProcType] /\ Point(ctx[x]) = "sret"
      /\ ctx[x] \in ContextType /\ hart[c].stvec = "kernelvec" /\ q = ctx[x].trap.at /\ hart[c].spie
  BY <1>1, <1>2, AtPoint DEF RegistersAt
<1>4. q \in Home(x)
  BY <1>3, Zenon DEF ContextInv, SchedulerTrap
<1>5. /\ q \in LockFree /\ q \in Ats /\ q \in IF x \in Threads THEN ThreadAts ELSE SchedulerAts
      /\ q \notin SchedulerTrap /\ q \notin {"user", "usertrap", "userret", "sret", "kernelret"}
      /\ q \in {"top", "scan", "usertrapret", "syscall", "reacquire"}
  BY <1>4, Zenon DEF Home, LockFree, Ats, ThreadAts, ThreadHome, SchedulerAts, SchedulerHome, SchedulerTrap
<1>6. h \in HartType /\ h.run = x /\ h.tp = c /\ h.stvec = "kernelvec" /\ h.sie
  <2>1. /\ Returned(c) \in HartType /\ Returned(c).sie
        /\ Returned(c).stvec = "kernelvec" /\ Returned(c).run = x
    BY <1>3, ReturnedHart, Zenon
  <2>2. KernelTp(c) = c
    BY <1>3, Zenon DEF KernelTp, Tp
  <2>3. h \in HartType
    BY <1>1, <2>1, <2>2, HartField, Zenon
  <2> QED BY <1>1, <2>1, <2>2, <2>3, Zenon DEF HartType
<1>7. NoTrap \in FrameType
  BY Names, Zenon DEF NoTrap, FrameType, Ats
<1>8. y \in ContextType /\ y.pc = q /\ y.trap = NoTrap /\ y.intena = ctx[x].intena
  <2>1. y \in ContextType
    BY <1>1, <1>3, <1>5, <1>7, ContextUpdates, Zenon
  <2> QED BY <1>1, <1>3, <2>1, Zenon DEF ContextType
<1>9. hart' = [hart EXCEPT ![c] = h] /\ ctx' = [ctx EXCEPT ![x] = y] /\ UNCHANGED <<cpu, proc, lock, panicked>>
  BY <1>1, Zenon DEF sret
<1>10. Updated(c, x, h, y)
  BY <1>3, <1>6, <1>8, <1>9, Zenon DEF Updated
<1>11. OwnStep(c, x) /\ hart'[c] = h /\ ctx'[x] = y
  BY <1>1, <1>2, <1>10, RegisterEffect
<1>12. ContextInv(x)'
  <2>1. Point(ctx'[x]) = q
    BY <1>5, <1>8, <1>11, Zenon DEF Point
  <2> QED BY <1>5, <1>8, <1>11, <2>1, Zenon DEF ContextInv
<1>13. x \in Threads => ThreadInv(x)'
  BY <1>2, <1>3, <1>5, <1>8, <1>9, <1>11, Zenon DEF ThreadInv
<1>14. RegistersAt(c, x, hart'[c], ctx'[x].pc, ctx'[x].trap.at, proc'[x])
  BY <1>5, <1>6, <1>8, <1>11, Zenon DEF RegistersAt
<1> QED BY <1>2, <1>5, <1>6, <1>8, <1>9, <1>11, <1>12, <1>13, <1>14, RegisterInv, Zenon

(* usertrapret(): the trapframe learns the hart that uservec will be on.    *)
LEMMA UsertrapretInv ==
  ASSUME TrapInv, NEW c \in Harts, usertrapret(c)
  PROVE  TrapInv'
<1>1. PICK x, h : /\ x = Run(c)
                  /\ h = [hart[c] EXCEPT !.sie = FALSE, !.stvec = "uservec", !.spp = "U", !.spie = TRUE,
                                         !.sepc = proc[x].epc]
  BY Zenon
<1>2. x \in Threads \cup Harts /\ ctx[x].pc = "usertrapret" /\ "usertrapret" \in LockFree /\ "userret" \in LockFree
  BY <1>1, Executing, Zenon DEF usertrapret, At, LockFree
<1>3. /\ ContextInv(x) /\ (x \in Threads => ThreadInv(x)) /\ hart[c] \in HartType /\ hart[c].run = x
      /\ hart[c].tp = c /\ proc \in [Threads -> ProcType] /\ Point(ctx[x]) = "usertrapret"
  BY <1>1, <1>2, AtPoint
<1>4. x \in Threads /\ proc[x] \in ProcType /\ proc[x].epc \in Ats
  BY <1>2, <1>3, Zenon DEF ContextInv, SchedulerAts, SchedulerHome, SchedulerTrap, ProcType
<1>5. /\ h \in HartType /\ h.run = x /\ h.tp = c /\ h.stvec = "uservec" /\ ~h.sie
      /\ h.sepc = proc[x].epc /\ h.spp = "U" /\ h.spie
  <2>1. ASSUME NEW g \in HartType, NEW a \in Ats
        PROVE  [g EXCEPT !.sie = FALSE, !.stvec = "uservec", !.spp = "U", !.spie = TRUE, !.sepc = a] \in HartType
    BY HartUpdates, Zenon
  <2>2. h \in HartType
    BY <1>1, <1>3, <1>4, <2>1, Zenon
  <2> QED BY <1>1, <1>3, <2>2, Zenon DEF HartType
<1>6. /\ hart' = [hart EXCEPT ![c] = h] /\ proc' = [proc EXCEPT ![x].hartid = c]
      /\ Goto(c, "userret") /\ UNCHANGED <<cpu, lock, panicked>>
  <2>1. hart' = [hart EXCEPT ![c] = h]
    BY <1>1, Zenon DEF usertrapret
  <2>2. proc' = [proc EXCEPT ![x].hartid = c]
    BY <1>1, <1>3, Zenon DEF usertrapret, Tp
  <2> QED BY <2>1, <2>2, Zenon DEF usertrapret
<1>7. proc' \in [Threads -> ProcType]
  <2>1. [proc[x] EXCEPT !.hartid = c] \in ProcType
    BY <1>4, ProcUpdates, Zenon
  <2> QED BY <1>3, <1>6, <2>1, Zenon
<1>8. /\ \A t \in Threads \ {x} : proc'[t] = proc[t]
      /\ proc'[x].regs = proc[x].regs /\ proc'[x].state = proc[x].state /\ proc'[x].cause = proc[x].cause
      /\ proc'[x].epc = proc[x].epc /\ proc'[x].hartid = c
  BY <1>3, <1>4, <1>6, Zenon DEF ProcType
<1>9. Moved(c, x, h, "userret")
  BY <1>5, <1>6, <1>7, <1>8, Zenon DEF Moved, Ats, ThreadAts
<1>10. /\ OwnStep(c, x) /\ hart'[c] = h /\ ctx'[x].pc = "userret" /\ ctx'[x].trap = ctx[x].trap
       /\ ctx'[x].intena = ctx[x].intena
  BY <1>1, <1>2, <1>9, GotoEffect
<1>11. ContextInv(x)'
  <2>1. ctx[x].trap = NoTrap
    BY <1>3, <1>4, Zenon DEF ContextInv, ThreadTrap, SchedulerTrap
  <2> QED BY <1>2, <1>3, <1>4, <1>10, <2>1, GotoContext, Zenon DEF ThreadAts
<1>12. ThreadInv(x)'
  BY <1>2, <1>3, <1>4, <1>8, <1>10, Zenon DEF ThreadInv
<1>13. RegistersAt(c, x, hart'[c], ctx'[x].pc, ctx'[x].trap.at, proc'[x])
  BY <1>5, <1>8, <1>10, Zenon DEF RegistersAt
<1> QED BY <1>2, <1>4, <1>5, <1>6, <1>8, <1>10, <1>11, <1>12, <1>13, RegisterInv, Zenon

(* userret: the user program goes on with its own registers. *)
LEMMA UserretInv ==
  ASSUME TrapInv, NEW c \in Harts, userret(c)
  PROVE  TrapInv'
<1>1. PICK x, h : x = Run(c) /\ h = [Returned(c) EXCEPT !.regs = proc[x].regs]
  BY Zenon
<1>2. x \in Threads \cup Harts /\ ctx[x].pc = "userret" /\ "userret" \in LockFree /\ "user" \in LockFree
  BY <1>1, Executing, Zenon DEF userret, At, LockFree
<1>3. /\ ContextInv(x) /\ (x \in Threads => ThreadInv(x)) /\ hart[c] \in HartType /\ hart[c].run = x
      /\ hart[c].tp = c /\ proc \in [Threads -> ProcType] /\ Point(ctx[x]) = "userret"
      /\ hart[c].stvec = "uservec" /\ hart[c].spie /\ proc[x].hartid = c
  BY <1>1, <1>2, AtPoint DEF RegistersAt
<1>4. x \in Threads /\ proc[x] \in ProcType /\ proc[x].regs = x
  BY <1>2, <1>3, Zenon DEF ContextInv, ThreadInv, SchedulerAts, SchedulerHome, SchedulerTrap
<1>5. h \in HartType /\ h.run = x /\ h.tp = c /\ h.stvec = "uservec" /\ h.sie /\ h.regs = x
  <2>1. /\ Returned(c) \in HartType /\ Returned(c).sie /\ Returned(c).tp = c
        /\ Returned(c).stvec = "uservec" /\ Returned(c).run = x
    BY <1>3, ReturnedHart, Zenon
  <2>2. h = [Returned(c) EXCEPT !.regs = x] /\ x \in Threads \cup {"kernel"}
    BY <1>1, <1>4, Zenon
  <2>3. h \in HartType
    BY <2>1, <2>2, HartField, Zenon
  <2> QED BY <2>1, <2>2, <2>3, Zenon DEF HartType
<1>6. /\ hart' = [hart EXCEPT ![c] = h] /\ proc' = [proc EXCEPT ![x].cause = "none"]
      /\ Goto(c, "user") /\ UNCHANGED <<cpu, lock, panicked>>
  BY <1>1, Zenon DEF userret
<1>7. proc' \in [Threads -> ProcType]
  <2>1. [proc[x] EXCEPT !.cause = "none"] \in ProcType
    BY <1>4, ProcUpdates, Zenon
  <2> QED BY <1>3, <1>6, <2>1, Zenon
<1>8. /\ \A t \in Threads \ {x} : proc'[t] = proc[t]
      /\ proc'[x].regs = x /\ proc'[x].state = proc[x].state /\ proc'[x].hartid = c
  BY <1>3, <1>4, <1>6, Zenon DEF ProcType
<1>9. Moved(c, x, h, "user")
  BY <1>5, <1>6, <1>7, <1>8, Zenon DEF Moved, Ats, ThreadAts
<1>10. /\ OwnStep(c, x) /\ hart'[c] = h /\ ctx'[x].pc = "user" /\ ctx'[x].trap = ctx[x].trap
       /\ ctx'[x].intena = ctx[x].intena
  BY <1>1, <1>2, <1>9, GotoEffect
<1>11. ContextInv(x)'
  <2>1. ctx[x].trap = NoTrap
    BY <1>3, <1>4, Zenon DEF ContextInv, ThreadTrap, SchedulerTrap
  <2> QED BY <1>2, <1>3, <1>4, <1>10, <2>1, GotoContext, Zenon DEF ThreadAts
<1>12. ThreadInv(x)'
  BY <1>8, <1>10, Zenon DEF ThreadInv
<1>13. RegistersAt(c, x, hart'[c], ctx'[x].pc, ctx'[x].trap.at, proc'[x])
  BY <1>5, <1>8, <1>10, Zenon DEF RegistersAt
<1> QED BY <1>2, <1>4, <1>5, <1>6, <1>8, <1>10, <1>11, <1>12, <1>13, RegisterInv, Zenon

-----------------------------------------------------------------------------
(* Context switches. *)

(* swtch() from the scheduler to a runnable thread that no hart executes.   *)
LEMMA SwitchInv ==
  ASSUME TrapInv, NEW c \in Harts, Switch(c)
  PROVE  TrapInv'
<1>1. PICK t : t = ctx[Run(c)].lk
  BY Zenon
<1>2. TrapTypeOK /\ HartInv(c) /\ ContextInv(Run(c)) /\ ctx[Run(c)].pc = "picked" /\ Point(ctx[Run(c)]) = "picked"
  BY Executing, Zenon DEF TrapInv, Switch, At, Point
<1>3. Run(c) = c /\ c \notin Threads /\ t \in Threads /\ t # c
  <2>1. Run(c) \notin Threads
    BY <1>2, Zenon DEF ContextInv, ThreadAts, ThreadHome, ThreadTrap, SchedulerTrap
  <2>2. t \in Threads
    BY <1>1, <1>2, Zenon DEF ContextInv
  <2> QED BY <2>1, <2>2, Executing, Names, Zenon
<1>4. /\ proc[t].state = "RUNNABLE" /\ proc' = [proc EXCEPT ![t].state = "RUNNING"]
      /\ hart' = [hart EXCEPT ![c].run = t] /\ ctx' = [ctx EXCEPT ![c].pc = "back"]
      /\ UNCHANGED <<cpu, lock, panicked>>
  BY <1>1, <1>3, Zenon DEF Switch, Goto
<1>5. \A d \in Harts : Run(d) # t
  BY <1>3, <1>4, Names, SMTT(30) DEF TrapInv, HartInv
<1>6. ctx[t].pc \in {"forkret", "yielded", "slept"}
  BY <1>3, <1>5, Zenon DEF TrapInv, ParkedInv
<1>7. TrapTypeOK'
  <2>1. [ctx[c] EXCEPT !.pc = "back"] \in ContextType
    <3>1. "back" \in Ats /\ ctx[c] \in ContextType
      BY <1>2, Zenon DEF TrapTypeOK, Ats, SchedulerAts
    <3> QED BY <3>1, ContextField, Zenon
  <2>2. [hart[c] EXCEPT !.run = t] \in HartType
    <3>1. hart[c] \in HartType /\ t \in Threads \cup Harts
      BY <1>2, <1>3, Zenon DEF TrapTypeOK
    <3> QED BY <3>1, HartField, Zenon
  <2>3. [proc[t] EXCEPT !.state = "RUNNING"] \in ProcType
    <3>1. proc[t] \in ProcType
      BY <1>2, <1>3, Zenon DEF TrapTypeOK
    <3> QED BY <3>1, ProcUpdates, Zenon
  <2>4. ctx' \in [Threads \cup Harts -> ContextType]
    BY <1>2, <1>4, <2>1, Zenon DEF TrapTypeOK
  <2>5. hart' \in [Harts -> HartType]
    BY <1>2, <1>4, <2>2, Zenon DEF TrapTypeOK
  <2>6. proc' \in [Threads -> ProcType]
    BY <1>2, <1>4, <2>3, Zenon DEF TrapTypeOK
  <2> QED BY <1>2, <1>4, <2>4, <2>5, <2>6, Zenon DEF TrapTypeOK
<1>8. /\ hart'[c].run = t /\ hart'[c].tp = hart[c].tp /\ hart'[c].sie = hart[c].sie
      /\ hart'[c].stvec = hart[c].stvec
      /\ \A d \in Harts \ {c} : hart'[d] = hart[d]
  BY <1>2, <1>4 DEF TrapTypeOK
<1>9. /\ ctx'[c].pc = "back" /\ ctx'[c].lk = t /\ ctx'[c].trap = ctx[c].trap
      /\ \A y \in (Threads \cup Harts) \ {c} : ctx'[y] = ctx[y]
  BY <1>1, <1>2, <1>3, <1>4 DEF TrapTypeOK
<1>10. /\ proc'[t].state = "RUNNING" /\ proc'[t].regs = proc[t].regs /\ proc'[t].epc = proc[t].epc
       /\ proc'[t].cause = proc[t].cause
       /\ \A u \in Threads \ {t} : proc'[u] = proc[u]
  BY <1>2, <1>3, <1>4 DEF TrapTypeOK
<1>11. \A d, e \in Harts : (Run(d) = Run(e))' => d = e
  BY <1>5, <1>8 DEF Run, TrapInv
<1>12. ASSUME NEW y \in Threads \cup Harts PROVE ContextInv(y)'
  <2>1. CASE y = c
    <3>1. Point(ctx'[c]) = "back" /\ ctx[c].trap = NoTrap
      BY <1>2, <1>3, <1>9, SMTT(30) DEF Point, ContextInv, SchedulerTrap
    <3> QED BY <1>3, <1>9, <2>1, <3>1, Zenon DEF ContextInv, SchedulerAts, SchedulerTrap
  <2>2. CASE y # c
    BY <1>9, <2>2 DEF TrapInv, ContextInv
  <2> QED BY <2>1, <2>2, Zenon
<1>13. ASSUME NEW u \in Threads PROVE ThreadInv(u)' /\ ParkedInv(u)'
  <2>1. ThreadInv(u) /\ ParkedInv(u) /\ ctx'[u] = ctx[u]
    BY <1>3, <1>9, Zenon DEF TrapInv
  <2>2. CASE u = t
    BY <1>8, <1>10, <2>1, <2>2, Zenon DEF ThreadInv, ParkedInv, Run
  <2>3. CASE u # t
    <3>1. proc'[u] = proc[u] /\ ((\A d \in Harts : Run(d) # u)' => \A d \in Harts : Run(d) # u)
      BY <1>3, <1>8, <1>10, <2>3, SMTT(30) DEF Run
    <3> QED BY <2>1, <3>1, Zenon DEF ThreadInv, ParkedInv
  <2> QED BY <2>2, <2>3, Zenon
<1>14. HartInv(c)'
  <2>1. Point(ctx'[t]) = ctx'[t].pc /\ ctx'[t] = ctx[t]
    BY <1>3, <1>6, <1>9, Zenon DEF Point
  <2>2. HeldAt(t, ctx'[t]) = {t} /\ HeldAt(c, ctx[c]) = {t}
    BY <1>1, <1>2, <1>3, <1>6, <2>1, Zenon DEF HeldAt, LocksAt
  <2>3. \A l \in Locks : lock'[l] = c <=> l \in HeldAt(t, ctx'[t])
    BY <1>2, <1>3, <1>4, <2>2, Zenon DEF HartInv
  <2>4. Run(c)' = t /\ Tp(c)' = c
    BY <1>2, <1>8, Zenon DEF Run, Tp, HartInv
  <2>5. cpu'[c].noff = 1 /\ ~hart'[c].sie /\ hart'[c].stvec = "kernelvec"
    BY <1>2, <1>4, <1>8, Zenon DEF HartInv, OneLock
  <2> QED BY <1>3, <1>6, <1>9, <1>10, <2>1, <2>3, <2>4, <2>5, Zenon DEF HartInv, OneLock
<1>15. ASSUME NEW d \in Harts PROVE HartInv(d)'
  <2>1. CASE d = c
    BY <1>14, <2>1, Zenon
  <2>2. CASE d # c
    <3>1. Run(d) # c /\ Run(d) \in Threads \cup Harts
      BY <1>3, <2>2, Executing, Zenon DEF TrapInv
    <3> QED BY <1>4, <1>5, <1>8, <1>9, <1>10, <2>2, <3>1, OtherHartInv
  <2> QED BY <2>1, <2>2, Zenon
<1> QED BY <1>4, <1>7, <1>11, <1>12, <1>13, <1>15, Zenon DEF TrapInv

(* The two calls of sched(), with p->lock held and no other lock. *)
SchedCall(c, x, s, q, k, lk) ==
  \/ ctx[x].pc = "yielding" /\ s = "RUNNABLE" /\ q = "yielded" /\ k = cpu[c] /\ lk = lock
  \/ /\ ctx[x].pc = "sleep" /\ s = "SLEEPING" /\ q = "slept"
     /\ k = [cpu[c] EXCEPT !.noff = @ - 1] /\ lk = [lock EXCEPT !["tickslock"] = NoCpu]

(* swtch() from a thread to the scheduler of its hart, which switched to it. *)
LEMMA SchedInv ==
  ASSUME TrapInv, NEW c \in Harts, NEW x \in Threads \cup Harts, x = Run(c), NEW s, NEW q, NEW k, NEW lk,
         SchedCall(c, x, s, q, k, lk), Sched(c, s, q, k, lk)
  PROVE  TrapInv'
<1>1. TrapTypeOK /\ HartInv(c) /\ ContextInv(x) /\ Tp(c) = c /\ panicked = "no"
  BY Executing, Zenon DEF TrapInv
<1>2. ctx[x].pc \in {"yielding", "sleep"} /\ Point(ctx[x]) = ctx[x].pc
  BY Zenon DEF SchedCall, Point
<1>3. x \in Threads /\ x \notin Harts /\ x # c /\ ThreadInv(x)
  <2>1. x \in Threads
    BY <1>1, <1>2, Zenon DEF ContextInv, SchedulerAts, SchedulerHome, SchedulerTrap
  <2> QED BY <2>1, Names, Executing, SMTT(30)
<1>4. ctx[c].pc = "back" /\ ctx[c].lk = x /\ Point(ctx[c]) = "back" /\ ContextInv(c)
  BY <1>1, <1>3, Zenon DEF HartInv, TrapInv, Point
<1>5. HeldAt(x, ctx[x]) = IF ctx[x].pc = "sleep" THEN {"tickslock", x} ELSE {x}
  BY <1>2, Zenon DEF HeldAt, LocksAt
<1>6. /\ lk \in [Locks -> Harts \cup {NoCpu}]
      /\ \A l \in Locks : lk[l] = c <=> l = x
      /\ \A l \in Locks, d \in Harts \ {c} : lk[l] = d <=> lock[l] = d
  <2>1. \A l \in Locks : lock[l] = c <=> l \in HeldAt(x, ctx[x])
    BY <1>1, Zenon DEF HartInv
  <2>2. CASE ctx[x].pc = "yielding"
    BY <1>1, <1>5, <2>1, <2>2, Zenon DEF SchedCall, TrapTypeOK
  <2>3. CASE ctx[x].pc = "sleep"
    <3>1. lk = [lock EXCEPT !["tickslock"] = NoCpu] /\ lock["tickslock"] = c
      BY <1>5, <2>1, <2>3, Names, Zenon DEF SchedCall
    <3> QED BY <1>1, <1>3, <1>5, <2>1, <2>3, <3>1, Names, Zenon DEF TrapTypeOK
  <2> QED BY <1>2, <2>2, <2>3, Zenon
<1>7. k \in CpuType /\ k.noff = 1 /\ k.intena = cpu[c].intena
  <2>1. cpu[c] \in CpuType
    BY <1>1, Zenon DEF TrapTypeOK, CpuType
  <2>2. cpu[c].noff = IF ctx[x].pc = "sleep" THEN 2 ELSE 1
    BY <1>1, <1>2, Zenon DEF HartInv, OneLock
  <2>3. CASE ctx[x].pc = "yielding"
    BY <2>1, <2>2, <2>3, Zenon DEF SchedCall
  <2>4. CASE ctx[x].pc = "sleep"
    <3>1. k = [cpu[c] EXCEPT !.noff = cpu[c].noff - 1]
      BY <2>4, Zenon DEF SchedCall
    <3> QED BY <2>1, <2>2, <2>4, <3>1 DEF CpuType
  <2> QED BY <1>2, <2>3, <2>4, Zenon
<1>8. lk[x] = c /\ ~hart[c].sie /\ hart[c].stvec = "kernelvec"
  BY <1>1, <1>2, <1>3, <1>6, Names, Zenon DEF HartInv
<1>9. PICK h : h = [Forgotten(c) EXCEPT !.run = c]
  BY Zenon
<1>10. /\ proc' = [proc EXCEPT ![x].state = s]
       /\ ctx' = [ctx EXCEPT ![x].pc = q, ![x].lk = "none", ![x].intena = k.intena]
       /\ hart' = [hart EXCEPT ![c] = h]
       /\ cpu' = [cpu EXCEPT ![c] = k]
       /\ lock' = lk /\ panicked' = "no"
  BY <1>1, <1>7, <1>8, <1>9, Zenon DEF Sched
<1>11. s \in {"RUNNABLE", "SLEEPING"} /\ q \in {"yielded", "slept"} /\ q \in Ats
  BY Zenon DEF SchedCall, Ats, ThreadAts, ThreadTrap
<1>12. h \in HartType /\ h.run = c /\ h.tp = c /\ ~h.sie /\ h.stvec = "kernelvec"
  <2>1. hart[c] \in HartType /\ "none" \in Ats /\ c \in Threads \cup Harts /\ hart[c].tp = c
    BY <1>1, Zenon DEF TrapTypeOK, Ats, Tp
  <2>2. ASSUME NEW g \in HartType PROVE [g EXCEPT !.spie = TRUE, !.spp = "U", !.sepc = "none"] \in HartType
    BY <2>1, HartUpdates, Zenon
  <2>3. Forgotten(c) \in HartType
    BY <2>1, <2>2, Zenon DEF Forgotten
  <2>4. Forgotten(c).tp = c /\ ~Forgotten(c).sie /\ Forgotten(c).stvec = "kernelvec"
    BY <1>8, <2>1, Zenon DEF Forgotten, HartType
  <2>5. h \in HartType
    BY <1>9, <2>1, <2>3, HartField, Zenon
  <2> QED BY <1>9, <2>3, <2>4, <2>5, Zenon DEF HartType
<1>13. TrapTypeOK'
  <2>1. ctx' \in [Threads \cup Harts -> ContextType]
    <3>1. ctx[x] \in ContextType /\ "none" \in Locks \cup {"none"} /\ k.intena \in BOOLEAN
      BY <1>1, <1>7, Zenon DEF TrapTypeOK, CpuType
    <3>2. [ctx[x] EXCEPT !.pc = q, !.lk = "none", !.intena = k.intena] \in ContextType
      BY <1>11, <3>1, ContextUpdates, Zenon
    <3> QED BY <1>1, <1>10, <3>2, Zenon DEF TrapTypeOK
  <2>2. proc' \in [Threads -> ProcType]
    <3>1. proc[x] \in ProcType /\ s \in {"RUNNABLE", "RUNNING", "SLEEPING"}
      BY <1>1, <1>3, <1>11, Zenon DEF TrapTypeOK
    <3>2. [proc[x] EXCEPT !.state = s] \in ProcType
      BY <3>1, ProcUpdates, Zenon
    <3> QED BY <1>1, <1>10, <3>2, Zenon DEF TrapTypeOK
  <2>3. hart' \in [Harts -> HartType] /\ cpu' \in [Harts -> [noff : Nat, intena : BOOLEAN]]
    BY <1>1, <1>7, <1>10, <1>12, Zenon DEF TrapTypeOK, CpuType
  <2> QED BY <1>6, <1>10, <2>1, <2>2, <2>3, Zenon DEF TrapTypeOK
<1>14. /\ hart'[c] = h /\ cpu'[c] = k
       /\ \A d \in Harts \ {c} : hart'[d] = hart[d] /\ cpu'[d] = cpu[d]
  BY <1>1, <1>10, Zenon DEF TrapTypeOK
<1>15. /\ ctx'[x].pc = q /\ ctx'[x].trap = ctx[x].trap /\ ctx'[x].intena = k.intena
       /\ \A y \in (Threads \cup Harts) \ {x} : ctx'[y] = ctx[y]
  BY <1>1, <1>10 DEF TrapTypeOK
<1>16. /\ proc'[x].state = s /\ proc'[x].regs = proc[x].regs /\ proc'[x].epc = proc[x].epc
       /\ proc'[x].cause = proc[x].cause
       /\ \A u \in Threads \ {x} : proc'[u] = proc[u]
  BY <1>1, <1>3, <1>10, SMTT(30) DEF TrapTypeOK
<1>17. \A d, e \in Harts : (Run(d) = Run(e))' => d = e
  <2>1. \A d \in Harts \ {c} : Run(d)' = Run(d) /\ Run(d) # c
    <3>1. \A d \in Harts : Run(d) \in Threads \/ Run(d) = d
      BY Executing, Zenon
    <3> QED BY <1>14, <3>1, Names, Zenon DEF Run
  <2> QED BY <1>12, <1>14, <2>1, SMTT(30) DEF Run, TrapInv
<1>18. ASSUME NEW y \in Threads \cup Harts PROVE ContextInv(y)'
  <2>1. CASE y = x
    <3>1. Point(ctx'[x]) = q
      BY <1>11, <1>15, Zenon DEF Point
    <3>2. ctx[x].trap # NoTrap => q = "yielded"
      BY <1>1, <1>2, <1>3, Zenon DEF ContextInv, SchedCall, ThreadTrap, SchedulerTrap
    <3>3. q \in ThreadAts /\ "yielded" \in ThreadTrap
      BY <1>11, Zenon DEF ThreadAts, ThreadTrap
    <3> QED BY <1>1, <1>3, <1>11, <1>15, <2>1, <3>1, <3>2, <3>3, ZenonT(40) DEF ContextInv
  <2>2. CASE y # x
    <3>1. ctx'[y] = ctx[y] /\ ContextInv(y)
      BY <1>15, <2>2, Zenon DEF TrapInv
    <3> QED BY <3>1, Zenon DEF ContextInv
  <2> QED BY <2>1, <2>2, Zenon
<1>19. ASSUME NEW u \in Threads PROVE ThreadInv(u)' /\ ParkedInv(u)'
  <2>1. ThreadInv(u) /\ ParkedInv(u)
    BY Zenon DEF TrapInv
  <2>2. CASE u = x
    <3>1. (q = "yielded" => ~k.intena) /\ (q = "slept" => k.intena)
      BY <1>1, <1>2, <1>7, Zenon DEF HartInv, SchedCall
    <3>2. ThreadInv(x)'
      BY <1>2, <1>3, <1>11, <1>15, <1>16, <3>1, Zenon DEF ThreadInv
    <3>3. ParkedInv(x)'
      BY <1>11, <1>15, <1>16, Zenon DEF ParkedInv
    <3> QED BY <2>2, <3>2, <3>3, Zenon
  <2>3. CASE u # x
    <3>1. /\ proc'[u] = proc[u] /\ ctx'[u] = ctx[u]
          /\ (\A d \in Harts : Run(d) # u)' => \A d \in Harts : Run(d) # u
      BY <1>14, <1>15, <1>16, <2>3, Zenon DEF Run
    <3> QED BY <2>1, <3>1, Zenon DEF ThreadInv, ParkedInv
  <2> QED BY <2>2, <2>3, Zenon
<1>20. HartInv(c)'
  <2>1. ctx'[c] = ctx[c] /\ HeldAt(c, ctx'[c]) = {x}
    BY <1>3, <1>4, <1>15, Zenon DEF HeldAt, LocksAt
  <2>2. Run(c)' = c /\ Tp(c)' = c
    BY <1>12, <1>14, Zenon DEF Run, Tp
  <2> QED BY <1>4, <1>6, <1>7, <1>10, <1>12, <1>14, <2>1, <2>2, Zenon DEF HartInv, OneLock
<1>21. ASSUME NEW d \in Harts PROVE HartInv(d)'
  <2>1. CASE d = c
    BY <1>20, <2>1, Zenon
  <2>2. CASE d # c
    <3>1. Run(d) # x /\ Run(d) \in Threads \cup Harts
      BY <2>2, Executing, Zenon DEF TrapInv
    <3>2. /\ hart'[d] = hart[d] /\ cpu'[d] = cpu[d] /\ ctx'[d] = ctx[d] /\ ctx'[Run(d)] = ctx[Run(d)]
          /\ Run(d) \in Threads => proc'[Run(d)] = proc[Run(d)]
      BY <1>3, <1>14, <1>15, <1>16, <2>2, <3>1, Zenon
    <3>3. \A l \in Locks : lock'[l] = d <=> lock[l] = d
      BY <1>6, <1>10, <2>2, Zenon
    <3> QED BY <3>2, <3>3, OtherHartInv, Zenon
  <2> QED BY <2>1, <2>2, Zenon
<1> QED BY <1>10, <1>13, <1>17, <1>18, <1>19, <1>21, Zenon DEF TrapInv

-----------------------------------------------------------------------------
(* clockintr() wakes a sleeping thread, which no hart executes.             *)
LEMMA ClockintrInv ==
  ASSUME TrapInv, NEW c \in Harts, NEW t \in Threads, clockintr(c, t)
  PROVE  TrapInv'
<1>1. PICK x : x = Run(c)
  BY Zenon
<1>2. /\ x \in Threads \cup Harts /\ TrapTypeOK /\ HartInv(c) /\ Tp(c) = c /\ panicked = "no"
      /\ ctx[x].pc = "clockintr"
  BY <1>1, Executing, Zenon DEF TrapInv, clockintr, At
<1>3. lock[t] # c
  <2>1. HeldAt(x, ctx[x]) = {"tickslock"}
    BY <1>2, Zenon DEF HeldAt, LocksAt, Point
  <2> QED BY <1>1, <1>2, <2>1, Names, Zenon DEF HartInv
<1>4. PICK s : s = IF proc[t].state = "SLEEPING" THEN "RUNNABLE" ELSE proc[t].state
  BY Zenon
<1>5. /\ proc' = [proc EXCEPT ![t].state = s]
      /\ ctx' = [ctx EXCEPT ![x].todo = ctx[x].todo \ {t}]
      /\ UNCHANGED <<hart, cpu, lock, panicked>>
  BY <1>1, <1>2, <1>3, <1>4, Zenon DEF clockintr, TrapTypeOK
<1>6. TrapTypeOK'
  <2>1. [ctx[x] EXCEPT !.todo = ctx[x].todo \ {t}] \in ContextType
    <3>1. ctx[x] \in ContextType
      BY <1>2, Zenon DEF TrapTypeOK
    <3>2. ctx[x].todo \ {t} \in SUBSET Threads
      BY <3>1, Zenon DEF ContextType
    <3> QED BY <3>1, <3>2, ContextField, Zenon
  <2>2. [proc[t] EXCEPT !.state = s] \in ProcType
    <3>1. proc[t] \in ProcType /\ s \in {"RUNNABLE", "RUNNING", "SLEEPING"}
      BY <1>2, <1>4, Zenon DEF TrapTypeOK, ProcType
    <3> QED BY <3>1, ProcUpdates, Zenon
  <2>3. ctx' \in [Threads \cup Harts -> ContextType]
    BY <1>2, <1>5, <2>1, Zenon DEF TrapTypeOK
  <2>4. proc' \in [Threads -> ProcType]
    BY <1>2, <1>5, <2>2, Zenon DEF TrapTypeOK
  <2> QED BY <1>2, <1>5, <2>3, <2>4, Zenon DEF TrapTypeOK
<1>7. \A y \in Threads \cup Harts :
        /\ ctx'[y].pc = ctx[y].pc /\ ctx'[y].lk = ctx[y].lk /\ ctx'[y].then = ctx[y].then
        /\ ctx'[y].trap = ctx[y].trap /\ ctx'[y].intena = ctx[y].intena
  BY <1>2, <1>5 DEF TrapTypeOK
<1>8. \A u \in Threads :
        /\ proc'[u].regs = proc[u].regs /\ proc'[u].epc = proc[u].epc /\ proc'[u].cause = proc[u].cause
        /\ proc'[u].hartid = proc[u].hartid
        /\ (proc'[u].state = "RUNNING" <=> proc[u].state = "RUNNING")
  BY <1>2, <1>4, <1>5 DEF TrapTypeOK
<1>9. \A y \in Threads \cup Harts : Point(ctx'[y]) = Point(ctx[y])
  BY <1>7, Zenon DEF Point
<1>10. ASSUME NEW y \in Threads \cup Harts PROVE ContextInv(y)'
  <2>1. ContextInv(y)
    BY Zenon DEF TrapInv
  <2> QED BY <1>7, <1>9, <2>1, Zenon DEF ContextInv
<1>11. ASSUME NEW u \in Threads PROVE ThreadInv(u)' /\ ParkedInv(u)'
  <2>1. ThreadInv(u) /\ ParkedInv(u)
    BY Zenon DEF TrapInv
  <2> QED BY <1>5, <1>7, <1>8, <2>1 DEF ThreadInv, ParkedInv, Run
<1>12. ASSUME NEW d \in Harts PROVE HartInv(d)'
  <2>1. PICK z : z = Run(d)
    BY Zenon
  <2>2. HartInv(d) /\ z \in Threads \cup Harts /\ ContextInv(z)
    BY <2>1, Executing, Zenon
  <2>3. LocksAt(z, ctx'[z]) = LocksAt(z, ctx[z])
    BY <1>7, <1>9, <2>2, Zenon DEF LocksAt
  <2>4. HeldAt(z, ctx'[z]) = HeldAt(z, ctx[z])
    BY <1>7, <2>2, <2>3, Zenon DEF HeldAt
  <2>5. z \notin Threads => ctx[z].pc \notin {"user", "userret"}
    BY <2>2, Zenon DEF ContextInv, Point, SchedulerAts, SchedulerHome, SchedulerTrap
  <2>6. Run(d)' = z /\ Tp(d)' = Tp(d)
    BY <1>5, <2>1, Zenon DEF Run, Tp
  <2>7. ctx'[z].pc = ctx[z].pc /\ Point(ctx'[z]) = Point(ctx[z]) /\ ctx'[z].trap = ctx[z].trap
        /\ ctx'[d].pc = ctx[d].pc /\ ctx'[d].lk = ctx[d].lk
    BY <1>7, <1>9, <2>2, Zenon
  <2>8. z \in Threads => /\ proc'[z].hartid = proc[z].hartid /\ proc'[z].epc = proc[z].epc
                         /\ (proc'[z].state = "RUNNING" <=> proc[z].state = "RUNNING")
    BY <1>8, Zenon
  <2> QED BY <1>5, <2>1, <2>2, <2>4, <2>5, <2>6, <2>7, <2>8 DEF HartInv
<1> QED BY <1>2, <1>5, <1>6, <1>10, <1>11, <1>12, Zenon DEF TrapInv, Run

-----------------------------------------------------------------------------
(* The invariant. *)

LEMMA InitInv == TrapInit => TrapInv
<1> SUFFICES ASSUME TrapInit PROVE TrapInv
  BY Zenon
<1>1. TrapTypeOK
  <2>1. 0 \in Harts /\ "none" \in Ats /\ "user" \in Ats /\ "forkret" \in Ats /\ "top" \in Ats
    BY Names, Zenon DEF Ats, ThreadAts, SchedulerAts, SchedulerHome
  <2>2. hart \in [Harts -> HartType]
    BY <2>1, Zenon DEF TrapInit, HartType
  <2>3. cpu \in [Harts -> [noff : Nat, intena : BOOLEAN]]
    BY Zenon DEF TrapInit
  <2>4. NoTrap \in FrameType
    BY <2>1, Zenon DEF NoTrap, FrameType
  <2>5. ctx \in [Threads \cup Harts -> ContextType]
    BY <2>1, <2>4, Zenon DEF TrapInit, ContextType
  <2>6. proc \in [Threads -> ProcType]
    BY <2>1, Zenon DEF TrapInit, ProcType
  <2>7. lock \in [Locks -> Harts \cup {NoCpu}]
    BY Zenon DEF TrapInit
  <2> QED BY <2>2, <2>3, <2>5, <2>6, <2>7, Zenon DEF TrapTypeOK
<1>2. \A c \in Harts : Run(c) = c /\ Tp(c) = c /\ ~hart[c].sie /\ hart[c].stvec = "kernelvec" /\ cpu[c].noff = 0
  BY Zenon DEF TrapInit, Run, Tp
<1>3. \A x \in Threads \cup Harts :
        /\ ctx[x].pc = IF x \in Threads THEN "forkret" ELSE "top"
        /\ ctx[x].trap = NoTrap /\ Point(ctx[x]) = ctx[x].pc
  BY Zenon DEF TrapInit, Point
<1>4. ASSUME NEW x \in Threads \cup Harts PROVE ContextInv(x)
  BY <1>3, Zenon DEF ContextInv, ThreadAts, SchedulerAts, SchedulerHome, SchedulerTrap
<1>5. ASSUME NEW t \in Threads PROVE ThreadInv(t) /\ ParkedInv(t)
  BY <1>3, Zenon DEF TrapInit, ThreadInv, ParkedInv, After
<1>6. ASSUME NEW c \in Harts PROVE HartInv(c)
  <2>1. ctx[c].pc = "top" /\ Point(ctx[c]) = "top" /\ HeldAt(c, ctx[c]) = {}
    BY <1>3, Names, Zenon DEF HeldAt, LocksAt
  <2>2. \A l \in Locks : lock[l] # c
    BY Names, Zenon DEF TrapInit
  <2> QED BY <1>2, <2>1, <2>2, Zenon DEF HartInv, OneLock
<1> QED BY <1>1, <1>2, <1>4, <1>5, <1>6, Zenon DEF TrapInv, TrapInit

(* sleep() releases tickslock and calls sched(). *)
LEMMA SleepingInv ==
  ASSUME TrapInv, NEW c \in Harts, Sleeping(c)
  PROVE  TrapInv'
<1>1. PICK x, k, lk : /\ x = Run(c) /\ k = [cpu[c] EXCEPT !.noff = @ - 1]
                      /\ lk = [lock EXCEPT !["tickslock"] = NoCpu]
  BY Zenon
<1>2. x \in Threads \cup Harts /\ HartInv(c) /\ Tp(c) = c /\ ctx[x].pc = "sleep" /\ Point(ctx[x]) = "sleep"
  BY <1>1, Executing, Zenon DEF Sleeping, At, Point
<1>3. lock["tickslock"] = c /\ cpu[c].noff = 2
  <2>1. "tickslock" \in HeldAt(x, ctx[x])
    BY <1>2, Zenon DEF HeldAt, LocksAt
  <2> QED BY <1>1, <1>2, <2>1, Names, Zenon DEF HartInv, OneLock
<1>4. Sched(c, "SLEEPING", "slept", k, lk)
  BY <1>1, <1>2, <1>3 DEF Sleeping
<1>5. SchedCall(c, x, "SLEEPING", "slept", k, lk)
  BY <1>1, <1>2, Zenon DEF SchedCall
<1> QED BY <1>1, <1>2, <1>4, <1>5, SchedInv, Zenon

LEMMA SchedulerInv ==
  ASSUME TrapInv, NEW c \in Harts, Scheduler(c)
  PROVE  TrapInv'
<1>0. PICK x : x = Run(c) /\ x \in Threads \cup Harts /\ Tp(c) = c
  BY Executing, Zenon
<1>1. CASE Loop(c)
  BY <1>1, LoopInv, Zenon
<1>2. CASE Looked(c)
  <2>1. PlainGoto(c, ctx[x].pc, "top") /\ Goto(c, "top") /\ UNCHANGED <<hart, cpu, proc, lock, panicked>>
    BY <1>0, <1>2, Zenon DEF Looked, At, PlainGoto
  <2> QED BY <1>0, <2>1, PlainGotoInv, Zenon
<1>3. CASE Switch(c)
  BY <1>3, SwitchInv, Zenon
<1>4. CASE Back(c)
  <2>1. ReleaseCall(c, x, ctx[x].pc, ctx[x].lk, cpu[c], "scan") /\ Release(c, ctx[x].lk, cpu[c], "scan")
    BY <1>0, <1>4, Zenon DEF Back, At, ReleaseCall
  <2> QED BY <1>0, <2>1, ReleaseInv, Zenon
<1>5. ASSUME NEW t \in Threads, Look(c, t) PROVE TrapInv'
  <2>1. AcquireCall(x, ctx[x].pc, t, "picked") /\ Acquire(c, t, "picked")
    BY <1>0, <1>5, Zenon DEF Look, At, AcquireCall
  <2> QED BY <1>0, <2>1, AcquireInv, Zenon
<1> QED BY <1>1, <1>2, <1>3, <1>4, <1>5, Zenon DEF Scheduler

LEMMA InterruptInv ==
  ASSUME TrapInv, NEW c \in Harts, Interrupt(c)
  PROVE  TrapInv'
<1>0. PICK x : x = Run(c) /\ x \in Threads \cup Harts /\ Tp(c) = c
  BY Executing, Zenon
<1>1. CASE kerneltrap(c)
  BY <1>1, KerneltrapInv, Zenon
<1>2. CASE devintr(c)
  <2>1. CASE Tp(c) = 0
    <3>1. AcquireCall(x, ctx[x].pc, "tickslock", "clockintr") /\ Acquire(c, "tickslock", "clockintr")
      BY <1>0, <1>2, <2>1, Zenon DEF devintr, At, AcquireCall
    <3> QED BY <1>0, <3>1, AcquireInv, Zenon
  <2>2. CASE Tp(c) # 0
    <3>1. PlainGoto(c, ctx[x].pc, Acked(c)) /\ Goto(c, Acked(c)) /\ UNCHANGED <<hart, cpu, proc, lock, panicked>>
      BY <1>0, <1>2, <2>2, Zenon DEF devintr, At, PlainGoto
    <3> QED BY <1>0, <3>1, PlainGotoInv, Zenon
  <2> QED BY <2>1, <2>2, Zenon
<1>3. ASSUME NEW t \in Threads, clockintr(c, t) PROVE TrapInv'
  BY <1>3, ClockintrInv, Zenon
<1>4. CASE Ticked(c)
  <2>1. ReleaseCall(c, x, ctx[x].pc, "tickslock", cpu[c], Acked(c)) /\ Release(c, "tickslock", cpu[c], Acked(c))
    BY <1>0, <1>4, Zenon DEF Ticked, At, ReleaseCall
  <2> QED BY <1>0, <2>1, ReleaseInv, Zenon
<1>5. CASE yield(c)
  <2>1. AcquireCall(x, ctx[x].pc, x, "yielding") /\ Acquire(c, x, "yielding")
    BY <1>0, <1>5, Zenon DEF yield, At, AcquireCall
  <2> QED BY <1>0, <2>1, AcquireInv, Zenon
<1>6. CASE Yielding(c)
  <2>1. SchedCall(c, x, "RUNNABLE", "yielded", cpu[c], lock) /\ Sched(c, "RUNNABLE", "yielded", cpu[c], lock)
    BY <1>0, <1>6, Zenon DEF Yielding, At, SchedCall
  <2> QED BY <1>0, <2>1, SchedInv, Zenon
<1>7. CASE Yielded(c)
  <2>1. PICK q : q = IF ctx[x].trap # NoTrap THEN "kernelret" ELSE "usertrapret"
    BY Zenon
  <2>2. ReleaseCall(c, x, ctx[x].pc, x, Resumed(c), q) /\ Release(c, x, Resumed(c), q)
    BY <1>0, <1>7, <2>1, Zenon DEF Yielded, At, ReleaseCall
  <2> QED BY <1>0, <2>2, ReleaseInv, Zenon
<1>8. CASE kernelret(c)
  BY <1>8, KernelretInv, Zenon
<1>9. CASE sret(c)
  BY <1>9, SretInv, Zenon
<1> QED BY <1>1, <1>2, <1>3, <1>4, <1>5, <1>6, <1>7, <1>8, <1>9, Zenon DEF Interrupt

LEMMA UserInv ==
  ASSUME TrapInv, NEW c \in Harts, User(c)
  PROVE  TrapInv'
<1>1. CASE forkret(c)
  <2>0. PICK x : x = Run(c) /\ x \in Threads \cup Harts /\ Tp(c) = c
    BY Executing, Zenon
  <2>1. ReleaseCall(c, x, ctx[x].pc, x, cpu[c], "usertrapret") /\ Release(c, x, cpu[c], "usertrapret")
    BY <1>1, <2>0, Zenon DEF forkret, At, ReleaseCall
  <2> QED BY <2>0, <2>1, ReleaseInv, Zenon
<1> QED BY <1>1, UserTrapInv, UsertrapInv, UsertrapretInv, UserretInv, Zenon DEF User

LEMMA SyscallInv ==
  ASSUME TrapInv, NEW c \in Harts, Syscall(c)
  PROVE  TrapInv'
<1>0. PICK x : x = Run(c) /\ x \in Threads \cup Harts /\ Tp(c) = c
  BY Executing, Zenon
<1>1. CASE SysReturn(c)
  <2>1. /\ PlainGoto(c, ctx[x].pc, "usertrapret") /\ Goto(c, "usertrapret")
        /\ UNCHANGED <<hart, cpu, proc, lock, panicked>>
    BY <1>0, <1>1, Zenon DEF SysReturn, At, PlainGoto
  <2> QED BY <1>0, <2>1, PlainGotoInv, Zenon
<1>2. CASE sys_sleep(c) \/ Reacquire(c)
  <2>1. AcquireCall(x, ctx[x].pc, "tickslock", "while") /\ Acquire(c, "tickslock", "while")
    BY <1>0, <1>2, Zenon DEF sys_sleep, Reacquire, At, AcquireCall
  <2> QED BY <1>0, <2>1, AcquireInv, Zenon
<1>3. CASE SleepEnd(c)
  <2>1. /\ ReleaseCall(c, x, ctx[x].pc, "tickslock", cpu[c], "usertrapret")
        /\ Release(c, "tickslock", cpu[c], "usertrapret")
    BY <1>0, <1>3, Zenon DEF SleepEnd, At, ReleaseCall
  <2> QED BY <1>0, <2>1, ReleaseInv, Zenon
<1>4. CASE sleep(c)
  <2>1. AcquireCall(x, ctx[x].pc, x, "sleep") /\ Acquire(c, x, "sleep")
    BY <1>0, <1>4, Zenon DEF sleep, At, AcquireCall
  <2> QED BY <1>0, <2>1, AcquireInv, Zenon
<1>5. CASE Sleeping(c)
  BY <1>5, SleepingInv, Zenon
<1>6. CASE Slept(c)
  <2>1. ReleaseCall(c, x, ctx[x].pc, x, Resumed(c), "reacquire") /\ Release(c, x, Resumed(c), "reacquire")
    BY <1>0, <1>6, Zenon DEF Slept, At, ReleaseCall
  <2> QED BY <1>0, <2>1, ReleaseInv, Zenon
<1> QED BY <1>1, <1>2, <1>3, <1>4, <1>5, <1>6, Zenon DEF Syscall

(* Every step of a hart keeps the invariant. *)
LEMMA NextInv == TrapInv /\ [TrapNext]_trapVars => TrapInv'
<1> SUFFICES ASSUME TrapInv, [TrapNext]_trapVars PROVE TrapInv'
  BY Zenon
<1>1. ASSUME NEW c \in Harts, Spin(c) \/ Scheduler(c) \/ Interrupt(c) \/ User(c) \/ Syscall(c)
      PROVE  TrapInv'
  BY <1>1, SpinInv, SchedulerInv, InterruptInv, UserInv, SyscallInv, Zenon
<1>2. CASE UNCHANGED trapVars
  <2>1. UNCHANGED <<hart, cpu, ctx, proc, lock, panicked>>
    BY <1>2, Zenon DEF trapVars
  <2>2. TrapTypeOK' /\ panicked' = "no" /\ \A c, d \in Harts : (Run(c) = Run(d))' => c = d
    BY <2>1, Zenon DEF TrapInv, TrapTypeOK, Run
  <2>3. \A x \in Threads \cup Harts : ContextInv(x)'
    BY <2>1, Zenon DEF TrapInv, ContextInv
  <2>4. \A t \in Threads : ThreadInv(t)' /\ ParkedInv(t)'
    BY <2>1, Zenon DEF TrapInv, ThreadInv, ParkedInv, Run
  <2>5. ASSUME NEW d \in Harts PROVE HartInv(d)'
    BY <2>1, OtherHartInv, Zenon
  <2> QED BY <2>2, <2>3, <2>4, <2>5, Zenon DEF TrapInv
<1> QED BY <1>1, <1>2, Zenon DEF TrapNext

(* What each point of a context says of the hart that executes it, for      *)
(* every number of harts and threads: the invariant of the nested traps,    *)
(* locks and context switches.                                              *)
THEOREM TrapsCorrect == TrapSpec => []TrapInv
BY InitInv, NextInv, PTL DEF TrapSpec

(* No panic of acquire(), release(), pop_off(), sched() or usertrap() is     *)
(* reached, and no trap arrives at the vector of the other mode.            *)
THEOREM NoTrapPanics == TrapSpec => []TrapsNeverPanic
<1>1. TrapInv => TrapsNeverPanic
  BY Zenon DEF TrapInv, TrapsNeverPanic
<1> QED BY <1>1, TrapsCorrect, PTL

(* A trap of the kernel returns to where it was taken with interrupts on, a *)
(* trap of the user with the user's registers and at the right instruction, *)
(* and tp is the hart, whatever harts the thread was on in between.         *)
THEOREM ReturnsCorrect == TrapSpec => []TrapsReturnExactly
<1>1. ASSUME TrapInv, NEW c \in Harts
      PROVE  /\ At(c, "sret") => /\ hart[c].sepc = ctx[Run(c)].trap.at /\ hart[c].spp = "S"
                                 /\ hart[c].spie /\ ~hart[c].sie
             /\ At(c, "userret") =>
                  hart[c].sepc = After(proc[Run(c)].cause) /\ hart[c].spp = "U" /\ ~hart[c].sie
             /\ At(c, "user") => hart[c].regs = Run(c) /\ hart[c].sie
             /\ ~At(c, "user") /\ panicked = "no" => Tp(c) = c
  <2>1. PICK x : x = Run(c) /\ x \in Threads \cup Harts
    BY <1>1, Executing, Zenon
  <2>2. HartInv(c) /\ ContextInv(x) /\ (x \in Threads => ThreadInv(x)) /\ Tp(c) = c
    BY <1>1, <2>1, Executing, Zenon
  <2>3. CASE ctx[x].pc = "sret"
    BY <2>1, <2>2, <2>3, Zenon DEF At, HartInv
  <2>4. CASE ctx[x].pc = "userret"
    <3>1. x \in Threads
      BY <2>1, <2>2, <2>4, Zenon DEF ContextInv, Point, SchedulerAts, SchedulerHome, SchedulerTrap
    <3> QED BY <2>1, <2>2, <2>4, <3>1, Zenon DEF At, HartInv, ThreadInv
  <2>5. CASE ctx[x].pc = "user"
    BY <2>1, <2>2, <2>5, Zenon DEF At, HartInv
  <2>6. CASE ctx[x].pc \notin {"sret", "userret", "user"}
    BY <2>1, <2>2, <2>6, Zenon DEF At
  <2> QED BY <2>3, <2>4, <2>5, <2>6, Zenon
<1>2. TrapInv => TrapsReturnExactly
  BY <1>1, Zenon DEF TrapsReturnExactly
<1> QED BY <1>2, TrapsCorrect, PTL

(* push_off() and pop_off() balance: noff of a cpu is the number of locks   *)
(* that it holds or spins for, across traps and context switches, and       *)
(* interrupts are off as long as there is one.                              *)
THEOREM OffsBalance == TrapSpec => []InterruptsBalanced
<1>1. ASSUME TrapInv, NEW c \in Harts, NEW held,
             held = {l \in Locks : lock[l] = c} \cup {l \in Locks : At(c, "spin") /\ ctx[Run(c)].lk = l}
      PROVE  /\ cpu[c].noff = Cardinality(held)
             /\ held # {} => ~hart[c].sie
             /\ ctx[Run(c)].pc \in {"syscall", "reacquire"} => hart[c].sie
  <2>1. PICK x, k : x = Run(c) /\ x \in Threads \cup Harts /\ k = ctx[x]
    BY <1>1, Executing, Zenon
  <2>2. HartInv(c) /\ ContextInv(x) /\ panicked = "no"
    BY <1>1, <2>1, Executing, Zenon DEF TrapInv
  <2>3. Point(k) \in {"yielding", "yielded", "slept", "forkret", "sleep"} => x \in Threads
    BY <2>1, <2>2, Zenon DEF ContextInv, SchedulerAts, SchedulerHome, SchedulerTrap
  <2>4. LocksAt(x, k) \subseteq Locks
    BY <2>1, <2>2, <2>3, Names, Zenon DEF LocksAt, ContextInv
  <2>5. k.pc = "spin" => k.lk \in LocksAt(x, k)
    BY <2>1, <2>2, Zenon DEF LocksAt, ContextInv
  <2>6. held = LocksAt(x, k)
    <3>1. \A l \in Locks : lock[l] = c <=> l \in HeldAt(x, k)
      BY <2>1, <2>2, Zenon DEF HartInv
    <3>2. CASE k.pc = "spin"
      <4>1. HeldAt(x, k) = LocksAt(x, k) \ {k.lk} /\ At(c, "spin")
        BY <2>1, <2>2, <3>2, Zenon DEF HeldAt, At
      <4> QED BY <1>1, <2>1, <2>4, <2>5, <3>1, <3>2, <4>1, Zenon
    <3>3. CASE k.pc # "spin"
      <4>1. HeldAt(x, k) = LocksAt(x, k) /\ ~At(c, "spin")
        BY <2>1, <3>3, Zenon DEF HeldAt, At
      <4> QED BY <1>1, <2>4, <3>1, <4>1, Zenon
    <3> QED BY <3>2, <3>3, Zenon
  <2>7. Cardinality(LocksAt(x, k)) = IF Point(k) \in OneLock THEN 1 ELSE IF Point(k) = "sleep" THEN 2 ELSE 0
    <3>1. CASE Point(k) \in OneLock
      <4>1. \E l : LocksAt(x, k) = {l}
        BY <3>1, Zenon DEF LocksAt, OneLock
      <4> QED BY <3>1, <4>1, FS_Singleton, Zenon
    <3>2. CASE Point(k) = "sleep"
      <4>1. LocksAt(x, k) = {"tickslock"} \cup {x} /\ x \notin {"tickslock"}
        BY <2>3, <3>2, Names, Zenon DEF LocksAt
      <4>2. IsFiniteSet({"tickslock"}) /\ Cardinality({"tickslock"}) = 1
        BY FS_Singleton, Zenon
      <4>3. Cardinality({"tickslock"} \cup {x}) = 2
        BY <4>1, <4>2, FS_AddElement
      <4> QED BY <3>2, <4>1, <4>3, Zenon DEF OneLock
    <3>3. CASE Point(k) \notin OneLock \cup {"sleep"}
      <4>1. LocksAt(x, k) = {}
        BY <3>3, Zenon DEF LocksAt, OneLock
      <4> QED BY <3>3, <4>1, FS_EmptySet, Zenon
    <3> QED BY <3>1, <3>2, <3>3, Zenon
  <2>8. cpu[c].noff = Cardinality(held)
    BY <2>1, <2>2, <2>6, <2>7, Zenon DEF HartInv
  <2>9. LocksAt(x, k) # {} => k.pc \in OneLock \cup {"spin", "sleep"}
    BY Zenon DEF LocksAt, OneLock, Point
  <2>10. held # {} => ~hart[c].sie
    BY <2>1, <2>2, <2>6, <2>9, Zenon DEF HartInv, OneLock
  <2>11. ctx[Run(c)].pc \in {"syscall", "reacquire"} => hart[c].sie
    BY <2>2, Zenon DEF HartInv
  <2> QED BY <2>8, <2>10, <2>11, Zenon
<1>2. TrapInv => InterruptsBalanced
  BY <1>1, Zenon DEF InterruptsBalanced
<1> QED BY <1>2, TrapsCorrect, PTL
=============================================================================
