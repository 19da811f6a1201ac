------------------------------- MODULE Memory -------------------------------
(***************************************************************************)
(* Physical pages and user page tables: kalloc.c, vm.c, exec.c and the     *)
(* parts of proc.c and sysfile.c that allocate and free user memory        *)
(* (allocproc, freeproc, fork, growproc, sys_exec).                        *)
(*                                                                         *)
(* A page-table page has FAN entries (512 in the code), a page has PGSIZE  *)
(* bytes, a virtual page number has three digits of base FAN, one a level. *)
(* Pages are counted, not named: a table says which of its pages exist and *)
(* what kind of page each leaf maps, and kalloc and kfree change the       *)
(* length of the free list.  A page that is lost, freed twice or mapped    *)
(* twice makes the counts disagree.                                        *)
(*                                                                         *)
(* A page table belongs to one process, so a call that allocates until it  *)
(* succeeds or fails, and then only frees, is one step; exec, which sleeps *)
(* on the disk between its allocations, is one step for each stretch.      *)
(***************************************************************************)
EXTENDS Integers, FiniteSets, FiniteSetsExt, SequencesExt

CONSTANTS NPAGES,   \* pages on the free list before the first process
          NPROC,    \* slots of the process table
          FAN,      \* entries of a page-table page
          PGSIZE,   \* bytes of a page
          UINTMAX,  \* 2^32 of the code: where growproc's uint sz wraps
          MAXARG,   \* argument strings of exec
          Increments, \* bound: what sbrk adds or takes away
          Vaddrs, Memszs \* bound: vaddr and memsz of program headers

ASSUME MemoryAssumption ==
  /\ NPAGES \in Nat /\ NPROC \in Nat \ {0} /\ FAN \in Nat \ {0, 1}
  /\ PGSIZE \in Nat \ {0} /\ MAXARG \in Nat
  /\ NPAGES < FAN * FAN * FAN - 2 /\ NPAGES * PGSIZE < UINTMAX
  /\ Increments \subseteq Nat /\ Vaddrs \subseteq Nat /\ Memszs \subseteq Nat

VARIABLES free,       \* length of kmem.freelist
          pagetable, sz,  \* of each slot
          pc,         \* where the process of a slot is; "unused" if none
          newpt, newsz,   \* exec's pagetable and sz
          argv,       \* number of pages in sys_exec's argv
          panicked

memVars == <<free, pagetable, sz, pc, newpt, newsz, argv, panicked>>

Slots == 1..NPROC
VPages == 0..FAN * FAN * FAN - 1
TRAMPOLINE == FAN * FAN * FAN - 1
TRAPFRAME == TRAMPOLINE - 1
NPages(n) == (n + PGSIZE - 1) \div PGSIZE     \* PGROUNDUP(n) / PGSIZE
PGROUNDUP(n) == NPages(n) * PGSIZE

(* A page table: the indices of the middle and lowest table pages that     *)
(* exist, and what each virtual page maps to: a page of the user's, the    *)
(* guard page of its stack, or the trampoline and the trap frame, which    *)
(* belong to no table.                                                     *)
NoTable == [root |-> FALSE, mid |-> {}, low |-> {}, leaf |-> [v \in VPages |-> "none"]]
UserPages(t) == {v \in VPages : t.leaf[v] \in {"user", "guard"}}
PagesOf(t) ==
  (IF t.root THEN 1 ELSE 0) + Cardinality(t.mid) + Cardinality(t.low) + Cardinality(UserPages(t))

(* The state a function of vm.c works on: the free list, the table it is   *)
(* given, whether it has succeeded so far and whether it called panic.     *)
Start(t) == [free |-> free, pt |-> t, ok |-> TRUE, panic |-> FALSE]
Panic(m) == [m EXCEPT !.panic = TRUE]
Then(m, Op(_)) == IF m.ok THEN Op(m) ELSE m     \* go on if m succeeded
Else(m, Undo(_)) == IF m.ok THEN m ELSE Undo(m) \* clean up if it failed
---------------------------------------------------------------------------
kalloc(m) == IF m.free = 0 THEN [m EXCEPT !.ok = FALSE] ELSE [m EXCEPT !.free = @ - 1]

kfree(m, n) == [m EXCEPT !.free = @ + n]

(* walk with alloc set: the missing table pages on the way to v, from the  *)
(* top; one that was made stays when the next cannot be.                   *)
walk(m, v) ==
  LET Mid(x) == [x EXCEPT !.pt.mid = @ \cup {v \div (FAN * FAN)}]
      Low(x) == [x EXCEPT !.pt.low = @ \cup {v \div FAN}]
  IN Then(IF v \div (FAN * FAN) \in m.pt.mid THEN m ELSE Then(kalloc(m), Mid),
          LAMBDA x : IF v \div FAN \in x.pt.low THEN x ELSE Then(kalloc(x), Low))

(* walk without alloc, and the entry it leads to. *)
Entry(t, v) ==
  IF v \div (FAN * FAN) \in t.mid /\ v \div FAN \in t.low THEN t.leaf[v] ELSE "none"

walkaddr(t, v) == Entry(t, v) = "user"

(* Every caller with a user table maps one page. *)
mappages(m, v, kind) ==
  Then(walk(m, v), LAMBDA w : IF w.pt.leaf[v] # "none" THEN Panic(w)
                              ELSE [w EXCEPT !.pt.leaf[v] = kind])

uvmunmap(m, v, n, do_free) ==
  IF \E u \in v..v + n - 1 : Entry(m.pt, u) = "none" THEN Panic(m)
  ELSE [m EXCEPT !.pt.leaf = [u \in VPages |-> IF u \in v..v + n - 1 THEN "none" ELSE @[u]],
                 !.free = IF do_free THEN @ + n ELSE @]

uvmcreate(m) == Then(kalloc(m), LAMBDA k : [k EXCEPT !.pt = [NoTable EXCEPT !.root = TRUE]])

uvmdealloc(m, old, new) ==
  IF new >= old THEN m ELSE uvmunmap(m, NPages(new), NPages(old) - NPages(new), TRUE)

(* Pages first..last - 1, one kalloc and one mappages each; the pages it   *)
(* made are unmapped again on failure.  kind[v] is what page v becomes.    *)
MapRange(m, first, last, kind) ==
  LET Back(x) == kfree(x, 1)
      Page(x, v) == Then(kalloc(x), LAMBDA k : Else(mappages(k, v, kind[v]), Back))
      One(x, v) == Then(x, LAMBDA y : Else(Page(y, v),
                                           LAMBDA z : uvmunmap(z, first, v - first, TRUE)))
  IN FoldLeft(One, m, [i \in 1..last - first |-> first + i - 1])

uvmalloc(m, old, new) ==
  IF new < old THEN m ELSE MapRange(m, NPages(old), NPages(new), [v \in VPages |-> "user"])

(* Mutant: a failure is not reported. *)
Grown_Always(ok, old, new) == IF new < old THEN old ELSE new

(* The size uvmalloc returns, 0 when it fails: callers take 0 for failure. *)
Grown(ok, old, new) == IF new < old THEN old ELSE IF ok THEN new ELSE 0

freewalk(m) ==
  IF \E v \in VPages : m.pt.leaf[v] # "none" THEN Panic(m)
  ELSE [m EXCEPT !.free = @ + PagesOf(m.pt), !.pt = NoTable]

uvmfree(m, size) == freewalk(uvmunmap(m, 0, NPages(size), TRUE))

(* m.pt is the child's table. *)
uvmcopy(m, old, size) ==
  IF \E v \in 0..NPages(size) - 1 : Entry(old, v) = "none" THEN Panic(m)
  ELSE MapRange(m, 0, NPages(size), old.leaf)

(* exec takes the user bit off the page below its stack. *)
uvmclear(m, v) ==
  IF Entry(m.pt, v) = "none" THEN Panic(m) ELSE [m EXCEPT !.pt.leaf[v] = "guard"]

(* proc.c: a table with the trampoline and the trap frame. *)
proc_pagetable(m) ==
  LET Frame(t) == Else(mappages(t, TRAPFRAME, "trapframe"),
                       LAMBDA f : uvmunmap(f, TRAMPOLINE, 1, FALSE))
  IN Then(uvmcreate(m), LAMBDA c : Else(Then(mappages(c, TRAMPOLINE, "trampoline"), Frame),
                                        LAMBDA x : uvmfree(x, 0)))

proc_freepagetable(m, size) ==
  uvmfree(uvmunmap(uvmunmap(m, TRAMPOLINE, 1, FALSE), TRAPFRAME, 1, FALSE), size)

(* Mutant: a table that could not be completed leaves the trap frame behind. *)
freeproc_KeepsFrame(m, size) ==
  IF m.pt.root THEN proc_freepagetable(kfree(m, 1), size) ELSE m

(* The trap frame page, and the table if the slot has one. *)
freeproc(m, size) ==
  IF m.pt.root THEN proc_freepagetable(kfree(m, 1), size) ELSE kfree(m, 1)

allocproc(m) ==
  Then(kalloc(m), LAMBDA a : Else(proc_pagetable(a), LAMBDA b : freeproc(b, 0)))

(* growproc: size + n is a sum of 32-bit unsigned integers. *)
UintSum(size, n) == (size + n) % UINTMAX

growproc(m, size, n) ==
  IF n > 0 THEN uvmalloc(m, size, UintSum(size, n)) ELSE uvmdealloc(m, size, UintSum(size, n))

(* p->sz after growproc; ok says whether uvmalloc found the memory. *)
SizeAfter(ok, size, n) ==
  IF n > 0 THEN (IF Grown(ok, size, UintSum(size, n)) = 0 THEN size
                 ELSE Grown(ok, size, UintSum(size, n)))
  ELSE Min({size, UintSum(size, n)})
---------------------------------------------------------------------------
(* userinit: the first process has one user page. *)
MemoryInit ==
  LET u == uvmalloc(allocproc([free |-> NPAGES, pt |-> NoTable, ok |-> TRUE, panic |-> FALSE]),
                    0, PGSIZE)
      First(x, y) == [s \in Slots |-> IF s = 1 THEN x ELSE y]
  IN /\ free = u.free /\ panicked = u.panic
     /\ pagetable = First(u.pt, NoTable) /\ sz = First(PGSIZE, 0)
     /\ pc = First("user", "unused")
     /\ newpt = First(NoTable, NoTable) /\ newsz = First(0, 0) /\ argv = First(0, 0)

(* m is what a call left of slot s: its table becomes the process's, or    *)
(* exec's new one.                                                         *)
Memory(m) == free' = m.free /\ panicked' = (panicked \/ m.panic)

Image(s, m, Size(_), At(_)) ==
  /\ Memory(m)
  /\ pagetable' = [pagetable EXCEPT ![s] = m.pt]
  /\ sz' = [sz EXCEPT ![s] = Size(m.ok)] /\ pc' = [pc EXCEPT ![s] = At(m.ok)]
  /\ UNCHANGED <<newpt, newsz, argv>>

NewImage(s, m, Size(_), At(_)) ==
  /\ Memory(m)
  /\ newpt' = [newpt EXCEPT ![s] = m.pt]
  /\ newsz' = [newsz EXCEPT ![s] = Size(m.ok)] /\ pc' = [pc EXCEPT ![s] = At(m.ok)]
  /\ UNCHANGED <<pagetable, sz, argv>>

(* fork: allocproc takes the first unused slot. *)
fork(s) ==
  /\ pc[s] = "user" /\ \E t \in Slots : pc[t] = "unused"
  /\ Image(Min({t \in Slots : pc[t] = "unused"}),
           Then(allocproc(Start(NoTable)),
                LAMBDA a : Else(uvmcopy(a, pagetable[s], sz[s]), LAMBDA c : freeproc(c, 0))),
           LAMBDA ok : IF ok THEN sz[s] ELSE 0,
           LAMBDA ok : IF ok THEN "user" ELSE "unused")

(* A process other than init has exited and its parent's wait frees it. *)
Reap(s) ==
  /\ s # 1 /\ pc[s] = "user"
  /\ Image(s, freeproc(Start(pagetable[s]), sz[s]), LAMBDA ok : 0, LAMBDA ok : "unused")

sys_sbrk(s, n) ==
  /\ pc[s] = "user"
  /\ Image(s, growproc(Start(pagetable[s]), sz[s], n),
           LAMBDA ok : SizeAfter(ok, sz[s], n), LAMBDA ok : "user")

(* One turn of sys_exec's loop: it copies an argument string into a page   *)
(* of its own; fetch is what fetchaddr and fetchstr say of the process's   *)
(* memory.                                                                 *)
ExecArg(s, fetch) ==
  LET got == argv[s] < MAXARG /\ fetch # "bad address" /\ free > 0
  IN /\ pc[s] \in {"user", "argv"}
     /\ Memory(IF got THEN kalloc(Start(NoTable)) ELSE Start(NoTable))
     /\ argv' = [argv EXCEPT ![s] = IF got THEN @ + 1 ELSE @]
     /\ pc' = [pc EXCEPT ![s] = IF got /\ fetch = "ok" THEN "argv" ELSE "free argv"]
     /\ UNCHANGED <<pagetable, sz, newpt, newsz>>

(* exec up to proc_pagetable; elf says whether the file has a good header. *)
ExecStart(s, elf) ==
  /\ pc[s] \in {"user", "argv"} /\ argv[s] < MAXARG
  /\ NewImage(s, IF elf THEN proc_pagetable(Start(NoTable)) ELSE Start(NoTable),
              LAMBDA ok : 0, LAMBDA ok : IF elf /\ ok THEN "load" ELSE "free argv")

(* loadseg looks up each page of the segment before it reads into it. *)
loadseg(m, va, size) ==
  IF \A i \in 0..NPages(size) - 1 : walkaddr(m.pt, va \div PGSIZE + i) THEN m ELSE Panic(m)

(* One turn of exec's loop over the program headers, with filesz = memsz;  *)
(* reads says whether readi returned what was asked for.                   *)
ExecSegment(s, vaddr, memsz, reads) ==
  LET end == vaddr + memsz
      aligned == vaddr % PGSIZE = 0
  IN /\ pc[s] = "load"
     /\ NewImage(s,
          Then(uvmalloc(Start(newpt[s]), newsz[s], end),
               LAMBDA m : IF aligned THEN loadseg(m, vaddr, memsz) ELSE m),
          LAMBDA ok : IF Grown(ok, newsz[s], end) = 0 THEN newsz[s] ELSE Grown(ok, newsz[s], end),
          LAMBDA ok : IF Grown(ok, newsz[s], end) # 0 /\ aligned /\ reads THEN "load" ELSE "bad")

(* exec's two pages for the stack: the lower one becomes the guard. *)
ExecStack(s) ==
  LET base == PGROUNDUP(newsz[s])
  IN /\ pc[s] = "load"
     /\ NewImage(s, Then(uvmalloc(Start(newpt[s]), base, base + 2 * PGSIZE),
                         LAMBDA m : uvmclear(m, base \div PGSIZE)),
                 LAMBDA ok : IF ok THEN base + 2 * PGSIZE ELSE base,
                 LAMBDA ok : IF ok THEN "commit" ELSE "bad")

(* The arguments fit on the stack: exec switches to the new image. *)
ExecCommit(s) ==
  /\ pc[s] = "commit"
  /\ Memory(proc_freepagetable(Start(pagetable[s]), sz[s]))
  /\ pagetable' = [pagetable EXCEPT ![s] = newpt[s]] /\ sz' = [sz EXCEPT ![s] = newsz[s]]
  /\ newpt' = [newpt EXCEPT ![s] = NoTable] /\ newsz' = [newsz EXCEPT ![s] = 0]
  /\ pc' = [pc EXCEPT ![s] = "free argv"]
  /\ UNCHANGED argv

(* exec's bad, also reached when a program header is no good and when the  *)
(* arguments do not fit on the stack.                                      *)
ExecBad(s) ==
  /\ pc[s] \in {"load", "bad", "commit"}
  /\ NewImage(s, proc_freepagetable(Start(newpt[s]), newsz[s]),
              LAMBDA ok : 0, LAMBDA ok : "free argv")

(* sys_exec frees the argument pages, whatever exec returned. *)
ExecFreeArgv(s) ==
  /\ pc[s] = "free argv"
  /\ Memory(kfree(Start(NoTable), argv[s]))
  /\ argv' = [argv EXCEPT ![s] = 0] /\ pc' = [pc EXCEPT ![s] = "user"]
  /\ UNCHANGED <<pagetable, sz, newpt, newsz>>

MemoryNext ==
  \E s \in Slots :
    \/ fork(s) \/ Reap(s)
    \/ \E n \in Increments : sys_sbrk(s, n) \/ sys_sbrk(s, -n)
    \/ \E fetch \in {"ok", "bad address", "bad string"} : ExecArg(s, fetch)
    \/ \E elf \in BOOLEAN : ExecStart(s, elf)
    \/ \E va \in Vaddrs, n \in Memszs, reads \in BOOLEAN : ExecSegment(s, va, n, reads)
    \/ ExecStack(s) \/ ExecCommit(s) \/ ExecBad(s) \/ ExecFreeArgv(s)

---------------------------------------------------------------------------
(* PagesAccounted: the pages on the free list, in the page tables of live  *)
(* processes (the one exec is building included), in trap frames and in    *)
(* argv are all the pages there are: no failure path of fork, sbrk or exec *)
(* loses a page or gives one back twice.                                   *)
PagesAccounted ==
  LET Held(s) == (IF pc[s] = "unused" THEN 0 ELSE 1)
                 + PagesOf(pagetable[s]) + PagesOf(newpt[s]) + argv[s]
  IN free + MapThenSumSet(Held, Slots) = NPAGES

(* ImageIsMapped: the user pages of a process are exactly those below its  *)
(* size, and its trap frame is mapped; the image exec is building has the  *)
(* size exec would free it with.  None of the panics of mappages,          *)
(* uvmunmap, freewalk, uvmcopy, uvmclear and loadseg is reached.           *)
ImageIsMapped ==
  /\ ~panicked
  /\ \A s \in Slots :
       /\ pc[s] # "unused" => /\ UserPages(pagetable[s]) = 0..NPages(sz[s]) - 1
                              /\ Entry(pagetable[s], TRAPFRAME) = "trapframe"
       /\ newpt[s].root => UserPages(newpt[s]) = 0..NPages(newsz[s]) - 1
=============================================================================
