----------------------------- MODULE FileTable ------------------------------
(***************************************************************************)
(* The table of open files: filealloc, filedup and fileclose of file.c,    *)
(* the descriptor calls of sysfile.c (dup, close, open's and pipe's use of *)
(* the table), pipealloc and pipeclose as far as files go, and what fork   *)
(* and exit do with descriptors.                                           *)
(*                                                                         *)
(* A section under ftable.lock is one step.  The life of inodes is in      *)
(* Inodes, what files contain in FileData, the bytes in a pipe in Pipe.    *)
(***************************************************************************)
EXTENDS Integers, FiniteSets, FiniteSetsExt, SequencesExt

CONSTANTS Procs, NOFILE,     \* descriptors of a process
          NFILE,             \* entries of the file table
          NPIPE              \* bound: pages kalloc has for pipes

ASSUME FileTableAssumption == {NOFILE, NFILE, NPIPE} \subseteq Nat

VARIABLES ofile,     \* of a process: its descriptors, 0 where there is none
          ftable,    \* ref, type, pipe, and which end of it, of a file
          pipes,     \* the ends of each pipe that are open; {} when it has no page
          call       \* of a process: the call it is in and the files that call holds

tablevars == <<ofile, ftable, pipes, call>>

Fds == 0..NOFILE - 1
FileNos == 1..NFILE
PipeNos == 1..NPIPE
FD_NONE == [ref |-> 0, type |-> "FD_NONE", pipe |-> 0, writable |-> FALSE]
User == [pc |-> "user", f |-> <<>>]

TableInit ==
  /\ ofile = [p \in Procs |-> [d \in Fds |-> 0]]
  /\ ftable = [f \in FileNos |-> FD_NONE]
  /\ pipes = [k \in PipeNos |-> {}]
  /\ call = [p \in Procs |-> User]
---------------------------------------------------------------------------
Become(p, r) == call' = [call EXCEPT ![p] = r]

(* filealloc and fdalloc: the first free entry, 0 and -1 if there is none. *)
filealloc == LET none == {f \in FileNos : ftable[f].ref = 0} IN IF none = {} THEN 0 ELSE Min(none)
fdalloc(fds) == LET none == {d \in Fds : fds[d] = 0} IN IF none = {} THEN -1 ELSE Min(none)

(* fileclose of each file of s: the table, and the ends of pipes it closes *)
(* (Pipe has the step between the two).                                    *)
Closed(t, f) == IF t[f].ref > 1 THEN [t EXCEPT ![f].ref = @ - 1]
                ELSE [t EXCEPT ![f] = FD_NONE]
End(x) == IF x.writable THEN "write" ELSE "read"
PipeClosed(t, ps, f) ==
  IF t[f].ref = 1 /\ t[f].type = "FD_PIPE" THEN [ps EXCEPT ![t[f].pipe] = @ \ {End(t[f])}] ELSE ps

fileclose(s) ==
  LET x == FoldLeft(LAMBDA y, f : <<Closed(y[1], f), PipeClosed(y[1], y[2], f)>>, <<ftable, pipes>>, s)
  IN ftable' = x[1] /\ pipes' = x[2]

(* argfd *)
Has(p, d) == call[p] = User /\ ofile[p][d] # 0

sys_dup(p, d) ==
  LET fd == fdalloc(ofile[p])
  IN /\ Has(p, d) /\ fd >= 0
     /\ ofile' = [ofile EXCEPT ![p][fd] = ofile[p][d]]
     /\ ftable' = [ftable EXCEPT ![ofile[p][d]].ref = @ + 1]
     /\ UNCHANGED <<pipes, call>>

sys_close(p, d) ==
  /\ Has(p, d)
  /\ ofile' = [ofile EXCEPT ![p][d] = 0]
  /\ fileclose(<<ofile[p][d]>>)
  /\ UNCHANGED call

(* A call takes a file; without one it closes those it has and fails. *)
TakeFile(p, pc, next) ==
  LET f == filealloc
  IN /\ call[p].pc = pc
     /\ \/ /\ f # 0
           /\ ftable' = [ftable EXCEPT ![f].ref = 1]
           /\ Become(p, [call[p] EXCEPT !.pc = next, !.f = Append(@, f)])
           /\ UNCHANGED pipes
        \/ /\ f = 0
           /\ fileclose(call[p].f)
           /\ Become(p, User)
     /\ UNCHANGED ofile

(* Mutant: without a descriptor the file is forgotten. *)
sys_open_Leaks(p) ==
  LET fd == fdalloc(ofile[p])
      f == Head(call[p].f)
  IN /\ call[p].pc = "open"
     /\ ofile' = IF fd >= 0 THEN [ofile EXCEPT ![p][fd] = f] ELSE ofile
     /\ ftable' = [ftable EXCEPT ![f].type = "FD_INODE"]
     /\ Become(p, User)
     /\ UNCHANGED pipes

(* sys_open has its inode and a file: without a descriptor it closes the   *)
(* file again.                                                             *)
sys_open(p) ==
  LET fd == fdalloc(ofile[p])
      f == Head(call[p].f)
  IN /\ call[p].pc = "open"
     /\ \/ /\ fd >= 0
           /\ ofile' = [ofile EXCEPT ![p][fd] = f]
           /\ ftable' = [ftable EXCEPT ![f].type = "FD_INODE"]
           /\ UNCHANGED pipes
        \/ /\ fd < 0
           /\ fileclose(<<f>>)
           /\ UNCHANGED ofile
     /\ Become(p, User)

(* sys_pipe: pipealloc takes two files, one after the other, and a page;   *)
(* then two descriptors, and copyout of their numbers.  A failure closes   *)
(* the files it has.                                                       *)
FreePipe == {k \in PipeNos : pipes[k] = {}}
PipeEnd(k, write) == [ref |-> 1, type |-> "FD_PIPE", pipe |-> k, writable |-> write]

pipealloc(p) ==
  /\ call[p].pc = "pipe page"
  /\ \/ /\ FreePipe # {}
        /\ LET k == Min(FreePipe)
           IN /\ pipes' = [pipes EXCEPT ![k] = {"read", "write"}]
              /\ ftable' = [ftable EXCEPT ![call[p].f[1]] = PipeEnd(k, FALSE), ![call[p].f[2]] = PipeEnd(k, TRUE)]
        /\ Become(p, [call[p] EXCEPT !.pc = "pipe fds"])
     \/ /\ FreePipe = {}
        /\ fileclose(call[p].f)
        /\ Become(p, User)
  /\ UNCHANGED ofile

sys_pipe(p, copied) ==
  LET fd0 == fdalloc(ofile[p])
      with0 == [ofile[p] EXCEPT ![fd0] = call[p].f[1]]
      fd1 == fdalloc(with0)
  IN /\ call[p].pc = "pipe fds"
     /\ \/ /\ fd0 >= 0 /\ fd1 >= 0 /\ copied
           /\ ofile' = [ofile EXCEPT ![p] = [with0 EXCEPT ![fd1] = call[p].f[2]]]
           /\ UNCHANGED <<ftable, pipes>>
        \/ /\ fd0 < 0 \/ fd1 < 0 \/ ~copied
           /\ fileclose(call[p].f)
           /\ UNCHANGED ofile
     /\ Become(p, User)

(* fork gives the child the parent's files.  A process without files       *)
(* stands for one that does not exist.                                     *)
NoFiles(p) == \A d \in Fds : ofile[p][d] = 0
Count(p, f) == Cardinality({d \in Fds : ofile[p][d] = f})

Fork(p, q) ==
  /\ call[p] = User /\ call[q] = User /\ NoFiles(q) /\ ~NoFiles(p)
  /\ ofile' = [ofile EXCEPT ![q] = ofile[p]]
  /\ ftable' = [f \in FileNos |-> [ftable[f] EXCEPT !.ref = @ + Count(p, f)]]
  /\ UNCHANGED <<pipes, call>>

(* exit closes the descriptors one by one. *)
Exit(p) ==
  /\ call[p].pc = "exit" \/ (call[p] = User /\ ~NoFiles(p))
  /\ LET open == {d \in Fds : ofile[p][d] # 0}
     IN IF open = {} THEN Become(p, User) /\ UNCHANGED <<ofile, ftable, pipes>>
        ELSE /\ ofile' = [ofile EXCEPT ![p][Min(open)] = 0]
             /\ fileclose(<<ofile[p][Min(open)]>>)
             /\ Become(p, [User EXCEPT !.pc = "exit"])

TableNext ==
  \E p \in Procs :
    \/ \E d \in Fds : sys_dup(p, d) \/ sys_close(p, d)
    \/ TakeFile(p, "user", "open") \/ sys_open(p)
    \/ TakeFile(p, "user", "pipe file") \/ TakeFile(p, "pipe file", "pipe page") \/ pipealloc(p)
    \/ \E copied \in BOOLEAN : sys_pipe(p, copied)
    \/ Exit(p) \/ \E q \in Procs : Fork(p, q)

---------------------------------------------------------------------------
(* FilesCounted: a file's ref is the number of descriptors and calls that  *)
(* hold it; a free entry has type FD_NONE, so that undoing an open closes  *)
(* nothing else; and a pipe's page lives exactly as long as files refer to *)
(* it, each open end by one file.                                          *)
FilesCounted ==
  /\ \A f \in FileNos :
       /\ ftable[f].ref = MapThenSumSet(LAMBDA p : Count(p, f), Procs)
                          + Cardinality({p \in Procs : f \in ToSet(call[p].f)})
       /\ ftable[f].ref = 0 => ftable[f].type = "FD_NONE"
  /\ \A k \in PipeNos : \A e \in {"read", "write"} :
       Cardinality({f \in FileNos : ftable[f].type = "FD_PIPE" /\ ftable[f].pipe = k /\ End(ftable[f]) = e})
         = IF e \in pipes[k] THEN 1 ELSE 0
=============================================================================
