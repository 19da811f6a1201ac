-------------------------------- MODULE Pipe --------------------------------
(***************************************************************************)
(* A pipe (kernel/pipe.c) shared by processes that inherited its two files *)
(* through fork().  pi->lock is held by a process from acquire() to        *)
(* release() or sleep(); the loops take one step per turn, so that kill()  *)
(* may fall between two turns.                                             *)
(***************************************************************************)
EXTENDS Integers, Sequences

CONSTANTS
  Procs,
  Creator,      \* the process that called pipe()
  NoProc,
  Bytes,
  PIPESIZE,
  UINT,         \* nread and nwrite count modulo this, 2^32 in the code
  MaxWrite,     \* bound: bytes per write()
  MaxRead       \* bound: bytes per read()

ASSUME PipeAssumption ==
  /\ Creator \in Procs
  /\ NoProc \notin Procs
  /\ PIPESIZE \in Nat \ {0}
  /\ UINT \in Nat /\ UINT > PIPESIZE /\ UINT % PIPESIZE = 0
  /\ MaxWrite \in Nat /\ MaxRead \in Nat

VARIABLES
  data, nread, nwrite, readopen, writeopen,    \* struct pipe
  lock,         \* holder of pi->lock
  freed,        \* kfree(pi) was called
  readers,      \* processes with the read end in their ofile[]; f->ref is
  writers,      \* the size of the set
  killed,
  pc,
  left          \* left[p]: n - i, the bytes that the call has yet to move

ring == <<data, nread, nwrite>>
ends == <<readopen, writeopen, freed, readers, writers>>
vars == <<ring, ends, lock, killed, pc, left>>

Labels == {"none", "user", "write", "write_full", "write_sleep", "write_wake",
           "read_wait", "read_empty", "read_sleep", "read_wake", "read_copy",
           "close_read", "close_write"}

(* pipealloc(), called by Creator; the other processes do not exist yet.    *)
(* kalloc() fills the page with one byte.                                   *)
Init ==
  /\ \E junk \in Bytes : data = [k \in 0..(PIPESIZE - 1) |-> junk]
  /\ nread = 0 /\ nwrite = 0
  /\ readopen = TRUE /\ writeopen = TRUE
  /\ lock = NoProc
  /\ freed = FALSE
  /\ readers = {Creator} /\ writers = {Creator}
  /\ killed = [p \in Procs |-> FALSE]
  /\ pc = [p \in Procs |-> IF p = Creator THEN "user" ELSE "none"]
  /\ left = [p \in Procs |-> 0]

-----------------------------------------------------------------------------
Full == nwrite = (nread + PIPESIZE) % UINT
Empty == nread = nwrite

(* pc after wakeup(&pi->nread) or wakeup(&pi->nwrite). *)
WakeReaders == [p \in Procs |-> IF pc[p] = "read_sleep" THEN "read_wake" ELSE pc[p]]
WakeWriters == [p \in Procs |-> IF pc[p] = "write_sleep" THEN "write_wake" ELSE pc[p]]

(* release(&pi->lock), and p is at l in the labels pcs. *)
ReleaseAt(pcs, p, l) ==
  /\ lock = p
  /\ lock' = NoProc
  /\ pc' = [pcs EXCEPT ![p] = l]

(* The call returns. *)
Return(pcs, p) ==
  /\ ReleaseAt(pcs, p, "user")
  /\ left' = [left EXCEPT ![p] = 0]

(* acquire(&pi->lock). *)
LockAt(p, l) ==
  /\ lock = NoProc
  /\ lock' = p
  /\ pc' = [pc EXCEPT ![p] = l]

-----------------------------------------------------------------------------
(* pipewrite() *)

WriteCall(p) ==
  /\ pc[p] = "user" /\ ~killed[p]
  /\ p \in writers
  /\ \E k \in 0..MaxWrite : left' = [left EXCEPT ![p] = k]
  /\ LockAt(p, "write")
  /\ UNCHANGED <<ring, ends, killed>>

(* The read end is closed or the process was killed: -1, and no wakeup. *)
WriteAbort(p) ==
  /\ pc[p] = "write" /\ left[p] > 0
  /\ ~readopen \/ killed[p]
  /\ Return(pc, p)
  /\ UNCHANGED <<ring, ends, killed>>

(* The pipe is full: wakeup(&pi->nread), and on to sleep(). *)
WriteFull(p) ==
  /\ pc[p] = "write" /\ left[p] > 0
  /\ readopen /\ ~killed[p]
  /\ Full
  /\ pc' = [WakeReaders EXCEPT ![p] = "write_full"]
  /\ UNCHANGED <<ring, ends, lock, killed, left>>

(* sleep(&pi->nwrite, &pi->lock).  It does not look at killed again. *)
WriteSleep(p) ==
  /\ pc[p] = "write_full"
  /\ ReleaseAt(pc, p, "write_sleep")
  /\ UNCHANGED <<ring, ends, killed, left>>

(* Mutant: the pipe counts as full only when it holds one byte too many. *)
WriteByte_OffByOne(p) ==
  /\ pc[p] = "write" /\ left[p] > 0
  /\ readopen /\ ~killed[p]
  /\ nwrite # (nread + PIPESIZE + 1) % UINT
  /\ lock = p
  /\ \E ch \in Bytes : data' = [data EXCEPT ![nwrite % PIPESIZE] = ch]
  /\ nwrite' = (nwrite + 1) % UINT
  /\ left' = [left EXCEPT ![p] = @ - 1]
  /\ UNCHANGED <<nread, ends, lock, killed, pc>>

WriteByte(p) ==
  /\ pc[p] = "write" /\ left[p] > 0
  /\ readopen /\ ~killed[p]
  /\ ~Full
  /\ lock = p
  /\ \E ch \in Bytes : data' = [data EXCEPT ![nwrite % PIPESIZE] = ch]
  /\ nwrite' = (nwrite + 1) % UINT
  /\ left' = [left EXCEPT ![p] = @ - 1]
  /\ UNCHANGED <<nread, ends, lock, killed, pc>>

(* All bytes are written, or copyin() fails. *)
WriteDone(p) ==
  /\ pc[p] = "write"
  /\ left[p] > 0 => readopen /\ ~killed[p] /\ ~Full
  /\ Return(WakeReaders, p)
  /\ UNCHANGED <<ring, ends, killed>>

WriteRelock(p) ==
  /\ pc[p] = "write_wake"
  /\ LockAt(p, "write")
  /\ UNCHANGED <<ring, ends, killed, left>>

-----------------------------------------------------------------------------
(* piperead() *)

ReadCall(p) ==
  /\ pc[p] = "user" /\ ~killed[p]
  /\ p \in readers
  /\ \E k \in 0..MaxRead : left' = [left EXCEPT ![p] = k]
  /\ LockAt(p, "read_wait")
  /\ UNCHANGED <<ring, ends, killed>>

(* The process was killed while the pipe is empty: -1. *)
ReadAbort(p) ==
  /\ pc[p] = "read_wait"
  /\ Empty /\ writeopen
  /\ killed[p]
  /\ Return(pc, p)
  /\ UNCHANGED <<ring, ends, killed>>

ReadEmpty(p) ==
  /\ pc[p] = "read_wait"
  /\ Empty /\ writeopen
  /\ ~killed[p]
  /\ pc' = [pc EXCEPT ![p] = "read_empty"]
  /\ UNCHANGED <<ring, ends, lock, killed, left>>

(* sleep(&pi->nread, &pi->lock) *)
ReadSleep(p) ==
  /\ pc[p] = "read_empty"
  /\ ReleaseAt(pc, p, "read_sleep")
  /\ UNCHANGED <<ring, ends, killed, left>>

ReadRelock(p) ==
  /\ pc[p] = "read_wake"
  /\ LockAt(p, "read_wait")
  /\ UNCHANGED <<ring, ends, killed, left>>

ReadReady(p) ==
  /\ pc[p] = "read_wait"
  /\ ~(Empty /\ writeopen)
  /\ pc' = [pc EXCEPT ![p] = "read_copy"]
  /\ UNCHANGED <<ring, ends, lock, killed, left>>

ReadByte(p) ==
  /\ pc[p] = "read_copy" /\ left[p] > 0
  /\ ~Empty
  /\ nread' = (nread + 1) % UINT
  /\ left' = [left EXCEPT ![p] = @ - 1]
  /\ UNCHANGED <<data, nwrite, ends, lock, killed, pc>>

(* copyout() fails after the byte was taken. *)
ReadFault(p) ==
  /\ pc[p] = "read_copy" /\ left[p] > 0
  /\ ~Empty
  /\ nread' = (nread + 1) % UINT
  /\ Return(WakeWriters, p)
  /\ UNCHANGED <<data, nwrite, ends, killed>>

ReadDone(p) ==
  /\ pc[p] = "read_copy"
  /\ left[p] = 0 \/ Empty
  /\ Return(WakeWriters, p)
  /\ UNCHANGED <<ring, ends, killed>>

-----------------------------------------------------------------------------
(* Files.  fileclose() drops the reference under ftable.lock; the last one  *)
(* goes on to pipeclose().                                                  *)

CloseRead(p) ==
  /\ pc[p] = "user"
  /\ p \in readers
  /\ readers' = readers \ {p}
  /\ pc' = [pc EXCEPT ![p] = IF readers' = {} THEN "close_read" ELSE "user"]
  /\ UNCHANGED <<ring, readopen, writeopen, freed, writers, lock, killed, left>>

CloseWrite(p) ==
  /\ pc[p] = "user"
  /\ p \in writers
  /\ writers' = writers \ {p}
  /\ pc' = [pc EXCEPT ![p] = IF writers' = {} THEN "close_write" ELSE "user"]
  /\ UNCHANGED <<ring, readopen, writeopen, freed, readers, lock, killed, left>>

(* Mutant: the page is freed with the first end. *)
pipeclose_Early(p) ==
  /\ lock = NoProc
  /\ \/ /\ pc[p] = "close_write"
        /\ writeopen' = FALSE
        /\ pc' = [WakeReaders EXCEPT ![p] = "user"]
        /\ UNCHANGED readopen
     \/ /\ pc[p] = "close_read"
        /\ readopen' = FALSE
        /\ pc' = [WakeWriters EXCEPT ![p] = "user"]
        /\ UNCHANGED writeopen
  /\ freed' = (~readopen' \/ ~writeopen')
  /\ UNCHANGED <<ring, readers, writers, lock, killed, left>>

(* Mutant: the end is marked closed without a wakeup. *)
pipeclose_NoWakeup(p) ==
  /\ lock = NoProc
  /\ \/ pc[p] = "close_write" /\ writeopen' = FALSE /\ UNCHANGED readopen
     \/ pc[p] = "close_read" /\ readopen' = FALSE /\ UNCHANGED writeopen
  /\ pc' = [pc EXCEPT ![p] = "user"]
  /\ freed' = (~readopen' /\ ~writeopen')
  /\ UNCHANGED <<ring, readers, writers, lock, killed, left>>

pipeclose(p) ==
  /\ lock = NoProc
  /\ \/ /\ pc[p] = "close_write"
        /\ writeopen' = FALSE
        /\ pc' = [WakeReaders EXCEPT ![p] = "user"]
        /\ UNCHANGED readopen
     \/ /\ pc[p] = "close_read"
        /\ readopen' = FALSE
        /\ pc' = [WakeWriters EXCEPT ![p] = "user"]
        /\ UNCHANGED writeopen
  /\ freed' = (~readopen' /\ ~writeopen')
  /\ UNCHANGED <<ring, readers, writers, lock, killed, left>>

(* fork(): the child q gets the files that p has open, by filedup().        *)
Fork(p, q) ==
  /\ pc[p] = "user" /\ ~killed[p]
  /\ pc[q] = "none"
  /\ pc' = [pc EXCEPT ![q] = "user"]
  /\ readers' = IF p \in readers THEN readers \cup {q} ELSE readers
  /\ writers' = IF p \in writers THEN writers \cup {q} ELSE writers
  /\ UNCHANGED <<ring, readopen, writeopen, freed, lock, killed, left>>

kill(p) ==
  /\ pc[p] # "none" /\ ~killed[p]
  /\ killed' = [killed EXCEPT ![p] = TRUE]
  /\ pc' = [pc EXCEPT ![p] = IF @ = "read_sleep" THEN "read_wake"
                             ELSE IF @ = "write_sleep" THEN "write_wake" ELSE @]
  /\ UNCHANGED <<ring, ends, lock, left>>

-----------------------------------------------------------------------------
WriteStep(p) ==
  \/ WriteAbort(p) \/ WriteFull(p) \/ WriteSleep(p) \/ WriteByte(p)
  \/ WriteDone(p) \/ WriteRelock(p)

ReadStep(p) ==
  \/ ReadAbort(p) \/ ReadEmpty(p) \/ ReadSleep(p) \/ ReadRelock(p)
  \/ ReadReady(p) \/ ReadByte(p) \/ ReadFault(p) \/ ReadDone(p)

Next ==
  \E p \in Procs :
    \/ WriteCall(p) \/ WriteStep(p) \/ ReadCall(p) \/ ReadStep(p)
    \/ CloseRead(p) \/ CloseWrite(p) \/ pipeclose(p) \/ kill(p)
    \/ \E q \in Procs : Fork(p, q)

Spec == Init /\ [][Next]_vars

(* A process in the kernel keeps running; one that spins for pi->lock gets  *)
(* it if the lock is free again and again.                                  *)
Fairness ==
  \A p \in Procs : SF_vars(WriteStep(p) \/ ReadStep(p) \/ pipeclose(p))

FairSpec == Spec /\ Fairness

-----------------------------------------------------------------------------
(* Properties. *)

(* Every variable has its type, and no call moves more bytes than it was    *)
(* asked for.                                                               *)
TypeOK ==
  /\ data \in [0..(PIPESIZE - 1) -> Bytes]
  /\ nread \in 0..(UINT - 1) /\ nwrite \in 0..(UINT - 1)
  /\ readopen \in BOOLEAN /\ writeopen \in BOOLEAN /\ freed \in BOOLEAN
  /\ lock \in Procs \cup {NoProc}
  /\ readers \subseteq Procs /\ writers \subseteq Procs
  /\ killed \in [Procs -> BOOLEAN]
  /\ pc \in [Procs -> Labels]
  /\ left \in [Procs -> Nat]

(* The bytes in flight, oldest first. *)
InFlight ==
  [k \in 1..((nwrite + UINT - nread) % UINT) |-> data[(nread + k - 1) % PIPESIZE]]

Stream == INSTANCE ByteStream WITH
  Capacity <- PIPESIZE, q <- InFlight, ropen <- readopen, wopen <- writeopen

(* The ring buffer implements ByteStream: piperead() delivers the bytes of  *)
(* pipewrite() in order, also when the unsigned counters wrap around.       *)
StreamSpec == Stream!Spec

(* No call is inside piperead() or pipewrite(), or about to enter           *)
(* pipeclose(), when the page of the pipe has been freed.                   *)
FreedIsUnused ==
  freed => /\ readers = {} /\ writers = {}
           /\ \A p \in Procs : pc[p] \in {"none", "user"}

InRead == {"read_wait", "read_empty", "read_sleep", "read_wake", "read_copy"}
InWrite == {"write", "write_full", "write_sleep", "write_wake"}

(* When the last writer has closed its end, every reader comes back with    *)
(* the remaining bytes or end of file.                                      *)
ReadersSeeEof ==
  \A p \in Procs :
    writers = {} /\ pc[p] \in InRead ~> pc[p] = "user"

(* When the last reader has closed its end, every writer comes back.        *)
WritersSeeBrokenPipe ==
  \A p \in Procs :
    readers = {} /\ pc[p] \in InWrite ~> pc[p] = "user"

(* pipeclose() reaches everyone: a reader of a pipe without writers and a   *)
(* writer of a pipe without readers return.                                 *)
ClosesAreSeen == ReadersSeeEof /\ WritersSeeBrokenPipe
=============================================================================
