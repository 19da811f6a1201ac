-------------------------------- MODULE Log --------------------------------
(***************************************************************************)
(* The redo log (kernel/log.c) over the buffer cache and a disk that       *)
(* writes one block atomically.  A critical section of log.lock is one     *)
(* step; so is every bwrite(), and a crash may fall between any two steps. *)
(***************************************************************************)
EXTENDS Naturals, Sequences, FiniteSets

CONSTANTS
  Ops,          \* processes that make file system calls
  Blocks,       \* block numbers outside the log area
  Vals,         \* contents of a block
  NotCached,    \* no buffer holds the block
  NoBlock,
  MAXOPBLOCKS,
  LOGSIZE,
  NLOG,         \* sb.nlog, header block included
  OpBlocks      \* distinct blocks that one call really modifies, at most

ASSUME LogAssumption ==
  /\ IsFiniteSet(Ops)
  /\ NotCached \notin Vals
  /\ NoBlock \notin Blocks
  /\ Vals # {}
  /\ MAXOPBLOCKS \in Nat \ {0}
  /\ LOGSIZE \in Nat
  /\ NLOG \in Nat \ {0}
  /\ OpBlocks \in Nat

(* param.h: LOGSIZE is three times MAXOPBLOCKS; mkfs.c: nlog is LOGSIZE; no *)
(* call of fs.c or sysfile.c modifies as many as MAXOPBLOCKS blocks.        *)
ASSUME LogSizeAssumption ==
  OpBlocks < MAXOPBLOCKS /\ MAXOPBLOCKS < LOGSIZE /\ LOGSIZE <= NLOG

VARIABLES
  disk,         \* home blocks on disk
  dlog,         \* dlog[i]: the i-th block of the log area, behind the header
  dhead,        \* block numbers in the header on disk
  cache,        \* contents of the buffer of each block, or NotCached
  pins,         \* references that bpin() holds
  lh,           \* log.lh: block numbers of the transaction
  outstanding,  \* log.outstanding
  committing,   \* log.committing
  tail,         \* loop variable of the committing or recovering thread
  mode,         \* "up", a step of recover_from_log(), or "panic"
  pc,           \* where each process is
  buf,          \* buf[p]: buffer that p has modified and still locks
  wrote         \* wrote[p]: blocks that the current call of p has modified

diskVars == <<disk, dlog, dhead>>
logVars == <<lh, outstanding, committing, tail>>
opVars == <<pc, buf, wrote>>
vars == <<diskVars, cache, pins, logVars, mode, opVars>>

Slots == 1..(NLOG - 1)

Labels == {"user", "begin", "sleep", "op", "modified", "commit", "write_log",
           "write_head", "install_trans", "erase", "committed"}

Modes == {"read_head", "recover", "erase", "up", "panic"}

Goto(p, l) == pc' = [pc EXCEPT ![p] = l]

(* The disk as mkfs leaves it, with a log area of zeroes, and memory as the *)
(* kernel starts with it.                                                   *)
Init ==
  /\ disk \in [Blocks -> Vals]
  /\ \E zero \in Vals : dlog = [i \in Slots |-> zero]
  /\ dhead = <<>>
  /\ cache = [b \in Blocks |-> NotCached]
  /\ pins = [b \in Blocks |-> 0]
  /\ lh = <<>>
  /\ outstanding = 0
  /\ committing = FALSE
  /\ tail = 1
  /\ mode = "read_head"
  /\ pc = [p \in Ops |-> "user"]
  /\ buf = [p \in Ops |-> NoBlock]
  /\ wrote = [p \in Ops |-> {}]

-----------------------------------------------------------------------------
(* Buffer cache. *)

(* What bread(b) returns. *)
Contents(b) == IF cache[b] = NotCached THEN disk[b] ELSE cache[b]

Elems(s) == {s[i] : i \in 1..Len(s)}

(* Any thread may read a block at any time. *)
bread(b) ==
  /\ mode = "up"
  /\ cache[b] = NotCached
  /\ cache' = [cache EXCEPT ![b] = disk[b]]
  /\ UNCHANGED <<diskVars, pins, logVars, mode, opVars>>

(* bget() gives a buffer without references to another block. *)
Recycle(b) ==
  /\ mode = "up"
  /\ cache[b] # NotCached
  /\ pins[b] = 0
  /\ \A p \in Ops : buf[p] # b
  /\ cache' = [cache EXCEPT ![b] = NotCached]
  /\ UNCHANGED <<diskVars, pins, logVars, mode, opVars>>

-----------------------------------------------------------------------------
(* File system calls. *)

LogFull == Len(lh) + (outstanding + 1) * MAXOPBLOCKS > LOGSIZE

(* Mutant: the caller does not count itself. *)
begin_op_NotItself(p) ==
  /\ mode = "up"
  /\ pc[p] \in {"user", "begin"}
  /\ IF committing \/ Len(lh) + outstanding * MAXOPBLOCKS > LOGSIZE
     THEN Goto(p, "sleep") /\ UNCHANGED outstanding
     ELSE Goto(p, "op") /\ outstanding' = outstanding + 1
  /\ UNCHANGED <<diskVars, cache, pins, lh, committing, tail, mode, buf, wrote>>

begin_op(p) ==
  /\ mode = "up"
  /\ pc[p] \in {"user", "begin"}
  /\ IF committing \/ LogFull
     THEN Goto(p, "sleep") /\ UNCHANGED outstanding
     ELSE Goto(p, "op") /\ outstanding' = outstanding + 1
  /\ UNCHANGED <<diskVars, cache, pins, lh, committing, tail, mode, buf, wrote>>

(* bread(), and the caller changes b->data under the lock of the buffer. *)
Modify(p, b, v) ==
  /\ mode = "up"
  /\ pc[p] = "op"
  /\ \A q \in Ops : buf[q] # b
  /\ Cardinality(wrote[p] \cup {b}) <= OpBlocks
  /\ cache' = [cache EXCEPT ![b] = v]
  /\ buf' = [buf EXCEPT ![p] = b]
  /\ wrote' = [wrote EXCEPT ![p] = @ \cup {b}]
  /\ Goto(p, "modified")
  /\ UNCHANGED <<diskVars, pins, logVars, mode>>

TooBig == Len(lh) >= LOGSIZE \/ Len(lh) >= NLOG - 1

(* log_write(), with bpin() of a block that is new in the log, and the      *)
(* caller's brelse().                                                       *)
log_write(p) ==
  /\ mode = "up"
  /\ pc[p] = "modified"
  /\ IF TooBig \/ outstanding < 1
     THEN mode' = "panic" /\ UNCHANGED <<lh, pins, pc, buf>>
     ELSE /\ IF buf[p] \in Elems(lh)
             THEN UNCHANGED <<lh, pins>>
             ELSE /\ lh' = Append(lh, buf[p])
                  /\ pins' = [pins EXCEPT ![buf[p]] = @ + 1]
          /\ Goto(p, "op")
          /\ buf' = [buf EXCEPT ![p] = NoBlock]
          /\ UNCHANGED mode
  /\ UNCHANGED <<diskVars, cache, outstanding, committing, tail, wrote>>

(* wakeup(&log), after which p is at l. *)
WakeupLog(p, l) ==
  pc' = [q \in Ops |-> IF q = p THEN l
                       ELSE IF pc[q] = "sleep" THEN "begin" ELSE pc[q]]

(* Mutant: the processes that wait for space are not told. *)
end_op_NoWakeup(p) ==
  /\ mode = "up"
  /\ pc[p] = "op"
  /\ outstanding' = outstanding - 1
  /\ wrote' = [wrote EXCEPT ![p] = {}]
  /\ IF outstanding' = 0
     THEN committing' = TRUE /\ Goto(p, "commit")
     ELSE Goto(p, "user") /\ UNCHANGED committing
  /\ UNCHANGED <<diskVars, cache, pins, lh, tail, mode, buf>>

(* The first critical section of end_op(). *)
end_op(p) ==
  /\ mode = "up"
  /\ pc[p] = "op"
  /\ outstanding' = outstanding - 1
  /\ wrote' = [wrote EXCEPT ![p] = {}]
  /\ IF committing
     THEN mode' = "panic" /\ UNCHANGED <<pc, committing>>
     ELSE /\ IF outstanding' = 0
             THEN committing' = TRUE /\ Goto(p, "commit")
             ELSE WakeupLog(p, "user") /\ UNCHANGED committing
          /\ UNCHANGED mode
  /\ UNCHANGED <<diskVars, cache, pins, lh, tail, buf>>

-----------------------------------------------------------------------------
(* commit(), without log.lock. *)

(* Mutant: a transaction of one block is taken for an empty one. *)
commit_SkipsOne(p) ==
  /\ mode = "up"
  /\ pc[p] = "commit"
  /\ Goto(p, IF Len(lh) > 1 THEN "write_log" ELSE "committed")
  /\ UNCHANGED <<diskVars, cache, pins, logVars, mode, buf, wrote>>

(* Mutant: the header is written before the log blocks. *)
commit_HeadFirst(p) ==
  /\ mode = "up"
  /\ pc[p] = "commit"
  /\ dhead' = lh
  /\ Goto(p, IF Len(lh) > 0 THEN "write_log" ELSE "committed")
  /\ UNCHANGED <<disk, dlog, cache, pins, logVars, mode, buf, wrote>>

commit(p) ==
  /\ mode = "up"
  /\ pc[p] = "commit"
  /\ Goto(p, IF Len(lh) > 0 THEN "write_log" ELSE "committed")
  /\ UNCHANGED <<diskVars, cache, pins, logVars, mode, buf, wrote>>

(* One turn of the loop; the last one leads to label l. *)
Turn(p, l) ==
  IF tail < Len(lh)
  THEN tail' = tail + 1 /\ UNCHANGED pc
  ELSE tail' = 1 /\ Goto(p, l)

write_log(p) ==
  /\ mode = "up"
  /\ pc[p] = "write_log"
  /\ dlog' = [dlog EXCEPT ![tail] = Contents(lh[tail])]
  /\ cache' = [cache EXCEPT ![lh[tail]] = Contents(lh[tail])]
  /\ Turn(p, "write_head")
  /\ UNCHANGED <<disk, dhead, pins, lh, outstanding, committing, mode, buf, wrote>>

write_head(p) ==
  /\ mode = "up"
  /\ pc[p] = "write_head"
  /\ dhead' = lh
  /\ Goto(p, "install_trans")
  /\ UNCHANGED <<disk, dlog, cache, pins, logVars, mode, buf, wrote>>

(* install_trans(0): dbuf gets the logged contents, goes to disk, bunpin(). *)
install_trans(p) ==
  LET b == lh[tail] IN
  /\ mode = "up"
  /\ pc[p] = "install_trans"
  /\ cache' = [cache EXCEPT ![b] = dlog[tail]]
  /\ disk' = [disk EXCEPT ![b] = dlog[tail]]
  /\ pins' = [pins EXCEPT ![b] = @ - 1]
  /\ Turn(p, "erase")
  /\ UNCHANGED <<dlog, dhead, lh, outstanding, committing, mode, buf, wrote>>

(* log.lh.n = 0; write_head(). *)
EraseHead(p) ==
  /\ mode = "up"
  /\ pc[p] = "erase"
  /\ lh' = <<>>
  /\ dhead' = <<>>
  /\ Goto(p, "committed")
  /\ UNCHANGED <<disk, dlog, cache, pins, outstanding, committing, tail, mode, buf, wrote>>

(* The second critical section of end_op(). *)
EndCommit(p) ==
  /\ mode = "up"
  /\ pc[p] = "committed"
  /\ committing' = FALSE
  /\ WakeupLog(p, "user")
  /\ UNCHANGED <<diskVars, cache, pins, lh, outstanding, tail, mode, buf, wrote>>

-----------------------------------------------------------------------------
(* The machine stops at any moment, in the middle of a recovery too, and    *)
(* starts again: memory is lost.                                            *)
Crash ==
  /\ cache' = [b \in Blocks |-> NotCached]
  /\ pins' = [b \in Blocks |-> 0]
  /\ lh' = <<>>
  /\ outstanding' = 0
  /\ committing' = FALSE
  /\ tail' = 1
  /\ mode' = "read_head"
  /\ pc' = [p \in Ops |-> "user"]
  /\ buf' = [p \in Ops |-> NoBlock]
  /\ wrote' = [p \in Ops |-> {}]
  /\ UNCHANGED diskVars

(* recover_from_log(), before any process runs. *)
read_head ==
  /\ mode = "read_head"
  /\ lh' = dhead
  /\ mode' = IF Len(dhead) > 0 THEN "recover" ELSE "erase"
  /\ UNCHANGED <<diskVars, cache, pins, outstanding, committing, tail, opVars>>

(* install_trans(1) *)
RecoverBlock ==
  LET b == lh[tail] IN
  /\ mode = "recover"
  /\ cache' = [cache EXCEPT ![b] = dlog[tail]]
  /\ disk' = [disk EXCEPT ![b] = dlog[tail]]
  /\ IF tail < Len(lh)
     THEN tail' = tail + 1 /\ UNCHANGED mode
     ELSE tail' = 1 /\ mode' = "erase"
  /\ UNCHANGED <<dlog, dhead, pins, lh, outstanding, committing, opVars>>

RecoverErase ==
  /\ mode = "erase"
  /\ lh' = <<>>
  /\ dhead' = <<>>
  /\ mode' = "up"
  /\ UNCHANGED <<disk, dlog, cache, pins, outstanding, committing, tail, opVars>>

recover_from_log == read_head \/ RecoverBlock \/ RecoverErase

-----------------------------------------------------------------------------
CommitStep(p) ==
  \/ commit(p) \/ write_log(p) \/ write_head(p) \/ install_trans(p)
  \/ EraseHead(p) \/ EndCommit(p)

OpStep(p) ==
  begin_op(p) \/ log_write(p) \/ end_op(p) \/ \E b \in Blocks, v \in Vals : Modify(p, b, v)

Next ==
  \/ Crash \/ recover_from_log
  \/ \E b \in Blocks : bread(b) \/ Recycle(b)
  \/ \E p \in Ops : OpStep(p) \/ CommitStep(p)

Spec == Init /\ [][Next]_vars

(* Every process that runs keeps running, and a call ends: its writes are   *)
(* bounded.                                                                 *)
Fairness ==
  /\ WF_vars(recover_from_log)
  /\ \A p \in Ops :
       /\ WF_vars(CommitStep(p))
       /\ WF_vars(log_write(p))
       /\ WF_vars(pc[p] = "begin" /\ begin_op(p))
       /\ SF_vars(end_op(p))

FairSpec == Spec /\ Fairness

-----------------------------------------------------------------------------
(* Properties. *)

Active == {p \in Ops : pc[p] \in {"op", "modified"}}

(* What recovery would find: the home blocks, overlaid with the blocks of   *)
(* the log if its header is not empty.                                      *)
Durable ==
  [b \in Blocks |->
     IF \E i \in 1..Len(dhead) : dhead[i] = b
     THEN dlog[CHOOSE i \in 1..Len(dhead) : dhead[i] = b]
     ELSE disk[b]]

(* What a reader sees; before recovery is done nobody reads. *)
Visible ==
  IF mode \in {"up", "panic"} THEN [b \in Blocks |-> Contents(b)] ELSE Durable

Abstract == INSTANCE AtomicDisk WITH mem <- Visible, dur <- Durable, active <- Active

(* The log implements AtomicDisk: the writes of overlapping calls reach the *)
(* disk together, at write_head(), when no call is in progress, and a crash *)
(* at any step, of a recovery too, loses all of them or none.               *)
AtomicSpec == Abstract!Spec

(* Every variable has its type. *)
TypeOK ==
  /\ disk \in [Blocks -> Vals]
  /\ dlog \in [Slots -> Vals]
  /\ dhead \in Seq(Blocks)
  /\ cache \in [Blocks -> Vals \cup {NotCached}]
  /\ pins \in [Blocks -> Nat]
  /\ lh \in Seq(Blocks)
  /\ outstanding \in Nat
  /\ committing \in BOOLEAN
  /\ tail \in Nat
  /\ mode \in Modes
  /\ pc \in [Ops -> Labels]
  /\ buf \in [Ops -> Blocks \cup {NoBlock}]
  /\ wrote \in [Ops -> SUBSET Blocks]

(* The reservation of begin_op() is enough: neither panic of log_write()    *)
(* nor the one of end_op() is reached (param.h:9: "max # of blocks any FS   *)
(* op writes").                                                             *)
NeverPanics == mode # "panic"

(* When the last call is over and its commit is done, everything that was   *)
(* written is on disk.                                                      *)
QuietIsDurable ==
  mode = "up" /\ outstanding = 0 /\ ~committing => Visible = Durable

(* A process asleep in begin_op() is woken to look again.  It may find the  *)
(* log full once more: nothing in begin_op() serves the callers in turn.    *)
SleeperWakes == \A p \in Ops : pc[p] = "sleep" ~> pc[p] # "sleep"

-----------------------------------------------------------------------------
(* The inductive invariant. *)

CommitLabels == {"commit", "write_log", "write_head", "install_trans", "erase", "committed"}

(* No call is open during a commit, and one process commits at a time.      *)
OpInv ==
  /\ outstanding = Cardinality(Active)
  /\ committing => Active = {}
  /\ \A p \in Ops : pc[p] \in CommitLabels => committing
  /\ \A p, q \in Ops : pc[p] \in CommitLabels /\ pc[q] \in CommitLabels => p = q
  /\ \A p \in Ops : buf[p] # NoBlock <=> pc[p] = "modified"
  /\ \A p, q \in Ops : buf[p] = buf[q] /\ buf[p] # NoBlock => p = q
  /\ mode \notin {"up", "panic"} => ~committing /\ \A p \in Ops : pc[p] = "user"

Distinct(s) == \A i, j \in 1..Len(s) : s[i] = s[j] => i = j

(* The header lists each block once and fits in the log area; the loops     *)
(* stay inside it.                                                          *)
HeadInv ==
  /\ Distinct(lh) /\ Len(lh) < NLOG
  /\ Distinct(dhead) /\ Len(dhead) < NLOG
  /\ mode = "recover" => tail \in 1..Len(lh)
  /\ mode # "recover" /\ (\A p \in Ops : pc[p] \notin {"write_log", "install_trans"}) => tail = 1
  /\ \A p \in Ops :
       pc[p] \in {"write_log", "write_head", "install_trans"} => tail \in 1..Len(lh)

(* The i-th block of the transaction is already in its home location. *)
Installed(i) ==
  \E p \in Ops : pc[p] = "erase" \/ (pc[p] = "install_trans" /\ i < tail)

Pending(b) == \E i \in 1..Len(lh) : lh[i] = b /\ ~Installed(i)

(* A buffer that differs from the disk is locked by its writer or pinned    *)
(* until its block is installed.                                            *)
CacheInv ==
  /\ mode \notin {"up", "panic"} =>
       \A b \in Blocks : pins[b] = 0 /\ cache[b] \in {NotCached, disk[b]}
  /\ mode \in {"up", "panic"} =>
       \A b \in Blocks :
         /\ pins[b] = IF Pending(b) THEN 1 ELSE 0
         /\ Pending(b) \/ (\E p \in Ops : buf[p] = b) => cache[b] # NotCached
         /\ \/ cache[b] \in {NotCached, disk[b]}
            \/ Pending(b)
            \/ \E p \in Ops : buf[p] = b

(* The header on disk is empty except between the two write_head() of a     *)
(* commit, and what the log area holds in each phase.                       *)
DiskInv ==
  /\ mode \in {"recover", "erase"} => dhead = lh
  /\ mode = "read_head" => lh = <<>>
  /\ mode = "recover" => \A i \in 1..(tail - 1) : disk[lh[i]] = dlog[i]
  /\ mode = "erase" => \A i \in 1..Len(lh) : disk[lh[i]] = dlog[i]
  /\ mode \in {"up", "panic"} /\ (\A p \in Ops : pc[p] \notin {"install_trans", "erase"})
       => dhead = <<>>
  /\ \A p \in Ops :
       /\ pc[p] = "write_log" => \A i \in 1..(tail - 1) : dlog[i] = cache[lh[i]]
       /\ pc[p] = "write_head" => \A i \in 1..Len(lh) : dlog[i] = cache[lh[i]]
       /\ pc[p] \in {"install_trans", "erase"} =>
            /\ dhead = lh
            /\ \A i \in 1..Len(lh) :
                 dlog[i] = IF Installed(i) THEN disk[lh[i]] ELSE cache[lh[i]]
       /\ pc[p] = "committed" => lh = <<>>

(* The inductive invariant of the log: with it, each step of the program is *)
(* a step of AtomicDisk or changes nothing there.                           *)
LogInv == OpInv /\ HeadInv /\ CacheInv /\ DiskInv
=============================================================================
