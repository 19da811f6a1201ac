------------------------------- MODULE BlockIo -------------------------------
(***************************************************************************)
(* Block input and output: the buffer cache of bio.c, the sleep locks of   *)
(* sleeplock.c that guard its buffers, and the virtio disk driver of       *)
(* virtio_disk.c, down to its descriptors and its two rings.               *)
(*                                                                         *)
(* A process reads a block (bread), perhaps changes it, and releases it    *)
(* (brelse).  A change is written at once (bwrite) or handed to the log,   *)
(* which pins the buffer (bpin in log_write) until it has installed the    *)
(* block (bwrite and bunpin in install_trans).  A section under a spin     *)
(* lock is one step; the device works beside the driver.                   *)
(*                                                                         *)
(* Of what a copy of a block holds, in a buffer or on the disk, the model  *)
(* keeps one thing: whether it is what was last written to that block.     *)
(***************************************************************************)
EXTENDS Integers, FiniteSets, Sequences, Functions

CONSTANTS Procs,
          Blocks, NoBlock,
          Bufs, NoBuf,  \* the NBUF buffers of the cache
          MaxPins,   \* bound: blocks the log has pinned
          NUMs,      \* numbers of descriptors, and of entries of each ring
          Laps       \* 2^16 / NUM of the code: the ring counters wrap at NUM * Laps

ASSUME BlockIoAssumption ==
  /\ \A n \in NUMs : n \in Nat /\ n >= 3
  /\ MaxPins \in Nat /\ Laps \in Nat \ {0}
  /\ NoBlock \notin Blocks /\ NoBuf \notin Bufs
  /\ IsFiniteSet(Procs) /\ IsFiniteSet(Bufs)
  /\ Cardinality(Bufs) >= MaxPins + Cardinality(Procs)

VARIABLES NUM,       \* a constant of the machine, chosen at the start
          lru,       \* the buffers, most recently used first
          blockno, valid, refcnt, locked, disk, \* fields of struct buf
          pc, buf, write, head,  \* of a process: where it is, its b, write, idx[0]
          free,      \* disk.free: the free descriptors
          chain,     \* the descriptors linked from a head by desc[].next
          info,      \* disk.info[].b
          avail, avail_idx,  \* the ring of heads the driver offers
          used, used_head,   \* the ring of heads the device has finished
          used_idx,  \* how far the driver has looked in used
          dev_idx, inflight, irq, \* of the device
          intr,      \* virtio_disk_intr is running and holds vdisk_lock
          current,   \* buffer b holds what was last written to its block
          platter,   \* so does the disk, for block k
          pinned,    \* blocks in the log, each pinned once
          panicked

bufvars == <<lru, blockno, valid, refcnt, current, locked>>
dskvars == <<NUM, free, chain, info, avail, avail_idx, used, used_head, used_idx,
             dev_idx, inflight, irq, intr, disk>>
devvars == <<dskvars, platter>>
vars == <<bufvars, devvars, pc, buf, write, head, pinned, panicked>>

Desc == 0..NUM - 1
IDXMOD == NUM * Laps
NoDesc == -1

virtio_disk_init ==
  /\ free = Desc /\ chain = [i \in Desc |-> <<>>] /\ info = [i \in Desc |-> NoBuf]
  /\ avail = [i \in Desc |-> NoDesc] /\ used = [i \in Desc |-> NoDesc]
  /\ avail_idx = 0 /\ used_head = 0 /\ used_idx = 0 /\ dev_idx = 0
  /\ inflight = {} /\ irq = FALSE /\ intr = FALSE

Init ==
  /\ NUM \in NUMs /\ virtio_disk_init
  /\ lru \in Bijection(1..Cardinality(Bufs), Bufs)      \* binit links them in one order
  /\ blockno = [b \in Bufs |-> NoBlock] /\ valid = [b \in Bufs |-> FALSE]
  /\ refcnt = [b \in Bufs |-> 0] /\ locked = [b \in Bufs |-> FALSE]
  /\ current = [b \in Bufs |-> FALSE] /\ disk = [b \in Bufs |-> FALSE]
  /\ pc = [p \in Procs |-> "idle"] /\ buf = [p \in Procs |-> NoBuf]
  /\ write = [p \in Procs |-> FALSE] /\ head = [p \in Procs |-> NoDesc]
  /\ platter = [k \in Blocks |-> TRUE]
  /\ pinned = {} /\ panicked = FALSE

Go(p, at) == pc' = [pc EXCEPT ![p] = at]
(* wakeup: everyone asleep at from runs again, and looks again. *)
Wake(at, sleeping, running) == [q \in Procs |-> IF sleeping[q] THEN running ELSE at[q]]
---------------------------------------------------------------------------
(* bget under bcache.lock: the buffer of block k, or the least recently    *)
(* used one that nobody refers to.                                         *)
Cached(k) == {b \in Bufs : blockno[b] = k}
(* Mutant: a buffer that is only not locked is taken for another block. *)
Unused_Unlocked == {i \in DOMAIN lru : ~locked[lru[i]]}

Unused == {i \in DOMAIN lru : refcnt[lru[i]] = 0}

bget(p, k) ==
  /\ pc[p] = "idle"
  /\ \/ \E b \in Cached(k) :
          /\ refcnt' = [refcnt EXCEPT ![b] = @ + 1]
          /\ buf' = [buf EXCEPT ![p] = b]
          /\ Go(p, "lock")
          /\ UNCHANGED <<blockno, valid, current, panicked>>
     \/ /\ Cached(k) = {} /\ Unused # {}
        /\ LET b == lru[CHOOSE i \in Unused : \A j \in Unused : j <= i]
           IN /\ blockno' = [blockno EXCEPT ![b] = k] /\ valid' = [valid EXCEPT ![b] = FALSE]
              /\ refcnt' = [refcnt EXCEPT ![b] = 1] /\ current' = [current EXCEPT ![b] = FALSE]
              /\ buf' = [buf EXCEPT ![p] = b]
        /\ Go(p, "lock")
        /\ UNCHANGED panicked
     \/ /\ Cached(k) = {} /\ Unused = {}
        /\ panicked' = TRUE
        /\ UNCHANGED <<blockno, valid, refcnt, current, buf, pc>>
  /\ UNCHANGED <<lru, locked, devvars, write, head, pinned>>

(* What bread does with the locked buffer: an invalid one is read. *)
bread(b) == IF valid[b] THEN "have" ELSE "rw"

acquiresleep(p) ==
  LET b == buf[p]
  IN /\ pc[p] = "lock"
     /\ IF locked[b] THEN Go(p, "asleep on lock") /\ UNCHANGED locked
        ELSE /\ locked' = [locked EXCEPT ![b] = TRUE]
             /\ Go(p, bread(b))
     /\ write' = [write EXCEPT ![p] = FALSE]
     /\ UNCHANGED <<lru, blockno, valid, refcnt, current, devvars, buf, head, pinned, panicked>>

(* A process changes the block in its buffer b: every other copy is old.   *)
Change(b) ==
  /\ current' = [x \in Bufs |-> IF blockno[x] = blockno[b] THEN x = b ELSE current[x]]
  /\ platter' = [platter EXCEPT ![blockno[b]] = FALSE]

(* The caller of bread changes the block and calls bwrite. *)
bwrite(p) ==
  /\ pc[p] = "have"
  /\ Change(buf[p])
  /\ write' = [write EXCEPT ![p] = TRUE] /\ Go(p, "rw")
  /\ UNCHANGED <<lru, blockno, valid, refcnt, locked, dskvars, buf, head, pinned, panicked>>

(* Mutant: the log does not pin. *)
bpin_None(p) ==
  /\ pc[p] = "have" /\ Cardinality(pinned) < MaxPins
  /\ Change(buf[p])
  /\ Go(p, "release")
  /\ UNCHANGED <<lru, blockno, valid, refcnt, locked, dskvars, buf, write, head, pinned, panicked>>

(* The caller changes the block and log_write pins its buffer. *)
bpin(p) ==
  LET b == buf[p]
      new == blockno[b] \notin pinned
  IN /\ pc[p] = "have" /\ (new => Cardinality(pinned) < MaxPins)
     /\ Change(b)
     /\ pinned' = pinned \cup {blockno[b]}
     /\ refcnt' = [refcnt EXCEPT ![b] = IF new THEN @ + 1 ELSE @]
     /\ Go(p, "release")
     /\ UNCHANGED <<lru, blockno, valid, locked, dskvars, buf, write, head, panicked>>

(* install_trans has written a pinned block home. *)
install(p) ==
  /\ pc[p] = "have" /\ blockno[buf[p]] \in pinned
  /\ write' = [write EXCEPT ![p] = TRUE] /\ Go(p, "rw")
  /\ UNCHANGED <<bufvars, devvars, buf, head, pinned, panicked>>

bunpin(p) ==
  LET b == buf[p]
  IN /\ pc[p] = "written" /\ blockno[b] \in pinned
     /\ pinned' = pinned \ {blockno[b]} /\ refcnt' = [refcnt EXCEPT ![b] = @ - 1]
     /\ Go(p, "release")
     /\ UNCHANGED <<lru, blockno, valid, current, locked, devvars, buf, write, head, panicked>>

(* brelse, first half: releasesleep wakes those who wait for the buffer. *)
releasesleep(p) ==
  LET b == buf[p]
  IN /\ pc[p] \in {"have", "written", "release"}
     /\ locked' = [locked EXCEPT ![b] = FALSE]
     /\ pc' = [Wake(pc, [q \in Procs |-> pc[q] = "asleep on lock" /\ buf[q] = b], "lock")
                 EXCEPT ![p] = "unref"]
     /\ UNCHANGED <<lru, blockno, valid, refcnt, current, devvars, buf, write, head, pinned, panicked>>

(* brelse, second half, under bcache.lock. *)
MoveToFront(b) ==
  LET i == CHOOSE i \in DOMAIN lru : lru[i] = b
  IN <<b>> \o (SubSeq(lru, 1, i - 1) \o SubSeq(lru, i + 1, Len(lru)))

brelse(p) ==
  LET b == buf[p]
  IN /\ pc[p] = "unref"
     /\ refcnt' = [refcnt EXCEPT ![b] = @ - 1]
     /\ lru' = IF refcnt[b] = 1 THEN MoveToFront(b) ELSE lru
     /\ buf' = [buf EXCEPT ![p] = NoBuf] /\ Go(p, "idle")
     /\ UNCHANGED <<blockno, valid, current, locked, devvars, write, head, pinned, panicked>>
---------------------------------------------------------------------------
(* alloc3_desc takes the three lowest free descriptors.  When it gets one  *)
(* or two it gives them back, and free_desc wakes the others who wait.     *)
Lowest3 == [i \in 1..3 |-> CHOOSE d \in free : Cardinality({e \in free : e < d}) = i - 1]
AsleepOnFree(at) == [q \in Procs |-> at[q] = "asleep on free"]

alloc3_desc_fails(p) ==
  /\ pc[p] = "rw" /\ ~intr /\ Cardinality(free) < 3
  /\ pc' = [IF free = {} THEN pc ELSE Wake(pc, AsleepOnFree(pc), "rw")
              EXCEPT ![p] = "asleep on free"]
  /\ UNCHANGED <<bufvars, devvars, buf, write, head, pinned, panicked>>

(* virtio_disk_rw up to its first sleep on b. *)
virtio_disk_rw(p) ==
  /\ pc[p] = "rw" /\ ~intr /\ Cardinality(free) >= 3
  /\ LET idx == Lowest3
     IN /\ free' = free \ Range(idx)
        /\ chain' = [chain EXCEPT ![idx[1]] = idx]
        /\ info' = [info EXCEPT ![idx[1]] = buf[p]]
        /\ avail' = [avail EXCEPT ![avail_idx % NUM] = idx[1]]
        /\ head' = [head EXCEPT ![p] = idx[1]]
  /\ avail_idx' = (avail_idx + 1) % IDXMOD
  /\ disk' = [disk EXCEPT ![buf[p]] = TRUE]
  /\ Go(p, "asleep on buf")
  /\ UNCHANGED <<bufvars, NUM, used, used_head, used_idx, dev_idx, inflight, irq, intr, platter>>
  /\ UNCHANGED <<buf, write, pinned, panicked>>

(* The rest of it, once b->disk is clear: free_chain frees the descriptors *)
(* and wakes those who wait for some.  bread then marks the buffer valid.  *)
free_chain(p) ==
  LET b == buf[p]
      freed == Range(chain[head[p]])
  IN /\ pc[p] = "io done" /\ ~intr
     /\ panicked' = (panicked \/ freed \cap free # {})
     /\ free' = free \cup freed
     /\ chain' = [chain EXCEPT ![head[p]] = <<>>] /\ info' = [info EXCEPT ![head[p]] = NoBuf]
     /\ head' = [head EXCEPT ![p] = NoDesc]
     /\ valid' = [valid EXCEPT ![b] = @ \/ ~write[p]]
     /\ pc' = [Wake(pc, AsleepOnFree(pc), "rw")
                 EXCEPT ![p] = IF write[p] THEN "written" ELSE "have"]
     /\ UNCHANGED <<NUM, lru, blockno, refcnt, current, locked, avail, avail_idx, used, used_head, used_idx>>
     /\ UNCHANGED <<dev_idx, inflight, irq, intr, platter, disk, buf, write, pinned>>

(* The device (external): it fetches the heads the driver offers in order, *)
(* and finishes them in any order, each with its transfer between the disk *)
(* and the buffer, an entry of the used ring and an interrupt.             *)
DeviceFetch ==
  /\ dev_idx # avail_idx
  /\ inflight' = inflight \cup {avail[dev_idx % NUM]}
  /\ avail' = [avail EXCEPT ![dev_idx % NUM] = NoDesc]
  /\ dev_idx' = (dev_idx + 1) % IDXMOD
  /\ UNCHANGED <<bufvars, NUM, free, chain, info, avail_idx, used, used_head, used_idx, irq, intr>>
  /\ UNCHANGED <<platter, disk, pc, buf, write, head, pinned, panicked>>

DeviceFinish(h) ==
  LET b == info[h]
      writes == \E p \in Procs : head[p] = h /\ write[p]
  IN /\ inflight' = inflight \ {h}
     /\ IF writes
        THEN platter' = [platter EXCEPT ![blockno[b]] = current[b]] /\ UNCHANGED current
        ELSE current' = [current EXCEPT ![b] = platter[blockno[b]]] /\ UNCHANGED platter
     /\ used' = [used EXCEPT ![used_head % NUM] = h]
     /\ used_head' = (used_head + 1) % IDXMOD
     /\ irq' = TRUE
     /\ UNCHANGED <<NUM, lru, blockno, valid, refcnt, locked, free, chain, info, avail, avail_idx>>
     /\ UNCHANGED <<used_idx, dev_idx, intr, disk, pc, buf, write, head, pinned, panicked>>

(* virtio_disk_intr: acknowledge, then look at the used ring until there   *)
(* is nothing new; the device may add to it meanwhile.                     *)
IntrAck ==
  /\ irq /\ ~intr
  /\ irq' = FALSE /\ intr' = TRUE
  /\ UNCHANGED <<bufvars, NUM, free, chain, info, avail, avail_idx, used, used_head, used_idx>>
  /\ UNCHANGED <<dev_idx, inflight, platter, disk, pc, buf, write, head, pinned, panicked>>

IntrOne ==
  LET b == info[used[used_idx % NUM]]
  IN /\ intr /\ used_idx # used_head
     /\ disk' = [disk EXCEPT ![b] = FALSE]
     /\ pc' = Wake(pc, [q \in Procs |-> pc[q] = "asleep on buf" /\ buf[q] = b], "io done")
     /\ used' = [used EXCEPT ![used_idx % NUM] = NoDesc]
     /\ used_idx' = (used_idx + 1) % IDXMOD
     /\ UNCHANGED <<bufvars, NUM, free, chain, info, avail, avail_idx, used_head, dev_idx, inflight>>
     /\ UNCHANGED <<irq, intr, platter, buf, write, head, pinned, panicked>>

(* Mutant: one look at the used ring, an if for the while. *)
IntrEnd_OneLook ==
  /\ intr
  /\ intr' = FALSE
  /\ UNCHANGED <<bufvars, NUM, free, chain, info, avail, avail_idx, used, used_head, used_idx, irq>>
  /\ UNCHANGED <<dev_idx, inflight, platter, disk, pc, buf, write, head, pinned, panicked>>

IntrEnd ==
  /\ intr /\ used_idx = used_head
  /\ intr' = FALSE
  /\ UNCHANGED <<bufvars, NUM, free, chain, info, avail, avail_idx, used, used_head, used_idx, irq>>
  /\ UNCHANGED <<dev_idx, inflight, platter, disk, pc, buf, write, head, pinned, panicked>>

Step(p) ==
  \/ acquiresleep(p) \/ bunpin(p) \/ releasesleep(p) \/ brelse(p)
  \/ alloc3_desc_fails(p) \/ virtio_disk_rw(p) \/ free_chain(p)

Device == DeviceFetch \/ \E h \in inflight : DeviceFinish(h)
Interrupt == IntrAck \/ IntrOne \/ IntrEnd

Next ==
  \/ \E p \in Procs : \/ Step(p) \/ install(p) \/ bwrite(p) \/ bpin(p)
                      \/ \E k \in Blocks : bget(p, k)
  \/ Device \/ Interrupt

Spec == Init /\ [][Next]_vars

---------------------------------------------------------------------------
(* ReadsLastWrite: whoever bread hands a buffer to sees what was last      *)
(* written to that block, through whichever buffer and whether or not it   *)
(* has reached the disk.                                                   *)
ReadsLastWrite ==
  \A p \in Procs : pc[p] = "have" => current[buf[p]]

(* BuffersAndDescriptors: a block is in one buffer; a buffer's refcnt      *)
(* counts its users and the log's pin; a descriptor that is not free is in *)
(* the chain of one request; and no panic of bget or free_desc is reached. *)
BuffersAndDescriptors ==
  /\ ~panicked
  /\ \A k \in Blocks : Cardinality(Cached(k)) <= 1
  /\ \A b \in Bufs : refcnt[b] = Cardinality({p \in Procs : buf[p] = b})
                                 + (IF blockno[b] \in pinned THEN 1 ELSE 0)
  /\ \A d \in Desc : Cardinality({h \in Desc : d \in Range(chain[h])}) = IF d \in free THEN 0 ELSE 1
  /\ {h \in Desc : chain[h] # <<>>} = {head[p] : p \in Procs} \ {NoDesc}

(* SleepersAreNeeded: nobody sleeps for a lock that is free or for         *)
(* descriptors that are there; and whoever sleeps for a transfer has its   *)
(* request with the device, or finished with an interrupt still to come or *)
(* being served: acknowledging before looking at the used ring loses none. *)
SleepersAreNeeded ==
  \A p \in Procs :
    /\ pc[p] = "asleep on lock" => locked[buf[p]]
    /\ pc[p] = "asleep on free" => Cardinality(free) < 3
    /\ pc[p] = "asleep on buf" =>
         /\ disk[buf[p]]
         /\ \/ head[p] \in {avail[i] : i \in Desc} \cup inflight
            \/ head[p] \in {used[i] : i \in Desc} /\ (irq \/ intr)
---------------------------------------------------------------------------
(* The inductive invariant. *)

(* The processes in virtio_disk_rw, those that wait for their transfer,     *)
(* those whose request has descriptors, and those that have the sleep lock  *)
(* of their buffer.                                                         *)
InIo == {"rw", "asleep on free", "asleep on buf", "io done"}
Waiting == {p \in Procs : pc[p] = "asleep on buf"}
Asking == {p \in Procs : pc[p] \in {"asleep on buf", "io done"}}
HasLock == InIo \cup {"have", "written", "release"}
Labels == HasLock \cup {"idle", "lock", "asleep on lock", "unref"}

(* The users of a buffer, and the log if it has pinned it. *)
Users(b) == Cardinality({p \in Procs : buf[p] = b})
Pins(b) == IF blockno[b] \in pinned THEN 1 ELSE 0

(* The descriptors of the request with head h. *)
Linked(h) == chain[h] \in [1..3 -> Desc \ free] /\ chain[h][1] = h

(* No descriptor is twice in the chains of the processes P. *)
Apart(P, of, links) ==
  \A p, q \in P : \A i, j \in 1..3 : links[of[p]][i] = links[of[q]][j] => p = q /\ i = j

(* Every variable has its type. *)
BufTypes ==
  /\ lru \in Seq(Bufs)
  /\ blockno \in [Bufs -> Blocks \cup {NoBlock}]
  /\ valid \in [Bufs -> BOOLEAN] /\ refcnt \in [Bufs -> Nat] /\ locked \in [Bufs -> BOOLEAN]
  /\ current \in [Bufs -> BOOLEAN] /\ disk \in [Bufs -> BOOLEAN]
  /\ platter \in [Blocks -> BOOLEAN] /\ pinned \subseteq Blocks

ProcTypes ==
  /\ pc \in [Procs -> Labels] /\ buf \in [Procs -> Bufs \cup {NoBuf}]
  /\ write \in [Procs -> BOOLEAN] /\ head \in [Procs -> Desc \cup {NoDesc}]

DiskTypes ==
  /\ NUM \in NUMs
  /\ free \subseteq Desc /\ DOMAIN chain = Desc /\ info \in [Desc -> Bufs \cup {NoBuf}]
  /\ avail \in [Desc -> Desc \cup {NoDesc}] /\ used \in [Desc -> Desc \cup {NoDesc}]
  /\ {avail_idx, dev_idx, used_head, used_idx} \subseteq 0..IDXMOD - 1
  /\ inflight \subseteq Desc /\ irq \in BOOLEAN /\ intr \in BOOLEAN

(* A block has one buffer, and each buffer is on the list.  A buffer that   *)
(* is in use or pinned keeps its block.                                     *)
BufferInv ==
  /\ \A b \in Bufs : \E i \in DOMAIN lru : lru[i] = b
  /\ \A a, b \in Bufs : blockno[a] = blockno[b] /\ blockno[a] # NoBlock => a = b
  /\ \A p \in Procs : buf[p] = NoBuf <=> pc[p] = "idle"
  /\ \A p \in Procs : buf[p] # NoBuf => blockno[buf[p]] # NoBlock
  /\ \A b \in Bufs : refcnt[b] = Users(b) + Pins(b)
  /\ IsFiniteSet(pinned) /\ Cardinality(pinned) <= MaxPins
  /\ \A k \in pinned : \E b \in Bufs : blockno[b] = k /\ valid[b]

(* One process at a time has the sleep lock of a buffer, and whoever waits  *)
(* for it waits for that one.                                               *)
LockInv ==
  /\ \A p \in Procs : pc[p] \in HasLock \cup {"asleep on lock"} => locked[buf[p]]
  /\ \A p, q \in Procs : pc[p] \in HasLock /\ pc[q] \in HasLock /\ buf[p] = buf[q] => p = q

(* A request has three descriptors, linked from its head; all others are    *)
(* free.                                                                    *)
DescInv ==
  /\ \A p \in Procs : head[p] # NoDesc <=> p \in Asking
  /\ \A p \in Asking : Linked(head[p]) /\ info[head[p]] = buf[p]
  /\ \A h \in Desc : chain[h] = <<>> \/ \E p \in Asking : head[p] = h
  /\ Apart(Asking, head, chain)
  /\ \A d \in Desc : d \in free \/ \E p \in Asking, i \in 1..3 : d = chain[head[p]][i]
  /\ \A p \in Procs : pc[p] = "asleep on free" => Cardinality(free) < 3

(* The entries of a ring r between its two counters, and no others, hold a  *)
(* head, each a different one.                                              *)
Filled(r) == {i \in Desc : r[i] # NoDesc}
Ring(r, from, to) ==
  LET n == Cardinality(Filled(r))
  IN /\ to = (from + n) % IDXMOD
     /\ Filled(r) = {(from + k) % NUM : k \in 0..n - 1}
     /\ \A i, j \in Filled(r) : r[i] = r[j] => i = j

Heads(r) == {r[i] : i \in Filled(r)}

(* Whoever sleeps for a transfer has its request in one place: offered,     *)
(* with the device, or finished and not yet looked at, with an interrupt to *)
(* come or being served.                                                    *)
RequestInv ==
  /\ Ring(avail, dev_idx, avail_idx) /\ Ring(used, used_idx, used_head)
  /\ Heads(avail) \cap inflight = {} /\ Heads(avail) \cap Heads(used) = {}
  /\ inflight \cap Heads(used) = {}
  /\ Heads(avail) \cup inflight \cup Heads(used) = {head[p] : p \in Waiting}
  /\ \A p \in Waiting : disk[buf[p]]
  /\ Filled(used) # {} => irq \/ intr

(* A valid buffer is what was last written to its block, and so is the disk *)
(* except while the log has the block pinned or a write is on its way.      *)
Done(p) == pc[p] = "io done" \/ (pc[p] = "asleep on buf" /\ head[p] \in Heads(used))
Writing(p) == write[p] /\ pc[p] \in {"rw", "asleep on free", "asleep on buf"} /\ ~Done(p)

Sees(p) ==
  /\ pc[p] \in {"have", "written", "release"} => valid[buf[p]]
  /\ pc[p] \in InIo => (valid[buf[p]] <=> write[p])
  /\ Done(p) => current[buf[p]]
  /\ (Done(p) /\ write[p]) \/ pc[p] = "written" => platter[blockno[buf[p]]]

DataInv ==
  /\ \A b \in Bufs : valid[b] => current[b]
  /\ \A p \in Procs : Sees(p)
  /\ \A k \in Blocks : platter[k] \/ k \in pinned \/ \E p \in Procs : Writing(p) /\ blockno[buf[p]] = k

IoInv ==
  /\ BufTypes /\ ProcTypes /\ DiskTypes /\ ~panicked
  /\ BufferInv /\ LockInv /\ DescInv /\ RequestInv /\ DataInv
=============================================================================
