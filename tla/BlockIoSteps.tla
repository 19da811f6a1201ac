---------------------------- MODULE BlockIoSteps -----------------------------
(***************************************************************************)
(* The inductive invariant IoInv of the buffer cache and the disk driver   *)
(* is kept by every action of BlockIo.                                     *)
(***************************************************************************)
EXTENDS BlockIo, TLAPS

LEMMA Num ==
  ASSUME DiskTypes
  PROVE  /\ NUM \in Nat \ {0} /\ NUM >= 3 /\ Laps \in Nat \ {0} /\ IDXMOD \in Nat \ {0}
         /\ NoDesc \notin Desc /\ NoDesc = -1
<1>1. NUM \in Nat /\ NUM >= 3 /\ Laps \in Nat \ {0}
  BY BlockIoAssumption, Zenon DEF DiskTypes
<1>2. IDXMOD \in Nat \ {0}
  BY <1>1 DEF IDXMOD
<1>3. NoDesc \notin Desc /\ NoDesc = -1
  BY <1>1 DEF NoDesc, Desc
<1> QED BY <1>1, <1>2, <1>3

-----------------------------------------------------------------------------
(* Facts about finite sets, sequences and rings, which the steps that need   *)
(* them take as hypotheses; BlockIoProofs shows that they hold.              *)

(* A buffer has a number of users, zero when no process has it. *)
UsersAreNat == \A b : Users(b) \in Nat /\ (Users(b) = 0 <=> \A q \in Procs : buf[q] # b)
(* A process went from a to b. *)
UsersMoved(a, b) ==
  /\ Users(a)' = Users(a) - 1 /\ Users(b)' = Users(b) + 1
  /\ \A c : c # a /\ c # b => Users(c)' = Users(c)
(* The list has every buffer. *)
ListsAll == lru \in Seq(Bufs) /\ \A x \in Bufs : \E i \in DOMAIN lru : lru[i] = x
PinsBounded == IsFiniteSet(pinned) /\ Cardinality(pinned) <= MaxPins
(* h is taken from a ring, or put into it. *)
AvailTaken(h) ==
  Ring(avail, dev_idx, avail_idx)' /\ h \in Heads(avail) /\ Heads(avail)' = Heads(avail) \ {h}
AvailPut(h) ==
  /\ Ring(avail, dev_idx, avail_idx)' /\ Heads(avail)' = Heads(avail) \cup {h}
  /\ avail' \in [Desc -> Desc \cup {NoDesc}] /\ avail_idx' \in 0..IDXMOD - 1
  /\ h \notin Heads(avail) /\ h \notin inflight /\ h \notin Heads(used)
UsedTaken(h) ==
  Ring(used, used_idx, used_head)' /\ h \in Heads(used) /\ Heads(used)' = Heads(used) \ {h}
UsedPut(h) == Ring(used, used_idx, used_head)' /\ Heads(used)' = Heads(used) \cup {h}

LEMMA UsersNat ==
  ASSUME UsersAreNat, NEW b
  PROVE  /\ Users(b) \in Nat /\ (Users(b) = 0 <=> \A q \in Procs : buf[q] # b)
         /\ Pins(b) \in {0, 1} /\ (Pins(b) = 1 <=> blockno[b] \in pinned)
<1>1. Users(b) \in Nat /\ (Users(b) = 0 <=> \A q \in Procs : buf[q] # b)
  BY Zenon DEF UsersAreNat
<1>2. Pins(b) \in {0, 1} /\ (Pins(b) = 1 <=> blockno[b] \in pinned)
  BY DEF Pins
<1> QED BY <1>1, <1>2, Zenon

-----------------------------------------------------------------------------
(* What a step leaves alone. *)

SameBufs ==
  lru' = lru /\ blockno' = blockno /\ valid' = valid /\ refcnt' = refcnt /\ locked' = locked
SameProcs == pc' = pc /\ buf' = buf /\ write' = write /\ head' = head

LEMMA SameBufvars ==
  ASSUME UNCHANGED bufvars
  PROVE  SameBufs /\ current' = current
  BY DEF bufvars, SameBufs

SameRings ==
  /\ NUM' = NUM /\ avail' = avail /\ avail_idx' = avail_idx /\ used' = used
  /\ used_head' = used_head /\ used_idx' = used_idx /\ dev_idx' = dev_idx
  /\ inflight' = inflight
SameDescs == free' = free /\ chain' = chain /\ info' = info /\ head' = head

LEMMA SameDskvars ==
  ASSUME UNCHANGED dskvars
  PROVE  /\ SameRings /\ free' = free /\ chain' = chain /\ info' = info
         /\ irq' = irq /\ intr' = intr /\ disk' = disk
  BY DEF dskvars, SameRings

LEMMA SameDevvars ==
  ASSUME UNCHANGED devvars PROVE UNCHANGED dskvars /\ platter' = platter
  BY DEF devvars

LEMMA DiskFrame ==
  ASSUME DiskTypes, SameRings, free' = free, chain' = chain, info' = info, irq' = irq, intr' = intr
  PROVE  DiskTypes'
  BY Zenon DEF DiskTypes, SameRings, Desc, IDXMOD

LEMMA BufferFrame ==
  ASSUME BufferInv, lru' = lru, blockno' = blockno, valid' = valid, refcnt' = refcnt, buf' = buf,
         pinned' = pinned, \A q \in Procs : pc'[q] = "idle" <=> pc[q] = "idle"
  PROVE  BufferInv'
<1>1. \A b \in Bufs : Users(b)' = Users(b) /\ Pins(b)' = Pins(b)
  BY Zenon DEF Users, Pins
<1>2. \A b \in Bufs : refcnt'[b] = Users(b)' + Pins(b)'
  BY <1>1, Zenon DEF BufferInv
<1>3. \A q \in Procs : buf'[q] = NoBuf <=> pc'[q] = "idle"
  BY Zenon DEF BufferInv
<1> QED BY <1>2, <1>3, Zenon DEF BufferInv

LEMMA LockFrame ==
  ASSUME LockInv, locked' = locked,
         \A q \in Procs : pc'[q] \in HasLock => pc[q] \in HasLock /\ buf'[q] = buf[q],
         \A q \in Procs : pc'[q] = "asleep on lock" => pc[q] = "asleep on lock" /\ buf'[q] = buf[q]
  PROVE  LockInv'
  BY ZenonT(40) DEF LockInv, HasLock, InIo

LEMMA DescFrame ==
  ASSUME DescInv, NUM' = NUM, SameDescs, Asking' = Asking,
         \A q \in Asking : buf'[q] = buf[q],
         \A q \in Procs : pc'[q] = "asleep on free" => pc[q] = "asleep on free" \/ Cardinality(free) < 3
  PROVE  DescInv'
<1>1. Desc' = Desc
  BY Zenon DEF Desc
<1>2. \A q \in Asking : Linked(head[q])' /\ info'[head'[q]] = buf'[q]
  BY <1>1, Zenon DEF DescInv, Linked, SameDescs
<1>3. \A p \in Procs : pc'[p] = "asleep on free" => Cardinality(free') < 3
  BY Zenon DEF DescInv, SameDescs
<1>4. head' = head /\ chain' = chain /\ free' = free
  BY Zenon DEF SameDescs
<1>5. /\ \A p \in Procs : head'[p] # NoDesc <=> p \in Asking'
      /\ \A h \in Desc' : chain'[h] = <<>> \/ \E p \in Asking' : head'[p] = h
  BY <1>1, <1>4, Zenon DEF DescInv
<1>6. Apart(Asking', head', chain')
  BY <1>4, Zenon DEF DescInv
<1>7. \A d \in Desc' : d \in free' \/ \E p \in Asking', i \in 1..3 : d = chain'[head'[p]][i]
  <2>1. \A d \in Desc : d \in free \/ \E p \in Asking, i \in 1..3 : d = chain[head[p]][i]
    BY Zenon DEF DescInv
  <2> QED BY <1>1, <1>4, <2>1, ZenonT(40)
<1> QED BY <1>2, <1>3, <1>5, <1>6, <1>7, Zenon DEF DescInv

LEMMA RingFrame ==
  ASSUME NUM' = NUM, avail' = avail, avail_idx' = avail_idx, dev_idx' = dev_idx
  PROVE  /\ Filled(avail)' = Filled(avail) /\ Heads(avail)' = Heads(avail)
         /\ Ring(avail, dev_idx, avail_idx)' <=> Ring(avail, dev_idx, avail_idx)
<1>1. Desc' = Desc /\ IDXMOD' = IDXMOD
  BY Zenon DEF Desc, IDXMOD
<1>2. Filled(avail)' = Filled(avail)
  BY <1>1, Zenon DEF Filled
<1>3. Heads(avail)' = Heads(avail)
  BY <1>2, Zenon DEF Heads
<1> QED BY <1>1, <1>2, <1>3 DEF Ring

LEMMA UsedFrame ==
  ASSUME NUM' = NUM, used' = used, used_head' = used_head, used_idx' = used_idx
  PROVE  /\ Filled(used)' = Filled(used) /\ Heads(used)' = Heads(used)
         /\ Ring(used, used_idx, used_head)' <=> Ring(used, used_idx, used_head)
<1>1. Desc' = Desc /\ IDXMOD' = IDXMOD
  BY Zenon DEF Desc, IDXMOD
<1>2. Filled(used)' = Filled(used)
  BY <1>1, Zenon DEF Filled
<1>3. Heads(used)' = Heads(used)
  BY <1>2, Zenon DEF Heads
<1> QED BY <1>1, <1>2, <1>3 DEF Ring

LEMMA RequestFrame ==
  ASSUME RequestInv, SameRings, \A q \in Waiting : head'[q] = head[q], Waiting' = Waiting,
         \A q \in Waiting : buf'[q] = buf[q] /\ disk'[buf[q]] = disk[buf[q]],
         irq \/ intr => irq' \/ intr'
  PROVE  RequestInv'
<1>1. inflight' = inflight /\ \A p \in Waiting : disk'[buf'[p]]
  BY Zenon DEF RequestInv, SameRings
<1>2. Filled(used)' = Filled(used) /\ Heads(used)' = Heads(used) /\ Heads(avail)' = Heads(avail)
  BY RingFrame, UsedFrame, Zenon DEF SameRings
<1>3. Ring(avail, dev_idx, avail_idx)' /\ Ring(used, used_idx, used_head)'
  BY RingFrame, UsedFrame, Zenon DEF SameRings, RequestInv
<1>4. {head'[q] : q \in Waiting'} = {head[q] : q \in Waiting}
  BY Zenon
<1> QED BY <1>1, <1>2, <1>3, <1>4 DEF RequestInv

(* What a step leaves process q of the data. *)
SameData(q) ==
  /\ pc'[q] \in {"have", "written", "release"} =>
       pc[q] \in {"have", "written", "release"} /\ buf'[q] = buf[q]
  /\ pc'[q] \in InIo => pc[q] \in InIo /\ write'[q] = write[q] /\ buf'[q] = buf[q]
  /\ pc'[q] = "written" => pc[q] = "written"
  /\ Done(q)' => Done(q)
  /\ Writing(q) => Writing(q)' /\ buf'[q] = buf[q]

LEMMA SeesOther ==
  ASSUME NEW q \in Procs, Sees(q), SameData(q),
         pc[q] \in HasLock => /\ valid'[buf[q]] <=> valid[buf[q]]
                              /\ current[buf[q]] => current'[buf[q]]
                              /\ platter[blockno[buf[q]]] => platter'[blockno'[buf[q]]]
  PROVE  Sees(q)'
<1>1. /\ pc[q] \in {"have", "written", "release"} => pc[q] \in HasLock
      /\ pc[q] \in InIo => pc[q] \in HasLock
      /\ pc[q] = "written" => pc[q] \in HasLock /\ pc[q] \in {"have", "written", "release"}
      /\ pc'[q] = "written" => pc'[q] \in {"have", "written", "release"}
      /\ Done(q)' => pc'[q] \in InIo
  BY Zenon DEF HasLock, InIo, Done
<1>2. pc'[q] \in {"have", "written", "release"} => valid'[buf'[q]]
  BY <1>1, Zenon DEF SameData, Sees
<1>3. pc'[q] \in InIo => (valid'[buf'[q]] <=> write'[q])
  BY <1>1, Zenon DEF SameData, Sees
<1>4. ASSUME Done(q)' PROVE current'[buf'[q]] /\ (write'[q] => platter'[blockno'[buf'[q]]])
  <2>1. Done(q) /\ pc[q] \in InIo /\ pc[q] \in HasLock /\ buf'[q] = buf[q] /\ write'[q] = write[q]
    BY <1>1, <1>4, Zenon DEF SameData
  <2> QED BY <2>1, Zenon DEF Sees
<1>5. ASSUME pc'[q] = "written" PROVE platter'[blockno'[buf'[q]]]
  <2>1. pc[q] = "written" /\ buf'[q] = buf[q] /\ pc[q] \in HasLock
    BY <1>1, <1>5, Zenon DEF SameData
  <2> QED BY <2>1, Zenon DEF Sees
<1> QED BY <1>2, <1>3, <1>4, <1>5, Zenon DEF Sees

(* A block is on the disk, in the log, or on its way. *)
LEMMA OnItsWay ==
  ASSUME DataInv, blockno' = blockno, NEW k \in Blocks,
         platter[k] => platter'[k], k \in pinned => k \in pinned',
         \A q \in Procs : Writing(q) => Writing(q)' /\ buf'[q] = buf[q]
  PROVE  platter'[k] \/ k \in pinned' \/ \E q \in Procs : Writing(q)' /\ blockno'[buf'[q]] = k
<1>1. CASE platter[k] \/ k \in pinned
  BY <1>1, Zenon
<1>2. ASSUME NEW q \in Procs, Writing(q), blockno[buf[q]] = k
      PROVE  Writing(q)' /\ blockno'[buf'[q]] = k
  BY <1>2, Zenon
<1> QED BY <1>1, <1>2, Zenon DEF DataInv

LEMMA DataFrame ==
  ASSUME DataInv, valid' = valid, current' = current, blockno' = blockno, platter' = platter,
         pinned' = pinned, \A q \in Procs : SameData(q) \/ Sees(q)',
         \A q \in Procs : Writing(q) => Writing(q)' /\ buf'[q] = buf[q]
  PROVE  DataInv'
<1>1. \A q \in Procs : Sees(q)'
  BY SeesOther, Zenon DEF DataInv
<1>2. \A k \in Blocks :
        platter'[k] \/ k \in pinned' \/ \E q \in Procs : Writing(q)' /\ blockno'[buf'[q]] = k
  BY OnItsWay, Zenon
<1> QED BY <1>1, <1>2, Zenon DEF DataInv

LEMMA AllSame ==
  ASSUME \A q \in Procs : SameData(q)
  PROVE  \A q \in Procs : Writing(q) => Writing(q)' /\ buf'[q] = buf[q]
  BY Zenon DEF SameData

SameProc(q) == pc'[q] = pc[q] /\ buf'[q] = buf[q] /\ write'[q] = write[q] /\ head'[q] = head[q]

LEMMA SameProcData ==
  ASSUME NEW q \in Procs, SameProc(q), Heads(used)' = Heads(used) PROVE SameData(q)
<1>1. (Done(q)' <=> Done(q)) /\ (Writing(q)' <=> Writing(q))
  BY Zenon DEF Done, Writing, SameProc
<1> QED BY <1>1, Zenon DEF SameData, SameProc

(* A process that wakeup woke, of those asleep on a lock or on descriptors. *)
Woken(q) ==
  /\ buf'[q] = buf[q] /\ write'[q] = write[q] /\ head'[q] = head[q]
  /\ \/ pc[q] = "asleep on free" /\ pc'[q] = "rw"
     \/ pc[q] = "asleep on lock" /\ pc'[q] = "lock"

LEMMA WokenData ==
  ASSUME NEW q \in Procs, Woken(q) PROVE SameData(q)
  BY Zenon DEF Woken, SameData, Done, Writing, InIo

(* What the lemmas on the parts of the invariant ask of a process's step.   *)
Steady(q) ==
  /\ pc'[q] = "idle" <=> pc[q] = "idle"
  /\ pc'[q] \in HasLock => pc[q] \in HasLock
  /\ pc'[q] = "asleep on lock" => pc[q] = "asleep on lock"
  /\ q \in Asking' <=> q \in Asking
  /\ q \in Waiting' <=> q \in Waiting
  /\ pc'[q] = "asleep on free" => pc[q] = "asleep on free"

LEMMA SteadyOther ==
  ASSUME NEW q \in Procs, SameProc(q) \/ Woken(q) PROVE Steady(q)
<1>1. CASE SameProc(q)
  BY <1>1, Zenon DEF SameProc, Steady, Asking, Waiting
<1>2. CASE Woken(q)
  BY <1>2, Zenon DEF Woken, Steady, Asking, Waiting, HasLock, InIo
<1> QED BY <1>1, <1>2

LEMMA SameSets ==
  ASSUME \A q \in Procs : (q \in Asking' <=> q \in Asking) /\ (q \in Waiting' <=> q \in Waiting)
  PROVE  Asking' = Asking /\ Waiting' = Waiting
  BY Zenon DEF Asking, Waiting

-----------------------------------------------------------------------------
(* The device and its interrupt: steps that leave the buffers' fields and   *)
(* the processes alone.                                                     *)
LEMMA QuietStep ==
  ASSUME IoInv, SameBufs, SameProcs, SameDescs, NUM' = NUM, pinned' = pinned, panicked' = panicked
  PROVE  /\ ProcTypes' /\ ~panicked' /\ BufferInv' /\ LockInv' /\ DescInv'
         /\ Waiting' = Waiting /\ Asking' = Asking /\ \A q \in Procs : SameProc(q)
<1>0. /\ pc' = pc /\ buf' = buf /\ lru' = lru /\ blockno' = blockno /\ valid' = valid
      /\ refcnt' = refcnt /\ locked' = locked /\ Desc' = Desc
  BY Zenon DEF SameProcs, SameBufs, Desc
<1>1. Waiting' = Waiting /\ Asking' = Asking
  BY Zenon DEF Waiting, Asking, SameProcs
<1>2. ProcTypes' /\ ~panicked'
  BY <1>0, Zenon DEF IoInv, ProcTypes, SameProcs
<1>3. BufferInv'
  BY <1>0, BufferFrame, Zenon DEF IoInv
<1>4. LockInv'
  BY <1>0, LockFrame, Zenon DEF IoInv
<1>5. DescInv'
  BY <1>0, <1>1, DescFrame, Zenon DEF IoInv
<1> QED BY <1>1, <1>2, <1>3, <1>4, <1>5, Zenon DEF SameProcs, SameProc

LEMMA BufTypesFrame ==
  ASSUME BufTypes, SameBufs, current' = current, disk' = disk, platter' = platter, pinned' = pinned
  PROVE  BufTypes'
  BY Zenon DEF BufTypes, SameBufs

LEMMA IntrAck_Inv ==
  ASSUME IoInv, IntrAck PROVE IoInv'
<1>1. /\ SameBufs /\ current' = current /\ SameProcs /\ SameRings /\ SameDescs
      /\ disk' = disk /\ platter' = platter /\ pinned' = pinned /\ panicked' = panicked
      /\ irq' = FALSE /\ intr' = TRUE
  BY SameBufvars DEF IntrAck, SameProcs, SameRings, SameDescs
<1>2. NUM' = NUM
  BY <1>1, Zenon DEF SameRings
<1>3. /\ ProcTypes' /\ ~panicked' /\ BufferInv' /\ LockInv' /\ DescInv'
      /\ Waiting' = Waiting /\ \A q \in Procs : SameProc(q)
  BY <1>1, <1>2, QuietStep, Zenon
<1>4. BufTypes'
  BY <1>1, BufTypesFrame, Zenon DEF IoInv
<1>5. DiskTypes'
  BY <1>1, Zenon DEF IoInv, DiskTypes, SameRings, SameDescs, Desc, IDXMOD
<1>6. RequestInv'
  BY <1>1, <1>3, RequestFrame, Zenon DEF IoInv, SameProc, SameProcs
<1>7. DataInv'
  <2>1. Heads(used)' = Heads(used)
    BY <1>1, UsedFrame, Zenon DEF SameRings
  <2>2. \A q \in Procs : SameData(q)
    BY <1>3, <2>1, SameProcData, Zenon
  <2> QED BY <1>1, <2>2, AllSame, DataFrame, Zenon DEF IoInv, SameBufs
<1> QED BY <1>3, <1>4, <1>5, <1>6, <1>7, Zenon DEF IoInv

LEMMA IntrEnd_Step ==
  ASSUME IoInv, IntrEnd, Filled(used) = {} PROVE IoInv'
<1>1. /\ SameBufs /\ current' = current /\ SameProcs /\ SameRings /\ SameDescs
      /\ disk' = disk /\ platter' = platter /\ pinned' = pinned /\ panicked' = panicked
      /\ irq' = irq /\ intr' = FALSE /\ used_idx = used_head
  BY SameBufvars DEF IntrEnd, SameProcs, SameRings, SameDescs
<1>2. NUM' = NUM
  BY <1>1, Zenon DEF SameRings
<1>3. /\ ProcTypes' /\ ~panicked' /\ BufferInv' /\ LockInv' /\ DescInv'
      /\ Waiting' = Waiting /\ \A q \in Procs : SameProc(q)
  BY <1>1, <1>2, QuietStep, Zenon
<1>4. BufTypes'
  BY <1>1, BufTypesFrame, Zenon DEF IoInv
<1>5. DiskTypes'
  BY <1>1, Zenon DEF IoInv, DiskTypes, SameRings, SameDescs, Desc, IDXMOD
<1>7. RequestInv'
  <2>1. /\ Filled(used)' = Filled(used) /\ Heads(used)' = Heads(used) /\ Heads(avail)' = Heads(avail)
        /\ Ring(avail, dev_idx, avail_idx)' /\ Ring(used, used_idx, used_head)'
    BY <1>1, RingFrame, UsedFrame, Zenon DEF SameRings, IoInv, RequestInv
  <2>2. /\ inflight' = inflight /\ head' = head /\ \A p \in Waiting : disk'[buf'[p]]
    BY <1>1, Zenon DEF SameRings, SameProcs, IoInv, RequestInv
  <2> QED BY <1>3, <2>1, <2>2 DEF IoInv, RequestInv
<1>8. DataInv'
  <2>1. Heads(used)' = Heads(used)
    BY <1>1, UsedFrame, Zenon DEF SameRings
  <2>2. \A q \in Procs : SameData(q)
    BY <1>3, <2>1, SameProcData, Zenon
  <2> QED BY <1>1, <2>2, AllSame, DataFrame, Zenon DEF IoInv, SameBufs
<1> QED BY <1>3, <1>4, <1>5, <1>7, <1>8, Zenon DEF IoInv

LEMMA Counters ==
  ASSUME DiskTypes
  PROVE  /\ avail_idx \in 0..(NUM * Laps - 1) /\ dev_idx \in 0..(NUM * Laps - 1)
         /\ used_head \in 0..(NUM * Laps - 1) /\ used_idx \in 0..(NUM * Laps - 1)
         /\ avail_idx \in Int /\ dev_idx \in Int /\ used_head \in Int /\ used_idx \in Int
         /\ \A x \in Int : x % NUM \in Desc /\ x % IDXMOD \in 0..IDXMOD - 1
<1>1. /\ avail_idx \in 0..IDXMOD - 1 /\ dev_idx \in 0..IDXMOD - 1
      /\ used_head \in 0..IDXMOD - 1 /\ used_idx \in 0..IDXMOD - 1
  BY Zenon DEF DiskTypes
<1>2. IDXMOD = NUM * Laps
  BY Zenon DEF IDXMOD
<1>3. \A x \in 0..IDXMOD - 1 : x \in Int
  OBVIOUS
<1>4. \A x \in Int : x % NUM \in Desc /\ x % IDXMOD \in 0..IDXMOD - 1
  <2>1. \A x \in Int : \A n \in Nat \ {0} : x % n \in 0..(n - 1)
    OBVIOUS
  <2> QED BY <2>1, Num, Zenon DEF Desc
<1> QED BY <1>1, <1>2, <1>3, <1>4, Zenon

LEMMA DeviceFetch_Step ==
  ASSUME IoInv, DeviceFetch, AvailTaken(avail[dev_idx % NUM]) PROVE IoInv'
<1>1. /\ SameBufs /\ current' = current /\ SameProcs /\ SameDescs
      /\ NUM' = NUM /\ avail_idx' = avail_idx /\ used' = used /\ used_head' = used_head
      /\ used_idx' = used_idx /\ irq' = irq /\ intr' = intr
      /\ disk' = disk /\ platter' = platter /\ pinned' = pinned /\ panicked' = panicked
      /\ dev_idx # avail_idx /\ dev_idx' = (dev_idx + 1) % IDXMOD
  BY SameBufvars DEF DeviceFetch, SameProcs, SameDescs
<1>2. PICK h : h = avail[dev_idx % NUM]
  BY Zenon
<1>3. inflight' = inflight \cup {h} /\ avail' = [avail EXCEPT ![dev_idx % NUM] = NoDesc]
  BY <1>2, Zenon DEF DeviceFetch
<1>4. /\ ProcTypes' /\ ~panicked' /\ BufferInv' /\ LockInv' /\ DescInv'
      /\ Waiting' = Waiting /\ \A q \in Procs : SameProc(q)
  BY <1>1, QuietStep, Zenon
<1>5. BufTypes'
  BY <1>1, BufTypesFrame, Zenon DEF IoInv
<1>6. /\ Ring(avail, dev_idx, avail_idx)' /\ h \in Heads(avail)
      /\ Heads(avail)' = Heads(avail) \ {h}
  BY <1>2, Zenon DEF AvailTaken
<1>7. DiskTypes'
  <2>1. Desc' = Desc /\ IDXMOD' = IDXMOD
    BY <1>1, Zenon DEF Desc, IDXMOD
  <2>2. h \in Desc
    <3>1. \A i \in Desc : avail[i] \in Desc \cup {NoDesc}
      BY Zenon DEF IoInv, DiskTypes
    <3> QED BY <1>6, <3>1, Zenon DEF Heads, Filled
  <2>3. avail' \in [Desc -> Desc \cup {NoDesc}]
    BY <1>3, Zenon DEF IoInv, DiskTypes
  <2>4. dev_idx + 1 \in Int
    BY Counters DEF IoInv
  <2>5. dev_idx' \in 0..IDXMOD - 1
    BY <1>1, <2>4, Counters, Zenon DEF IoInv
  <2> QED BY <1>1, <1>3, <2>1, <2>2, <2>3, <2>5, Zenon DEF IoInv, DiskTypes, SameDescs
<1>8. RequestInv'
  <2>1. Ring(avail, dev_idx, avail_idx)'
    BY <1>6, Zenon
  <2>2. /\ Filled(used)' = Filled(used) /\ Heads(used)' = Heads(used) /\ Ring(used, used_idx, used_head)'
    BY <1>1, UsedFrame, Zenon DEF IoInv, RequestInv
  <2>3. /\ head' = head /\ \A p \in Waiting : disk'[buf'[p]]
    BY <1>1, Zenon DEF SameProcs, IoInv, RequestInv
  <2>4. /\ Heads(avail)' \cap inflight' = {} /\ Heads(avail)' \cap Heads(used)' = {}
        /\ inflight' \cap Heads(used)' = {}
        /\ Heads(avail)' \cup inflight' \cup Heads(used)' = Heads(avail) \cup inflight \cup Heads(used)
    BY <1>3, <1>6, <2>2, ZenonT(40) DEF IoInv, RequestInv
  <2>5. Filled(used)' # {} => irq' \/ intr'
    BY <1>1, <2>2, Zenon DEF IoInv, RequestInv
  <2> QED BY <1>4, <2>1, <2>2, <2>3, <2>4, <2>5, ZenonT(40) DEF IoInv, RequestInv
<1>9. DataInv'
  <2>1. Heads(used)' = Heads(used)
    BY <1>1, UsedFrame, Zenon
  <2>2. \A q \in Procs : SameData(q)
    BY <1>4, <2>1, SameProcData, Zenon
  <2> QED BY <1>1, <2>2, AllSame, DataFrame, Zenon DEF IoInv, SameBufs
<1> QED BY <1>4, <1>5, <1>7, <1>8, <1>9, Zenon DEF IoInv

(* A head is the head of one process. *)
LEMMA HeadOwner ==
  ASSUME DescInv, NEW p \in Asking, NEW q \in Procs, head[q] = head[p], ProcTypes
  PROVE  q = p
<1>1. p \in Procs
  BY Zenon DEF Asking
<1>2. q \in Asking
  BY <1>1, Zenon DEF DescInv
<1>3. Apart(Asking, head, chain) /\ chain[head[p]][1] = chain[head[q]][1]
  BY Zenon DEF DescInv
<1>4. \A i, j \in 1..3 : chain[head[p]][i] = chain[head[q]][j] => p = q
  BY <1>2, <1>3, ZenonT(40) DEF Apart
<1>5. PICK i \in 1..3 : i = 1
  OBVIOUS
<1> QED BY <1>3, <1>4, <1>5, Zenon

(* Every request in a ring or with the device is that of a process that     *)
(* waits and has its buffer locked.                                         *)
LEMMA RequestOwner ==
  ASSUME IoInv, NEW h \in Heads(avail) \cup inflight \cup Heads(used)
  PROVE  \E p \in Waiting :
           /\ p \in Procs /\ p \in Asking /\ pc[p] = "asleep on buf" /\ head[p] = h
           /\ h \in Desc /\ info[h] = buf[p] /\ buf[p] \in Bufs /\ blockno[buf[p]] \in Blocks
           /\ \A q \in Procs : head[q] = h => q = p
           /\ \A q \in Procs : pc[q] \in HasLock /\ buf[q] = buf[p] => q = p
<1>1. PICK p \in Waiting : head[p] = h
  BY Zenon DEF IoInv, RequestInv
<1>2. p \in Procs /\ p \in Asking /\ pc[p] = "asleep on buf"
  BY <1>1, Zenon DEF Waiting, Asking
<1>3. head[p] # NoDesc
  BY <1>2, Zenon DEF IoInv, DescInv
<1>4. h \in Desc
  BY <1>1, <1>2, <1>3, Zenon DEF IoInv, ProcTypes
<1>5. info[h] = buf[p]
  BY <1>1, <1>2, Zenon DEF IoInv, DescInv
<1>6. pc[p] # "idle" /\ pc[p] \in HasLock
  BY <1>2, Zenon DEF HasLock, InIo
<1>7. buf[p] # NoBuf /\ blockno[buf[p]] # NoBlock
  BY <1>2, <1>6, Zenon DEF IoInv, BufferInv
<1>8. buf[p] \in Bufs
  BY <1>2, <1>7, Zenon DEF IoInv, ProcTypes
<1>9. blockno[buf[p]] \in Blocks
  BY <1>7, <1>8, Zenon DEF IoInv, BufTypes
<1>10. \A q \in Procs : head[q] = h => q = p
  BY <1>1, <1>2, HeadOwner, Zenon DEF IoInv
<1>11. \A q \in Procs : pc[q] \in HasLock /\ buf[q] = buf[p] => q = p
  BY <1>2, <1>6, Zenon DEF IoInv, LockInv
<1> QED BY <1>1, <1>2, <1>4, <1>5, <1>8, <1>9, <1>10, <1>11, Zenon

(* A process that waits for a read, and none that changes its block, finds  *)
(* on the disk what was last written.                                       *)
LEMMA ReadIsCurrent ==
  ASSUME IoInv, NEW p \in Procs, pc[p] \in InIo, ~write[p], blockno[buf[p]] \in Blocks, buf[p] \in Bufs
  PROVE  ~valid[buf[p]] /\ platter[blockno[buf[p]]]
<1>1. ~valid[buf[p]]
  BY Zenon DEF IoInv, DataInv, Sees
<1>2. blockno[buf[p]] \notin pinned
  <2> SUFFICES ASSUME blockno[buf[p]] \in pinned PROVE FALSE
    BY Zenon
  <2>1. PICK b \in Bufs : blockno[b] = blockno[buf[p]] /\ valid[b]
    BY Zenon DEF IoInv, BufferInv
  <2>2. blockno[b] # NoBlock
    BY <2>1, BlockIoAssumption, Zenon
  <2>3. b = buf[p]
    BY <2>1, <2>2, Zenon DEF IoInv, BufferInv
  <2> QED BY <1>1, <2>1, <2>3, Zenon
<1>3. ASSUME NEW q \in Procs, Writing(q), blockno[buf[q]] = blockno[buf[p]] PROVE FALSE
  <2>1. pc[q] \in HasLock /\ pc[p] \in HasLock /\ write[q]
    BY <1>3, Zenon DEF Writing, HasLock, InIo
  <2>2. pc[q] # "idle"
    BY <1>3, Zenon DEF Writing
  <2>3. buf[q] \in Bufs
    BY <2>2, Zenon DEF IoInv, BufferInv, ProcTypes
  <2>4. blockno[buf[q]] # NoBlock
    BY <1>3, BlockIoAssumption, Zenon
  <2>5. buf[q] = buf[p]
    BY <1>3, <2>3, <2>4, Zenon DEF IoInv, BufferInv
  <2>6. q = p
    BY <2>1, <2>5, Zenon DEF IoInv, LockInv
  <2> QED BY <2>1, <2>6, Zenon
<1> QED BY <1>1, <1>2, <1>3, Zenon DEF IoInv, DataInv

LEMMA DeviceFinish_Step ==
  ASSUME IoInv, NEW h \in inflight, DeviceFinish(h), UsedPut(h) PROVE IoInv'
<1>1. /\ SameBufs /\ SameProcs /\ SameDescs
      /\ NUM' = NUM /\ avail' = avail /\ avail_idx' = avail_idx /\ dev_idx' = dev_idx
      /\ used_idx' = used_idx /\ irq' = TRUE /\ intr' = intr
      /\ disk' = disk /\ pinned' = pinned /\ panicked' = panicked
      /\ inflight' = inflight \ {h} /\ used' = [used EXCEPT ![used_head % NUM] = h]
      /\ used_head' = (used_head + 1) % IDXMOD
  BY DEF DeviceFinish, SameProcs, SameDescs, SameBufs
<1>2. PICK p \in Waiting :
           /\ p \in Procs /\ p \in Asking /\ pc[p] = "asleep on buf" /\ head[p] = h
           /\ h \in Desc /\ info[h] = buf[p] /\ buf[p] \in Bufs /\ blockno[buf[p]] \in Blocks
           /\ \A q \in Procs : head[q] = h => q = p
           /\ \A q \in Procs : pc[q] \in HasLock /\ buf[q] = buf[p] => q = p
  BY RequestOwner, Zenon
<1>3. PICK b \in Bufs : b = buf[p] /\ blockno[b] \in Blocks /\ info[h] = b
  BY <1>2, Zenon
<1>4. /\ write[p] => platter' = [platter EXCEPT ![blockno[b]] = current[b]] /\ current' = current
      /\ ~write[p] => current' = [current EXCEPT ![b] = platter[blockno[b]]] /\ platter' = platter
  BY <1>2, <1>3, Zenon DEF DeviceFinish
<1>5. pc[p] \in InIo /\ h \notin Heads(used)
  BY <1>2, Zenon DEF InIo, IoInv, RequestInv
<1>6. write[p] => valid[b] /\ current[b]
  <2>1. valid[buf[p]] <=> write[p]
    BY <1>2, <1>5, Zenon DEF IoInv, DataInv, Sees
  <2>2. valid[b] => current[b]
    BY Zenon DEF IoInv, DataInv
  <2> QED BY <1>3, <2>1, <2>2, Zenon
<1>7. ~write[p] => ~valid[b] /\ platter[blockno[b]]
  BY <1>2, <1>3, <1>5, ReadIsCurrent, Zenon
<1>8. /\ ProcTypes' /\ ~panicked' /\ BufferInv' /\ LockInv' /\ DescInv'
      /\ Waiting' = Waiting /\ \A q \in Procs : SameProc(q)
  BY <1>1, QuietStep, Zenon
<1>9. /\ \A x \in Bufs : current[x] => current'[x]
      /\ \A k \in Blocks : platter[k] => platter'[k]
      /\ current'[b] /\ (write[p] => platter'[blockno[b]])
  BY <1>3, <1>4, <1>6, <1>7, Zenon DEF IoInv, BufTypes
<1>10. BufTypes'
  <2>1. platter' \in [Blocks -> BOOLEAN] /\ current' \in [Bufs -> BOOLEAN]
    <3>1. CASE write[p]
      BY <1>3, <1>4, <3>1, Zenon DEF IoInv, BufTypes
    <3>2. CASE ~write[p]
      BY <1>3, <1>4, <3>2, Zenon DEF IoInv, BufTypes
    <3> QED BY <3>1, <3>2, Zenon
  <2> QED BY <1>1, <2>1, Zenon DEF IoInv, BufTypes, SameBufs
<1>11. Ring(used, used_idx, used_head)' /\ Heads(used)' = Heads(used) \cup {h}
  BY Zenon DEF UsedPut
<1>12. DiskTypes'
  <2>1. Desc' = Desc /\ IDXMOD' = IDXMOD
    BY <1>1, Zenon DEF Desc, IDXMOD
  <2>2. used' \in [Desc -> Desc \cup {NoDesc}]
    BY <1>1, <1>2, Zenon DEF IoInv, DiskTypes
  <2>3. used_head + 1 \in Int
    BY Counters DEF IoInv
  <2>4. used_head' \in 0..IDXMOD - 1
    BY <1>1, <2>3, Counters, Zenon DEF IoInv
  <2> QED BY <1>1, <2>1, <2>2, <2>4, ZenonT(40) DEF IoInv, DiskTypes, SameDescs
<1>13. RequestInv'
  <2>1. Ring(used, used_idx, used_head)'
    BY <1>11, Zenon
  <2>2. Heads(avail)' = Heads(avail) /\ Ring(avail, dev_idx, avail_idx)'
    BY <1>1, RingFrame, Zenon DEF IoInv, RequestInv
  <2>3. /\ head' = head /\ \A q \in Waiting : disk'[buf'[q]]
    BY <1>1, Zenon DEF SameProcs, IoInv, RequestInv
  <2>4. /\ Heads(avail)' \cap inflight' = {} /\ Heads(avail)' \cap Heads(used)' = {}
        /\ inflight' \cap Heads(used)' = {}
        /\ Heads(avail)' \cup inflight' \cup Heads(used)' = Heads(avail) \cup inflight \cup Heads(used)
    BY <1>1, <1>11, <2>2, ZenonT(40) DEF IoInv, RequestInv
  <2>5. Heads(avail)' \cup inflight' \cup Heads(used)' = {head'[q] : q \in Waiting'}
    BY <1>8, <2>3, <2>4, Zenon DEF IoInv, RequestInv
  <2> QED BY <1>1, <1>8, <2>1, <2>2, <2>3, <2>4, <2>5, Zenon DEF RequestInv
<1>14. DataInv'
  <2>1. \A q \in Procs : Done(q)' <=> Done(q) \/ q = p
    BY <1>2, <1>8, <1>11, Zenon DEF Done, SameProc
  <2>2. /\ valid' = valid /\ blockno' = blockno /\ pinned' = pinned
        /\ pc' = pc /\ buf' = buf /\ write' = write
    BY <1>1, Zenon DEF SameBufs, SameProcs
  <2>3. \A x \in Bufs : valid'[x] => current'[x]
    BY <1>9, <2>2, Zenon DEF IoInv, DataInv
  <2>4. ASSUME NEW q \in Procs
        PROVE  /\ pc'[q] \in {"have", "written", "release"} => valid'[buf'[q]]
               /\ pc'[q] \in InIo => (valid'[buf'[q]] <=> write'[q])
    BY <2>2, Zenon DEF IoInv, DataInv, Sees
  <2>5. ASSUME NEW q \in Procs, Done(q) \/ pc[q] = "written"
        PROVE  buf[q] \in Bufs /\ blockno[buf[q]] \in Blocks
    <3>1. pc[q] # "idle"
      BY <2>5, Zenon DEF Done
    <3>2. buf[q] # NoBuf /\ blockno[buf[q]] # NoBlock
      BY <3>1, Zenon DEF IoInv, BufferInv
    <3>3. buf[q] \in Bufs
      BY <3>2, Zenon DEF IoInv, ProcTypes
    <3> QED BY <3>2, <3>3, Zenon DEF IoInv, BufTypes
  <2>6. ASSUME NEW q \in Procs, Done(q)' PROVE current'[buf'[q]]
    BY <1>3, <1>9, <2>1, <2>2, <2>5, <2>6, Zenon DEF IoInv, DataInv, Sees
  <2>7. ASSUME NEW q \in Procs, (Done(q)' /\ write'[q]) \/ pc'[q] = "written"
        PROVE  platter'[blockno'[buf'[q]]]
    <3>1. CASE q = p
      BY <1>2, <1>3, <1>9, <2>2, <2>7, <3>1, Zenon
    <3>2. CASE q # p
      BY <1>9, <2>1, <2>2, <2>5, <2>7, <3>2, Zenon DEF IoInv, DataInv, Sees
    <3> QED BY <3>1, <3>2, Zenon
  <2>8. ASSUME NEW k \in Blocks
        PROVE  platter'[k] \/ k \in pinned' \/ \E q \in Procs : Writing(q)' /\ blockno'[buf'[q]] = k
    <3>1. CASE platter[k] \/ k \in pinned
      BY <1>9, <2>2, <3>1, Zenon
    <3>2. ASSUME NEW q \in Procs, Writing(q), blockno[buf[q]] = k
          PROVE  platter'[k] \/ (Writing(q)' /\ blockno'[buf'[q]] = k)
      <4>1. CASE q = p
        BY <1>3, <1>9, <3>2, <4>1, Zenon DEF Writing
      <4>2. CASE q # p
        BY <2>1, <2>2, <3>2, <4>2, Zenon DEF Writing
      <4> QED BY <4>1, <4>2, Zenon
    <3> QED BY <3>1, <3>2, Zenon DEF IoInv, DataInv
  <2>9. \A q \in Procs : Sees(q)'
    BY <2>4, <2>6, <2>7, Zenon DEF Sees
  <2> QED BY <2>3, <2>8, <2>9, Zenon DEF DataInv
<1> QED BY <1>8, <1>10, <1>12, <1>13, <1>14, Zenon DEF IoInv

LEMMA IntrOne_Step ==
  ASSUME IoInv, IntrOne, UsedTaken(used[used_idx % NUM]) PROVE IoInv'
<1>1. /\ SameBufs /\ current' = current /\ buf' = buf /\ write' = write /\ SameDescs
      /\ NUM' = NUM /\ avail' = avail /\ avail_idx' = avail_idx /\ dev_idx' = dev_idx
      /\ used_head' = used_head /\ inflight' = inflight /\ irq' = irq /\ intr' = TRUE /\ intr' = intr
      /\ platter' = platter /\ pinned' = pinned /\ panicked' = panicked
      /\ used_idx # used_head /\ used_idx' = (used_idx + 1) % IDXMOD
      /\ used' = [used EXCEPT ![used_idx % NUM] = NoDesc]
  BY SameBufvars, Zenon DEF IntrOne, SameDescs, IoInv, DiskTypes
<1>2. PICK h : h = used[used_idx % NUM]
  BY Zenon
<1>3. /\ Ring(used, used_idx, used_head)' /\ h \in Heads(used)
      /\ Heads(used)' = Heads(used) \ {h}
  BY <1>2, Zenon DEF UsedTaken
<1>4. PICK p \in Waiting :
           /\ p \in Procs /\ p \in Asking /\ pc[p] = "asleep on buf" /\ head[p] = h
           /\ h \in Desc /\ info[h] = buf[p] /\ buf[p] \in Bufs /\ blockno[buf[p]] \in Blocks
           /\ \A q \in Procs : head[q] = h => q = p
           /\ \A q \in Procs : pc[q] \in HasLock /\ buf[q] = buf[p] => q = p
  BY <1>3, RequestOwner, Zenon
<1>5. disk' = [disk EXCEPT ![buf[p]] = FALSE]
  BY <1>2, <1>4, Zenon DEF IntrOne
<1>6. /\ pc' \in [Procs -> Labels] /\ pc'[p] = "io done"
      /\ \A q \in Procs : q # p => pc'[q] = pc[q]
  <2>1. pc' = [q \in Procs |-> IF pc[q] = "asleep on buf" /\ buf[q] = buf[p] THEN "io done" ELSE pc[q]]
    BY <1>2, <1>4, Zenon DEF IntrOne, Wake
  <2>2. \A q \in Procs : pc[q] = "asleep on buf" /\ buf[q] = buf[p] => q = p
    BY <1>4, Zenon DEF HasLock, InIo
  <2>3. "io done" \in Labels /\ pc \in [Procs -> Labels]
    BY Zenon DEF Labels, HasLock, InIo, IoInv, ProcTypes
  <2> QED BY <1>4, <2>1, <2>2, <2>3, Zenon
<1>7. Asking' = Asking /\ Waiting' = Waiting \ {p}
  BY <1>4, <1>6, Zenon DEF Asking, Waiting
<1>8. /\ pc'[p] # "idle" /\ pc[p] # "idle" /\ pc[p] \in HasLock /\ pc'[p] # "asleep on lock"
      /\ pc'[p] # "asleep on free"
  BY <1>4, <1>6, Zenon DEF HasLock, InIo
<1>9. BufTypes'
  BY <1>1, <1>4, <1>5, Zenon DEF IoInv, BufTypes, SameBufs
<1>10. ProcTypes' /\ ~panicked'
  BY <1>1, <1>6, Zenon DEF IoInv, ProcTypes, SameDescs, Desc
<1>11. BufferInv'
  BY <1>1, <1>6, <1>8, BufferFrame, Zenon DEF IoInv, SameBufs
<1>12. LockInv'
  BY <1>1, <1>6, <1>8, LockFrame, Zenon DEF IoInv, SameBufs
<1>13. DescInv'
  BY <1>1, <1>6, <1>7, <1>8, DescFrame, Zenon DEF IoInv
<1>14. DiskTypes'
  <2>1. Desc' = Desc /\ IDXMOD' = IDXMOD
    BY <1>1, Zenon DEF Desc, IDXMOD
  <2>2. used' \in [Desc -> Desc \cup {NoDesc}]
    BY <1>1, Zenon DEF IoInv, DiskTypes
  <2>3. used_idx + 1 \in Int
    BY Counters DEF IoInv
  <2>4. used_idx' \in 0..IDXMOD - 1
    BY <1>1, <2>3, Counters, Zenon DEF IoInv
  <2> QED BY <1>1, <2>1, <2>2, <2>4, Zenon DEF IoInv, DiskTypes, SameDescs
<1>15. RequestInv'
  <2>1. Ring(used, used_idx, used_head)'
    BY <1>3, Zenon
  <2>2. Heads(avail)' = Heads(avail) /\ Ring(avail, dev_idx, avail_idx)'
    BY <1>1, RingFrame, Zenon DEF IoInv, RequestInv
  <2>3. ASSUME NEW q \in Waiting' PROVE disk'[buf'[q]]
    <3>1. q \in Waiting /\ q # p /\ q \in Procs
      BY <1>7, <2>3, Zenon DEF Waiting
    <3>2. pc[q] \in HasLock
      BY <3>1, Zenon DEF Waiting, HasLock, InIo
    <3>3. buf[q] # buf[p] /\ disk[buf[q]] /\ buf'[q] = buf[q]
      BY <1>1, <1>4, <3>1, <3>2, Zenon DEF IoInv, RequestInv
    <3>4. buf[q] \in Bufs
      <4>1. pc[q] # "idle"
        BY <3>1, Zenon DEF Waiting
      <4> QED BY <3>1, <4>1, Zenon DEF IoInv, BufferInv, ProcTypes
    <3>5. disk \in [Bufs -> BOOLEAN]
      BY Zenon DEF IoInv, BufTypes
    <3> QED BY <1>5, <3>3, <3>4, <3>5, Zenon
  <2>4. /\ Heads(avail)' \cap inflight' = {} /\ Heads(avail)' \cap Heads(used)' = {}
        /\ inflight' \cap Heads(used)' = {}
        /\ Heads(avail)' \cup inflight' \cup Heads(used)' = (Heads(avail) \cup inflight \cup Heads(used)) \ {h}
    BY <1>1, <1>3, <2>2, Zenon DEF IoInv, RequestInv
  <2>5. {head'[q] : q \in Waiting'} = {head[q] : q \in Waiting} \ {h}
    <3>1. Waiting \subseteq Procs /\ head' = head
      BY <1>1, Zenon DEF Waiting, SameDescs
    <3> QED BY <1>4, <1>7, <3>1, Zenon
  <2>6. Heads(avail)' \cup inflight' \cup Heads(used)' = {head'[q] : q \in Waiting'}
    BY <2>4, <2>5, Zenon DEF IoInv, RequestInv
  <2> QED BY <1>1, <2>1, <2>2, <2>3, <2>4, <2>6, Zenon DEF RequestInv
<1>16. DataInv'
  <2>1. SameData(p)
    <3>1. Done(p) /\ ~Writing(p)
      BY <1>3, <1>4, Zenon DEF Done, Writing
    <3> QED BY <1>1, <1>4, <1>6, <3>1, Zenon DEF SameData, InIo
  <2>2. ASSUME NEW q \in Procs, q # p PROVE SameData(q)
    <3>1. SameProc(q)
      BY <1>1, <1>6, <2>2, Zenon DEF SameProc, SameDescs
    <3>2. Done(q)' <=> Done(q)
      BY <1>3, <1>4, <2>2, <3>1, Zenon DEF SameProc, Done
    <3>3. Writing(q) => Writing(q)'
      BY <3>1, <3>2, Zenon DEF SameProc, Writing
    <3> QED BY <3>1, <3>2, <3>3, Zenon DEF SameData, SameProc
  <2> QED BY <1>1, <2>1, <2>2, AllSame, DataFrame, Zenon DEF IoInv, SameBufs
<1> QED BY <1>9, <1>10, <1>11, <1>12, <1>13, <1>14, <1>15, <1>16, Zenon DEF IoInv

-----------------------------------------------------------------------------
(* A process's steps. *)

(* One that leaves the disk's descriptors and rings alone. *)
LEMMA ProcStep ==
  ASSUME IoInv, NEW p \in Procs, UNCHANGED dskvars, head' = head,
         \A q \in Procs : q # p => SameProc(q) \/ Woken(q),
         p \notin Asking, p \notin Asking',
         pc'[p] = "asleep on free" => Cardinality(free) < 3
  PROVE  /\ DiskTypes' /\ DescInv' /\ RequestInv' /\ Heads(used)' = Heads(used)
         /\ disk' = disk /\ NUM' = NUM /\ Desc' = Desc
         /\ \A q \in Procs : q # p => SameData(q) /\ Steady(q) /\ buf'[q] = buf[q] /\ head'[q] = head[q]
<1>1. /\ SameRings /\ free' = free /\ chain' = chain /\ info' = info
      /\ irq' = irq /\ intr' = intr /\ disk' = disk
  BY SameDskvars, Zenon
<1>2. NUM' = NUM /\ Desc' = Desc /\ SameDescs
  BY <1>1, Zenon DEF SameRings, SameDescs, Desc
<1>3. Heads(used)' = Heads(used)
  BY <1>1, UsedFrame, Zenon DEF SameRings
<1>4. ASSUME NEW q \in Procs, q # p
      PROVE  SameData(q) /\ Steady(q) /\ buf'[q] = buf[q] /\ head'[q] = head[q]
  <2>1. SameProc(q) \/ Woken(q)
    BY <1>4, Zenon
  <2>2. SameData(q)
    BY <1>3, <2>1, SameProcData, WokenData, Zenon
  <2>3. Steady(q)
    BY <2>1, SteadyOther, Zenon
  <2> QED BY <2>1, <2>2, <2>3, Zenon DEF SameProc, Woken
<1>5. p \notin Waiting /\ p \notin Waiting'
  BY Zenon DEF Waiting, Asking
<1>6. Asking' = Asking /\ Waiting' = Waiting
  <2>1. \A q \in Procs : (q \in Asking' <=> q \in Asking) /\ (q \in Waiting' <=> q \in Waiting)
    BY <1>4, <1>5, Zenon DEF Steady
  <2> QED BY <2>1, SameSets, Zenon
<1>7. DiskTypes'
  BY <1>1, DiskFrame, Zenon DEF IoInv
<1>8. \A q \in Asking : q \in Procs /\ q # p
  BY Zenon DEF Asking
<1>9. DescInv'
  <2>1. \A q \in Procs : pc'[q] = "asleep on free" => pc[q] = "asleep on free" \/ Cardinality(free) < 3
    BY <1>4, Zenon DEF Steady
  <2>2. \A q \in Asking : buf'[q] = buf[q]
    BY <1>4, <1>8, Zenon
  <2> QED BY <1>2, <1>6, <2>1, <2>2, DescFrame, Zenon DEF IoInv
<1>10. RequestInv'
  <2>1. \A q \in Waiting : buf'[q] = buf[q] /\ disk'[buf[q]] = disk[buf[q]]
    BY <1>1, <1>4, <1>5, Zenon DEF Waiting
  <2> QED BY <1>1, <1>6, <2>1, RequestFrame, Zenon DEF IoInv
<1> QED BY <1>1, <1>2, <1>3, <1>4, <1>7, <1>9, <1>10, Zenon

(* The process's own step, and those wakeup wakes.                          *)
LEMMA GoEffect ==
  ASSUME ProcTypes, NEW p \in Procs, NEW at \in Labels, Go(p, at)
  PROVE  /\ pc' \in [Procs -> Labels] /\ pc'[p] = at
         /\ \A q \in Procs : q # p => pc'[q] = pc[q]
  BY Zenon DEF Go, ProcTypes

Wakes(p, at, S, from, to) ==
  /\ pc' = [Wake(pc, S, to) EXCEPT ![p] = at]
  /\ \A q \in Procs : S[q] => pc[q] = from

WokeUp(p, at, S, from, to) ==
  /\ pc' \in [Procs -> Labels] /\ pc'[p] = at
  /\ \A q \in Procs : q # p => pc'[q] = IF S[q] THEN to ELSE pc[q]
  /\ \A q \in Procs : q # p => pc'[q] = pc[q] \/ (pc[q] = from /\ pc'[q] = to)

LEMMA WakeEffect ==
  ASSUME ProcTypes, NEW p \in Procs, NEW at \in Labels, NEW from, NEW to \in Labels, NEW S,
         Wakes(p, at, S, from, to)
  PROVE  WokeUp(p, at, S, from, to)
<1>1. Wake(pc, S, to) = [q \in Procs |-> IF S[q] THEN to ELSE pc[q]]
  BY Zenon DEF Wake
<1>2. /\ pc' \in [Procs -> Labels] /\ pc'[p] = at
      /\ \A q \in Procs : q # p => pc'[q] = IF S[q] THEN to ELSE pc[q]
  BY <1>1, Zenon DEF ProcTypes, Wakes
<1> QED BY <1>2, Zenon DEF WokeUp, Wakes

LEMMA alloc3_desc_fails_Inv ==
  ASSUME IoInv, NEW p \in Procs, alloc3_desc_fails(p) PROVE IoInv'
<1>1. /\ SameBufs /\ current' = current /\ buf' = buf /\ write' = write /\ head' = head
      /\ UNCHANGED dskvars /\ platter' = platter /\ pinned' = pinned /\ panicked' = panicked
      /\ pc[p] = "rw" /\ Cardinality(free) < 3
  BY SameBufvars, SameDevvars, Zenon DEF alloc3_desc_fails
<1>2. /\ pc' \in [Procs -> Labels] /\ pc'[p] = "asleep on free"
      /\ \A q \in Procs : q # p => pc'[q] = pc[q] \/ (pc[q] = "asleep on free" /\ pc'[q] = "rw")
  <2>1. "asleep on free" \in Labels /\ "rw" \in Labels
    BY DEF Labels, HasLock, InIo
  <2>2. CASE free = {}
    <3>1. pc' = [pc EXCEPT ![p] = "asleep on free"]
      BY <2>2, Zenon DEF alloc3_desc_fails
    <3> QED BY <2>1, <3>1, Zenon DEF IoInv, ProcTypes
  <2>3. CASE free # {}
    <3>1. PICK S : S = AsleepOnFree(pc)
      BY Zenon
    <3>2. pc' = [Wake(pc, S, "rw") EXCEPT ![p] = "asleep on free"]
      BY <2>3, <3>1, Zenon DEF alloc3_desc_fails
    <3>3. Wakes(p, "asleep on free", S, "asleep on free", "rw")
      BY <3>1, <3>2, Zenon DEF AsleepOnFree, Wakes
    <3>4. WokeUp(p, "asleep on free", S, "asleep on free", "rw")
      BY <2>1, <3>3, WakeEffect, Zenon DEF IoInv
    <3> QED BY <3>4, Zenon DEF WokeUp
  <2> QED BY <2>2, <2>3, Zenon
<1>3. \A q \in Procs : q # p => SameProc(q) \/ Woken(q)
  BY <1>1, <1>2, Zenon DEF SameProc, Woken
<1>4. p \notin Asking /\ p \notin Asking'
  BY <1>1, <1>2, Zenon DEF Asking
<1>5. /\ DiskTypes' /\ DescInv' /\ RequestInv' /\ Heads(used)' = Heads(used) /\ disk' = disk /\ Desc' = Desc
      /\ \A q \in Procs : q # p => SameData(q) /\ Steady(q)
  BY <1>1, <1>3, <1>4, ProcStep, Zenon
<1>6. BufTypes'
  BY <1>1, <1>5, BufTypesFrame, Zenon DEF IoInv
<1>7. ProcTypes' /\ ~panicked'
  BY <1>1, <1>2, <1>5, Zenon DEF IoInv, ProcTypes
<1>8. BufferInv'
  <2>1. pc[p] # "idle" /\ pc'[p] # "idle"
    BY <1>1, <1>2, Zenon
  <2> QED BY <1>1, <1>5, <2>1, BufferFrame, Zenon DEF IoInv, SameBufs, Steady
<1>9. LockInv'
  <2>1. pc[p] \in HasLock /\ pc'[p] # "asleep on lock"
    BY <1>1, <1>2, Zenon DEF HasLock, InIo
  <2> QED BY <1>1, <1>5, <2>1, LockFrame, Zenon DEF IoInv, SameBufs, Steady
<1>10. DataInv'
  <2>1. SameData(p)
    BY <1>1, <1>2, Zenon DEF SameData, InIo, Done, Writing
  <2> QED BY <1>1, <1>5, <2>1, AllSame, DataFrame, Zenon DEF IoInv, SameBufs
<1> QED BY <1>5, <1>6, <1>7, <1>8, <1>9, <1>10, Zenon DEF IoInv

LEMMA install_Inv ==
  ASSUME IoInv, NEW p \in Procs, install(p) PROVE IoInv'
<1>1. /\ SameBufs /\ current' = current /\ buf' = buf /\ head' = head
      /\ UNCHANGED dskvars /\ platter' = platter /\ pinned' = pinned /\ panicked' = panicked
      /\ pc[p] = "have" /\ write' = [write EXCEPT ![p] = TRUE] /\ Go(p, "rw")
  BY SameBufvars, SameDevvars DEF install
<1>2. pc' \in [Procs -> Labels] /\ pc'[p] = "rw" /\ \A q \in Procs : q # p => pc'[q] = pc[q]
  BY <1>1, GoEffect, Zenon DEF IoInv, Labels, HasLock, InIo
<1>3. \A q \in Procs : q # p => SameProc(q) \/ Woken(q)
  BY <1>1, <1>2, Zenon DEF SameProc, IoInv, ProcTypes
<1>4. p \notin Asking /\ p \notin Asking' /\ pc'[p] # "asleep on free"
  BY <1>1, <1>2, Zenon DEF Asking
<1>5. /\ DiskTypes' /\ DescInv' /\ RequestInv' /\ Heads(used)' = Heads(used) /\ disk' = disk /\ Desc' = Desc
      /\ \A q \in Procs : q # p => SameData(q) /\ Steady(q)
  BY <1>1, <1>3, <1>4, ProcStep, Zenon
<1>6. BufTypes'
  BY <1>1, <1>5, BufTypesFrame, Zenon DEF IoInv
<1>7. ProcTypes' /\ ~panicked'
  BY <1>1, <1>2, <1>5, Zenon DEF IoInv, ProcTypes
<1>8. BufferInv'
  <2>1. pc[p] # "idle" /\ pc'[p] # "idle"
    BY <1>1, <1>2
  <2> QED BY <1>1, <1>5, <2>1, BufferFrame, Zenon DEF IoInv, SameBufs, Steady
<1>9. LockInv'
  <2>1. pc[p] \in HasLock /\ pc'[p] # "asleep on lock"
    BY <1>1, <1>2 DEF HasLock, InIo
  <2> QED BY <1>1, <1>5, <2>1, LockFrame, Zenon DEF IoInv, SameBufs, Steady
<1>10. DataInv'
  <2>1. valid[buf[p]] /\ ~Writing(p)
    BY <1>1, Zenon DEF IoInv, DataInv, Sees, Writing
  <2>2. write'[p] = TRUE
    BY <1>1, Zenon DEF IoInv, ProcTypes
  <2>3. Sees(p)'
    BY <1>1, <1>2, <2>1, <2>2 DEF Sees, Done, SameBufs
  <2>4. \A q \in Procs : Writing(q) => Writing(q)' /\ buf'[q] = buf[q]
    BY <1>5, <2>1, Zenon DEF SameData
  <2> QED BY <1>1, <1>5, <2>3, <2>4, DataFrame, Zenon DEF IoInv, SameBufs
<1> QED BY <1>5, <1>6, <1>7, <1>8, <1>9, <1>10, Zenon DEF IoInv

LEMMA acquiresleep_Inv ==
  ASSUME IoInv, NEW p \in Procs, acquiresleep(p) PROVE IoInv'
<1>1. /\ lru' = lru /\ blockno' = blockno /\ valid' = valid /\ refcnt' = refcnt
      /\ current' = current /\ buf' = buf /\ head' = head
      /\ UNCHANGED dskvars /\ platter' = platter /\ pinned' = pinned /\ panicked' = panicked
      /\ pc[p] = "lock" /\ write' = [write EXCEPT ![p] = FALSE]
  BY SameDevvars, Zenon DEF acquiresleep
<1>2. buf[p] \in Bufs
  BY <1>1 DEF IoInv, BufferInv, ProcTypes
<1>3. PICK at \in Labels :
        /\ Go(p, at)
        /\ \/ locked[buf[p]] /\ at = "asleep on lock" /\ locked' = locked
           \/ /\ ~locked[buf[p]] /\ locked' = [locked EXCEPT ![buf[p]] = TRUE]
              /\ (at = "have" /\ valid[buf[p]]) \/ (at = "rw" /\ ~valid[buf[p]])
  BY Zenon DEF acquiresleep, bread, Labels, HasLock, InIo
<1>4. pc' \in [Procs -> Labels] /\ pc'[p] = at /\ \A q \in Procs : q # p => pc'[q] = pc[q]
  BY <1>3, GoEffect, Zenon DEF IoInv
<1>5. \A q \in Procs : q # p => SameProc(q) \/ Woken(q)
  BY <1>1, <1>4, Zenon DEF SameProc, IoInv, ProcTypes
<1>6. /\ p \notin Asking /\ p \notin Asking' /\ pc'[p] # "asleep on free"
      /\ pc[p] # "idle" /\ pc'[p] # "idle" /\ pc[p] \notin HasLock
  BY <1>1, <1>3, <1>4, Zenon DEF Asking, HasLock, InIo
<1>7. /\ DiskTypes' /\ DescInv' /\ RequestInv' /\ disk' = disk /\ Desc' = Desc
      /\ \A q \in Procs : q # p => SameData(q) /\ Steady(q)
  BY <1>1, <1>5, <1>6, ProcStep, Zenon
<1>8. BufTypes'
  <2>1. locked' \in [Bufs -> BOOLEAN]
    BY <1>2, <1>3, Zenon DEF IoInv, BufTypes
  <2> QED BY <1>1, <1>7, <2>1, Zenon DEF IoInv, BufTypes
<1>9. ProcTypes' /\ ~panicked'
  BY <1>1, <1>4, <1>7, Zenon DEF IoInv, ProcTypes
<1>10. BufferInv'
  BY <1>1, <1>6, <1>7, BufferFrame, Zenon DEF IoInv, Steady
<1>11. LockInv'
  <2>1. \A x \in Bufs : locked[x] => locked'[x]
    BY <1>2, <1>3, Zenon DEF IoInv, BufTypes
  <2>2. locked'[buf[p]]
    BY <1>2, <1>3, Zenon DEF IoInv, BufTypes
  <2>3. ASSUME NEW q \in Procs, pc'[q] \in HasLock \cup {"asleep on lock"} PROVE locked'[buf'[q]]
    <3>1. CASE q = p
      BY <1>1, <2>2, <3>1, Zenon
    <3>2. CASE q # p
      <4>1. pc[q] \in HasLock \cup {"asleep on lock"} /\ buf'[q] = buf[q]
        BY <1>1, <1>4, <2>3, <3>2, Zenon
      <4>2. pc[q] # "idle"
        BY <4>1, Zenon DEF HasLock, InIo
      <4>3. buf[q] \in Bufs /\ locked[buf[q]]
        BY <4>1, <4>2, Zenon DEF IoInv, LockInv, BufferInv, ProcTypes
      <4> QED BY <2>1, <4>1, <4>3, Zenon
    <3> QED BY <3>1, <3>2, Zenon
  <2>4. ASSUME NEW q \in Procs, q # p, pc'[q] \in HasLock, pc'[p] \in HasLock, buf'[q] = buf'[p] PROVE FALSE
    <3>1. at # "asleep on lock"
      BY <1>4, <2>4, Zenon DEF HasLock, InIo
    <3>2. ~locked[buf[p]]
      BY <1>3, <3>1, Zenon
    <3>3. pc[q] \in HasLock /\ buf[q] = buf[p]
      BY <1>1, <1>4, <2>4, Zenon
    <3> QED BY <3>2, <3>3, Zenon DEF IoInv, LockInv
  <2>5. \A q, r \in Procs : pc'[q] \in HasLock /\ pc'[r] \in HasLock /\ buf'[q] = buf'[r] => q = r
    BY <1>1, <1>4, <2>4, Zenon DEF IoInv, LockInv
  <2> QED BY <2>3, <2>5, Zenon DEF LockInv
<1>12. DataInv'
  <2>1. ~Writing(p) /\ write'[p] = FALSE
    BY <1>1 DEF Writing, IoInv, ProcTypes
  <2>2. Sees(p)'
    BY <1>1, <1>3, <1>4, <2>1, Zenon DEF Sees, Done, InIo
  <2>3. \A q \in Procs : Writing(q) => Writing(q)' /\ buf'[q] = buf[q]
    BY <1>7, <2>1, Zenon DEF SameData
  <2> QED BY <1>1, <1>7, <2>2, <2>3, DataFrame, Zenon DEF IoInv
<1> QED BY <1>7, <1>8, <1>9, <1>10, <1>11, <1>12, Zenon DEF IoInv

LEMMA releasesleep_Inv ==
  ASSUME IoInv, NEW p \in Procs, releasesleep(p) PROVE IoInv'
<1>1. /\ lru' = lru /\ blockno' = blockno /\ valid' = valid /\ refcnt' = refcnt
      /\ current' = current /\ buf' = buf /\ head' = head /\ write' = write
      /\ UNCHANGED dskvars /\ platter' = platter /\ pinned' = pinned /\ panicked' = panicked
      /\ pc[p] \in {"have", "written", "release"} /\ locked' = [locked EXCEPT ![buf[p]] = FALSE]
  BY SameDevvars, Zenon DEF releasesleep
<1>2. pc[p] # "idle" /\ pc[p] \in HasLock /\ p \notin Asking /\ ~Writing(p)
  BY <1>1, Zenon DEF HasLock, Asking, Writing
<1>3. buf[p] \in Bufs
  BY <1>2, Zenon DEF IoInv, BufferInv, ProcTypes
<1>4. PICK S : S = [q \in Procs |-> pc[q] = "asleep on lock" /\ buf[q] = buf[p]]
  BY Zenon
<1>5. /\ pc' \in [Procs -> Labels] /\ pc'[p] = "unref"
      /\ \A q \in Procs : q # p => pc'[q] = IF S[q] THEN "lock" ELSE pc[q]
      /\ \A q \in Procs : q # p => pc'[q] = pc[q] \/ (pc[q] = "asleep on lock" /\ pc'[q] = "lock")
  <2>1. pc' = [Wake(pc, S, "lock") EXCEPT ![p] = "unref"]
    BY <1>4, Zenon DEF releasesleep
  <2>2. Wakes(p, "unref", S, "asleep on lock", "lock")
    BY <1>4, <2>1, Zenon DEF Wakes
  <2>3. "unref" \in Labels /\ "lock" \in Labels
    BY DEF Labels
  <2>4. WokeUp(p, "unref", S, "asleep on lock", "lock")
    BY <2>2, <2>3, WakeEffect, Zenon DEF IoInv
  <2> QED BY <2>4, Zenon DEF WokeUp
<1>6. \A q \in Procs : q # p => SameProc(q) \/ Woken(q)
  BY <1>1, <1>5, Zenon DEF SameProc, Woken
<1>7. /\ p \notin Asking' /\ pc'[p] # "asleep on free" /\ pc'[p] # "idle"
      /\ pc'[p] \notin HasLock /\ pc'[p] # "asleep on lock"
  BY <1>5, Zenon DEF Asking, HasLock, InIo
<1>8. /\ DiskTypes' /\ DescInv' /\ RequestInv' /\ disk' = disk /\ Desc' = Desc
      /\ \A q \in Procs : q # p => SameData(q) /\ Steady(q)
  BY <1>1, <1>2, <1>6, <1>7, ProcStep, Zenon
<1>9. BufTypes'
  BY <1>1, <1>3, <1>8, Zenon DEF IoInv, BufTypes
<1>10. ProcTypes' /\ ~panicked'
  BY <1>1, <1>5, <1>8, Zenon DEF IoInv, ProcTypes
<1>11. BufferInv'
  BY <1>1, <1>2, <1>7, <1>8, BufferFrame, Zenon DEF IoInv, Steady
<1>12. LockInv'
  <2>1. ASSUME NEW q \in Procs, pc'[q] \in HasLock \cup {"asleep on lock"}
        PROVE  /\ q # p /\ pc[q] = pc'[q] /\ buf'[q] = buf[q] /\ buf[q] # buf[p] /\ locked'[buf[q]]
    <3>1. q # p
      BY <1>7, <2>1, Zenon
    <3>2. pc[q] = pc'[q] /\ ~S[q]
      BY <1>5, <2>1, <3>1, Zenon DEF HasLock, InIo
    <3>3. buf[q] # buf[p]
      BY <1>2, <1>4, <2>1, <3>1, <3>2, Zenon DEF IoInv, LockInv
    <3>4. pc[q] # "idle"
      BY <2>1, <3>2, Zenon DEF HasLock, InIo
    <3>5. buf[q] \in Bufs /\ locked[buf[q]]
      BY <2>1, <3>2, <3>4, Zenon DEF IoInv, LockInv, BufferInv, ProcTypes
    <3>6. locked'[buf[q]]
      BY <1>1, <3>3, <3>5, Zenon DEF IoInv, BufTypes
    <3> QED BY <1>1, <3>1, <3>2, <3>3, <3>6, Zenon
  <2>2. ASSUME NEW q \in Procs, NEW r \in Procs, pc'[q] \in HasLock, pc'[r] \in HasLock, buf'[q] = buf'[r]
        PROVE  q = r
    <3>1. pc[q] \in HasLock /\ pc[r] \in HasLock /\ buf[q] = buf[r]
      BY <2>1, <2>2, Zenon
    <3> QED BY <3>1, Zenon DEF IoInv, LockInv
  <2> QED BY <2>1, <2>2, Zenon DEF LockInv
<1>13. DataInv'
  <2>1. Sees(p)'
    BY <1>5, Zenon DEF Sees, Done, InIo
  <2>2. \A q \in Procs : Writing(q) => Writing(q)' /\ buf'[q] = buf[q]
    BY <1>2, <1>8, Zenon DEF SameData
  <2> QED BY <1>1, <1>8, <2>1, <2>2, DataFrame, Zenon DEF IoInv
<1> QED BY <1>8, <1>9, <1>10, <1>11, <1>12, <1>13, Zenon DEF IoInv

LEMMA brelse_Step ==
  ASSUME IoInv, NEW p \in Procs, brelse(p), ListsAll', UsersAreNat, UsersMoved(buf[p], NoBuf)
  PROVE  IoInv'
<1>1. /\ blockno' = blockno /\ valid' = valid /\ locked' = locked
      /\ current' = current /\ head' = head /\ write' = write
      /\ UNCHANGED dskvars /\ platter' = platter /\ pinned' = pinned /\ panicked' = panicked
      /\ pc[p] = "unref" /\ refcnt' = [refcnt EXCEPT ![buf[p]] = @ - 1]
      /\ lru' = (IF refcnt[buf[p]] = 1 THEN MoveToFront(buf[p]) ELSE lru)
      /\ buf' = [buf EXCEPT ![p] = NoBuf] /\ Go(p, "idle")
  BY SameDevvars DEF brelse
<1>2. PICK b : b = buf[p]
  BY Zenon
<1>3. pc[p] # "idle" /\ p \notin Asking /\ ~Writing(p) /\ "idle" \in Labels
  BY <1>1, Zenon DEF Asking, Writing, Labels
<1>4. b \in Bufs /\ b # NoBuf
  BY <1>2, <1>3, Zenon DEF IoInv, BufferInv, ProcTypes
<1>5. pc' \in [Procs -> Labels] /\ pc'[p] = "idle" /\ \A q \in Procs : q # p => pc'[q] = pc[q]
  BY <1>1, <1>3, GoEffect, Zenon DEF IoInv
<1>6. buf' \in [Procs -> Bufs \cup {NoBuf}] /\ buf'[p] = NoBuf /\ \A q \in Procs : q # p => buf'[q] = buf[q]
  BY <1>1, Zenon DEF IoInv, ProcTypes
<1>7. \A q \in Procs : q # p => SameProc(q) \/ Woken(q)
  BY <1>1, <1>5, <1>6, Zenon DEF SameProc
<1>8. /\ p \notin Asking' /\ pc'[p] # "asleep on free" /\ pc'[p] \notin HasLock /\ pc'[p] # "asleep on lock"
  BY <1>5 DEF Asking, HasLock, InIo
<1>9. /\ DiskTypes' /\ DescInv' /\ RequestInv' /\ disk' = disk /\ Desc' = Desc
      /\ \A q \in Procs : q # p => SameData(q) /\ Steady(q)
  BY <1>1, <1>3, <1>7, <1>8, ProcStep, Zenon
<1>10. lru' \in Seq(Bufs) /\ \A x \in Bufs : \E i \in DOMAIN lru' : lru'[i] = x
  BY Zenon DEF ListsAll
<1>11. refcnt' \in [Bufs -> Nat] /\ \A x \in Bufs : refcnt'[x] = Users(x)' + Pins(x)'
  <2>1. /\ Users(b)' = Users(b) - 1 /\ \A c : c # b /\ c # NoBuf => Users(c)' = Users(c)
    <3>1. UsersMoved(b, NoBuf)
      BY <1>2, Zenon
    <3> QED BY <3>1, Zenon DEF UsersMoved
  <2>2. \A x : Pins(x)' = Pins(x)
    BY <1>1, Zenon DEF Pins
  <2>3. Users(b) \in Nat /\ Users(b) # 0 /\ Pins(b) \in {0, 1}
    BY <1>2, UsersNat, Zenon
  <2>4. refcnt \in [Bufs -> Nat] /\ \A x \in Bufs : refcnt[x] = Users(x) + Pins(x)
    BY Zenon DEF IoInv, BufTypes, BufferInv
  <2>5. refcnt' = [refcnt EXCEPT ![b] = refcnt[b] - 1]
    BY <1>1, <1>2, Zenon
  <2>6. refcnt[b] - 1 \in Nat /\ refcnt[b] - 1 = Users(b)' + Pins(b)'
    BY <1>4, <2>1, <2>2, <2>3, <2>4
  <2>7. refcnt' \in [Bufs -> Nat]
    BY <2>4, <2>5, <2>6, Zenon
  <2>8. ASSUME NEW x \in Bufs PROVE refcnt'[x] = Users(x)' + Pins(x)'
    <3>1. CASE x = b
      BY <1>4, <2>4, <2>5, <2>6, <3>1, Zenon
    <3>2. CASE x # b
      <4>1. x # NoBuf
        BY BlockIoAssumption, Zenon
      <4>2. refcnt'[x] = refcnt[x] /\ Users(x)' = Users(x) /\ Pins(x)' = Pins(x)
        BY <2>1, <2>2, <2>4, <2>5, <3>2, <4>1, Zenon
      <4> QED BY <2>4, <4>2, Zenon
    <3> QED BY <3>1, <3>2, Zenon
  <2> QED BY <2>7, <2>8, Zenon
<1>12. BufTypes'
  BY <1>1, <1>9, <1>10, <1>11, Zenon DEF IoInv, BufTypes
<1>13. ProcTypes' /\ ~panicked'
  BY <1>1, <1>5, <1>6, <1>9, Zenon DEF IoInv, ProcTypes
<1>14. BufferInv'
  <2>1. \A q \in Procs : buf'[q] = NoBuf <=> pc'[q] = "idle"
    BY <1>5, <1>6, ZenonT(40) DEF IoInv, BufferInv
  <2>2. \A q \in Procs : buf'[q] # NoBuf => blockno'[buf'[q]] # NoBlock
    BY <1>1, <1>6, Zenon DEF IoInv, BufferInv
  <2> QED BY <1>1, <1>10, <1>11, <2>1, <2>2, Zenon DEF IoInv, BufferInv
<1>15. LockInv'
  BY <1>1, <1>6, <1>8, <1>9, LockFrame, Zenon DEF IoInv, Steady
<1>16. DataInv'
  <2>1. Sees(p)'
    BY <1>5 DEF Sees, Done, InIo
  <2>2. \A q \in Procs : Writing(q) => Writing(q)' /\ buf'[q] = buf[q]
    BY <1>3, <1>9, Zenon DEF SameData
  <2> QED BY <1>1, <1>9, <2>1, <2>2, DataFrame, Zenon DEF IoInv
<1> QED BY <1>9, <1>12, <1>13, <1>14, <1>15, <1>16, Zenon DEF IoInv

LEMMA RefcntStep ==
  ASSUME BufTypes, BufferInv, NEW b \in Bufs, NEW n \in Nat, refcnt' = [refcnt EXCEPT ![b] = n],
         n = Users(b)' + Pins(b)',
         \A x \in Bufs : x # b => Users(x)' = Users(x) /\ Pins(x)' = Pins(x)
  PROVE  refcnt' \in [Bufs -> Nat] /\ \A x \in Bufs : refcnt'[x] = Users(x)' + Pins(x)'
<1>1. refcnt \in [Bufs -> Nat] /\ \A x \in Bufs : refcnt[x] = Users(x) + Pins(x)
  BY Zenon DEF BufTypes, BufferInv
<1>2. refcnt' \in [Bufs -> Nat]
  BY <1>1, Zenon
<1>3. refcnt'[b] = n /\ \A x \in Bufs : x # b => refcnt'[x] = refcnt[x]
  BY <1>1, Zenon
<1>4. ASSUME NEW x \in Bufs PROVE refcnt'[x] = Users(x)' + Pins(x)'
  <2>1. CASE x = b
    BY <1>3, <2>1, Zenon
  <2>2. CASE x # b
    BY <1>1, <1>3, <2>2, Zenon
  <2> QED BY <2>1, <2>2, Zenon
<1> QED BY <1>2, <1>4, Zenon

-----------------------------------------------------------------------------
(* The buffer of a process that has its lock, and everybody else's.         *)
LEMMA OwnBuffer ==
  ASSUME IoInv, NEW p \in Procs, pc[p] \in HasLock
  PROVE  /\ buf[p] \in Bufs /\ blockno[buf[p]] \in Blocks /\ blockno[buf[p]] # NoBlock
         /\ \A x \in Bufs : x # buf[p] => blockno[x] # blockno[buf[p]]
         /\ \A q \in Procs : q # p /\ pc[q] \in HasLock =>
              /\ buf[q] \in Bufs /\ buf[q] # buf[p] /\ blockno[buf[q]] \in Blocks
              /\ blockno[buf[q]] # blockno[buf[p]]
<1>1. ASSUME NEW q \in Procs, pc[q] \in HasLock
      PROVE  buf[q] \in Bufs /\ blockno[buf[q]] \in Blocks /\ blockno[buf[q]] # NoBlock
  <2>1. pc[q] # "idle"
    BY <1>1, Zenon DEF HasLock, InIo
  <2>2. buf[q] # NoBuf /\ buf[q] \in Bufs
    BY <2>1, Zenon DEF IoInv, BufferInv, ProcTypes
  <2>3. blockno[buf[q]] # NoBlock /\ blockno[buf[q]] \in Blocks \cup {NoBlock}
    BY <2>2, Zenon DEF IoInv, BufferInv, BufTypes
  <2> QED BY <2>2, <2>3, Zenon
<1>2. \A x \in Bufs : x # buf[p] => blockno[x] # blockno[buf[p]]
  BY <1>1, Zenon DEF IoInv, BufferInv
<1>3. ASSUME NEW q \in Procs, q # p, pc[q] \in HasLock PROVE buf[q] # buf[p]
  BY <1>3, Zenon DEF IoInv, LockInv
<1> QED BY <1>1, <1>2, <1>3, Zenon

(* Change leaves the other buffers and blocks as they are. *)
Changed(b, k) ==
  /\ current' \in [Bufs -> BOOLEAN] /\ platter' \in [Blocks -> BOOLEAN]
  /\ current'[b] /\ \A x \in Bufs : x # b => current'[x] = current[x]
  /\ \A j \in Blocks : j # k => platter'[j] = platter[j]

LEMMA ChangeEffect ==
  ASSUME IoInv, NEW p \in Procs, pc[p] \in HasLock, Change(buf[p])
  PROVE  Changed(buf[p], blockno[buf[p]])
<1>1. PICK b \in Bufs : b = buf[p]
  BY OwnBuffer, Zenon
<1>2. PICK k \in Blocks : k = blockno[b]
  BY <1>1, OwnBuffer, Zenon
<1>3. current' = [x \in Bufs |-> IF blockno[x] = k THEN x = b ELSE current[x]]
  BY <1>1, <1>2, Zenon DEF Change
<1>4. platter' = [platter EXCEPT ![k] = FALSE]
  BY <1>1, <1>2, Zenon DEF Change
<1>5. \A x \in Bufs : x # b => blockno[x] # k
  BY <1>1, <1>2, OwnBuffer, Zenon
<1>6. platter \in [Blocks -> BOOLEAN] /\ current \in [Bufs -> BOOLEAN]
  BY Zenon DEF IoInv, BufTypes
<1>7. platter' \in [Blocks -> BOOLEAN] /\ \A j \in Blocks : j # k => platter'[j] = platter[j]
  BY <1>4, <1>6, Zenon
<1>8. \A x \in Bufs : (IF blockno[x] = k THEN x = b ELSE current[x]) \in BOOLEAN
  BY <1>6, Zenon
<1>9. current' \in [Bufs -> BOOLEAN]
  BY <1>3, <1>8, Zenon
<1>10. current'[b] /\ \A x \in Bufs : x # b => current'[x] = current[x]
  BY <1>2, <1>3, <1>5, Zenon
<1> QED BY <1>1, <1>2, <1>7, <1>9, <1>10, Zenon DEF Changed

LEMMA ChangeData ==
  ASSUME IoInv, NEW p \in Procs, pc[p] = "have", Change(buf[p]),
         blockno' = blockno, valid' = valid, buf' = buf,
         \A q \in Procs : q # p => SameData(q), Sees(p)',
         pinned \subseteq pinned', blockno[buf[p]] \in pinned' \/ Writing(p)'
  PROVE  DataInv'
<1>1. pc[p] \in HasLock /\ ~Writing(p)
  BY Zenon DEF HasLock, Writing
<1>2. PICK b \in Bufs : b = buf[p]
  BY <1>1, OwnBuffer, Zenon
<1>3. PICK k \in Blocks : k = blockno[b]
  BY <1>1, <1>2, OwnBuffer, Zenon
<1>4. Changed(b, k)
  BY <1>1, <1>2, <1>3, ChangeEffect, Zenon
<1>5. \A x \in Bufs : valid'[x] => current'[x]
  BY <1>4, Zenon DEF Changed, IoInv, DataInv
<1>6. ASSUME NEW q \in Procs, q # p PROVE Sees(q)'
  <2>1. ASSUME pc[q] \in HasLock
        PROVE  /\ valid'[buf[q]] <=> valid[buf[q]]
               /\ current[buf[q]] => current'[buf[q]]
               /\ platter[blockno[buf[q]]] => platter'[blockno'[buf[q]]]
    <3>1. buf[q] \in Bufs /\ buf[q] # b /\ blockno[buf[q]] \in Blocks /\ blockno[buf[q]] # k
      BY <1>1, <1>2, <1>3, <1>6, <2>1, OwnBuffer, Zenon
    <3> QED BY <1>4, <3>1, Zenon DEF Changed
  <2> QED BY <1>6, <2>1, SeesOther, Zenon DEF IoInv, DataInv
<1>7. \A q \in Procs : Writing(q) => Writing(q)' /\ buf'[q] = buf[q]
  BY <1>1, Zenon DEF SameData
<1>8. ASSUME NEW j \in Blocks
      PROVE  platter'[j] \/ j \in pinned' \/ \E q \in Procs : Writing(q)' /\ blockno'[buf'[q]] = j
  <2>1. CASE j = k
    BY <1>2, <1>3, <2>1, Zenon
  <2>2. CASE j # k
    <3>1. platter[j] => platter'[j]
      BY <1>4, <2>2, Zenon DEF Changed
    <3>2. j \in pinned => j \in pinned'
      BY Zenon
    <3> QED BY <1>7, <3>1, <3>2, OnItsWay, Zenon DEF IoInv
  <2> QED BY <2>1, <2>2, Zenon
<1> QED BY <1>5, <1>6, <1>8, Zenon DEF DataInv

LEMMA bwrite_Inv ==
  ASSUME IoInv, NEW p \in Procs, bwrite(p) PROVE IoInv'
<1>1. /\ SameBufs /\ Change(buf[p]) /\ buf' = buf /\ head' = head
      /\ UNCHANGED dskvars /\ pinned' = pinned /\ panicked' = panicked
      /\ pc[p] = "have" /\ write' = [write EXCEPT ![p] = TRUE] /\ Go(p, "rw")
  BY DEF bwrite, SameBufs
<1>2. pc[p] \in HasLock /\ p \notin Asking /\ "rw" \in Labels
  BY <1>1, Zenon DEF HasLock, Asking, Labels, InIo
<1>3. pc' \in [Procs -> Labels] /\ pc'[p] = "rw" /\ \A q \in Procs : q # p => pc'[q] = pc[q]
  BY <1>1, <1>2, GoEffect, Zenon DEF IoInv
<1>4. write' \in [Procs -> BOOLEAN] /\ write'[p] /\ \A q \in Procs : q # p => write'[q] = write[q]
  BY <1>1, Zenon DEF IoInv, ProcTypes
<1>5. \A q \in Procs : q # p => SameProc(q) \/ Woken(q)
  BY <1>1, <1>3, <1>4, Zenon DEF SameProc
<1>6. p \notin Asking' /\ pc'[p] # "asleep on free" /\ pc'[p] # "asleep on lock" /\ pc'[p] # "idle" /\ pc[p] # "idle"
  BY <1>1, <1>3 DEF Asking
<1>7. /\ DiskTypes' /\ DescInv' /\ RequestInv' /\ disk' = disk /\ Desc' = Desc
      /\ \A q \in Procs : q # p => SameData(q) /\ Steady(q)
  BY <1>1, <1>2, <1>5, <1>6, ProcStep, Zenon
<1>8. BufTypes'
  <2>1. Changed(buf[p], blockno[buf[p]])
    BY <1>1, <1>2, ChangeEffect, Zenon
  <2> QED BY <1>1, <1>7, <2>1, Zenon DEF IoInv, BufTypes, SameBufs, Changed
<1>9. ProcTypes' /\ ~panicked'
  BY <1>1, <1>3, <1>4, <1>7, Zenon DEF IoInv, ProcTypes
<1>10. BufferInv'
  BY <1>1, <1>6, <1>7, BufferFrame, Zenon DEF IoInv, SameBufs, Steady
<1>11. LockInv'
  BY <1>1, <1>2, <1>6, <1>7, LockFrame, Zenon DEF IoInv, SameBufs, Steady
<1>12. DataInv'
  <2>1. valid[buf[p]]
    BY <1>1 DEF IoInv, DataInv, Sees
  <2>2. Sees(p)' /\ Writing(p)'
    BY <1>1, <1>3, <1>4, <2>1 DEF Sees, Writing, Done, SameBufs, InIo
  <2> QED BY <1>1, <1>7, <2>2, ChangeData, Zenon DEF SameBufs
<1> QED BY <1>7, <1>8, <1>9, <1>10, <1>11, <1>12, Zenon DEF IoInv

(* A step that changes what the log has pinned: the block of b alone. *)
LEMMA PinsOther ==
  ASSUME IoInv, NEW p \in Procs, pc[p] \in HasLock, NEW b, b = buf[p], blockno' = blockno, buf' = buf,
         \A j : j # blockno[b] => (j \in pinned' <=> j \in pinned)
  PROVE  /\ Users(b)' = Users(b)
         /\ \A x \in Bufs : x # b => Users(x)' = Users(x) /\ Pins(x)' = Pins(x)
<1>1. \A x : Users(x)' = Users(x)
  BY Zenon DEF Users
<1>2. ASSUME NEW x \in Bufs, x # b PROVE Pins(x)' = Pins(x)
  <2>1. blockno[x] # blockno[b]
    BY <1>2, OwnBuffer, Zenon
  <2>2. blockno'[x] \in pinned' <=> blockno[x] \in pinned
    BY <2>1, Zenon
  <2> QED BY <2>2, Zenon DEF Pins
<1> QED BY <1>1, <1>2, Zenon

LEMMA bpin_Step ==
  ASSUME IoInv, NEW p \in Procs, bpin(p), UsersAreNat, PinsBounded' PROVE IoInv'
<1>1. /\ lru' = lru /\ blockno' = blockno /\ valid' = valid /\ locked' = locked
      /\ Change(buf[p]) /\ buf' = buf /\ head' = head /\ write' = write
      /\ UNCHANGED dskvars /\ panicked' = panicked /\ pc[p] = "have" /\ Go(p, "release")
      /\ pinned' = pinned \cup {blockno[buf[p]]}
      /\ blockno[buf[p]] \notin pinned => Cardinality(pinned) < MaxPins
      /\ refcnt' = [refcnt EXCEPT ![buf[p]] = IF blockno[buf[p]] \notin pinned THEN @ + 1 ELSE @]
  BY Zenon DEF bpin
<1>2. pc[p] \in HasLock /\ p \notin Asking /\ "release" \in Labels
  BY <1>1, Zenon DEF HasLock, Asking, Labels, InIo
<1>3. pc' \in [Procs -> Labels] /\ pc'[p] = "release" /\ \A q \in Procs : q # p => pc'[q] = pc[q]
  BY <1>1, <1>2, GoEffect, Zenon DEF IoInv
<1>4. PICK b \in Bufs : b = buf[p]
  BY <1>2, OwnBuffer, Zenon
<1>5. PICK k \in Blocks : k = blockno[b]
  BY <1>2, <1>4, OwnBuffer, Zenon
<1>6. \A q \in Procs : q # p => SameProc(q) \/ Woken(q)
  BY <1>1, <1>3, Zenon DEF SameProc
<1>7. p \notin Asking' /\ pc'[p] # "asleep on free" /\ pc'[p] # "asleep on lock" /\ pc'[p] # "idle" /\ pc[p] # "idle"
  BY <1>1, <1>3 DEF Asking
<1>8. /\ DiskTypes' /\ DescInv' /\ RequestInv' /\ disk' = disk /\ Desc' = Desc
      /\ \A q \in Procs : q # p => SameData(q) /\ Steady(q)
  BY <1>1, <1>2, <1>6, <1>7, ProcStep, Zenon
<1>9. valid[b] /\ IsFiniteSet(pinned) /\ Cardinality(pinned) <= MaxPins
      /\ \A j \in pinned : \E x \in Bufs : blockno[x] = j /\ valid[x]
  BY <1>1, <1>4 DEF IoInv, DataInv, Sees, BufferInv
<1>10. refcnt' \in [Bufs -> Nat] /\ \A x \in Bufs : refcnt'[x] = Users(x)' + Pins(x)'
  <2>1. \A j : j # blockno[b] => (j \in pinned' <=> j \in pinned)
    BY <1>1, <1>4, Zenon
  <2>2. /\ Users(b)' = Users(b)
        /\ \A x \in Bufs : x # b => Users(x)' = Users(x) /\ Pins(x)' = Pins(x)
    BY <1>1, <1>2, <1>4, <2>1, PinsOther, Zenon
  <2>3. PICK n : n = IF k \notin pinned THEN refcnt[b] + 1 ELSE refcnt[b]
    BY Zenon
  <2>4. refcnt' = [refcnt EXCEPT ![b] = n]
    BY <1>1, <1>4, <1>5, <2>3, Zenon
  <2>5. refcnt[b] \in Nat /\ refcnt[b] = Users(b) + Pins(b) /\ Users(b) \in Nat
    BY UsersNat, ZenonT(40) DEF IoInv, BufTypes, BufferInv
  <2>6. Pins(b)' = 1 /\ Pins(b) = IF k \in pinned THEN 1 ELSE 0
    BY <1>1, <1>4, <1>5 DEF Pins
  <2>7. n \in Nat /\ n = Users(b)' + Pins(b)'
    BY <2>2, <2>3, <2>5, <2>6
  <2> QED BY <2>2, <2>4, <2>7, RefcntStep, Zenon DEF IoInv
<1>11. BufTypes'
  <2>1. Changed(buf[p], blockno[buf[p]])
    BY <1>1, <1>2, ChangeEffect, Zenon
  <2>2. pinned' \subseteq Blocks
    BY <1>1, <1>4, <1>5, Zenon DEF IoInv, BufTypes
  <2> QED BY <1>1, <1>8, <1>10, <2>1, <2>2, Zenon DEF IoInv, BufTypes, Changed
<1>12. ProcTypes' /\ ~panicked'
  BY <1>1, <1>3, <1>8, Zenon DEF IoInv, ProcTypes
<1>13. BufferInv'
  <2>1. IsFiniteSet(pinned') /\ Cardinality(pinned') <= MaxPins
    BY Zenon DEF PinsBounded
  <2>2. \A j \in pinned' : \E x \in Bufs : blockno'[x] = j /\ valid'[x]
    BY <1>1, <1>4, <1>5, <1>9, Zenon
  <2>3. \A q \in Procs : buf'[q] = NoBuf <=> pc'[q] = "idle"
    BY <1>1, <1>7, <1>8, Zenon DEF IoInv, BufferInv, Steady
  <2>4. \A x \in Bufs : \E i \in DOMAIN lru' : lru'[i] = x
    BY <1>1, Zenon DEF IoInv, BufferInv
  <2>5. \A x, y \in Bufs : blockno'[x] = blockno'[y] /\ blockno'[x] # NoBlock => x = y
    BY <1>1, Zenon DEF IoInv, BufferInv
  <2>6. \A q \in Procs : buf'[q] # NoBuf => blockno'[buf'[q]] # NoBlock
    BY <1>1, Zenon DEF IoInv, BufferInv
  <2> QED BY <1>10, <2>1, <2>2, <2>3, <2>4, <2>5, <2>6, Zenon DEF BufferInv
<1>14. LockInv'
  BY <1>1, <1>2, <1>7, <1>8, LockFrame, Zenon DEF IoInv, Steady
<1>15. DataInv'
  <2>1. Sees(p)'
    BY <1>1, <1>3, <1>4, <1>9, Zenon DEF Sees, Done, InIo
  <2>2. pinned \subseteq pinned' /\ blockno[buf[p]] \in pinned'
    BY <1>1, Zenon
  <2> QED BY <1>1, <1>8, <2>1, <2>2, ChangeData, ZenonT(40)
<1> QED BY <1>8, <1>11, <1>12, <1>13, <1>14, <1>15, Zenon DEF IoInv

LEMMA bunpin_Step ==
  ASSUME IoInv, NEW p \in Procs, bunpin(p), UsersAreNat, PinsBounded' PROVE IoInv'
<1>1. /\ lru' = lru /\ blockno' = blockno /\ valid' = valid /\ locked' = locked
      /\ current' = current /\ buf' = buf /\ head' = head /\ write' = write
      /\ UNCHANGED dskvars /\ platter' = platter /\ panicked' = panicked
      /\ pc[p] = "written" /\ Go(p, "release") /\ blockno[buf[p]] \in pinned
      /\ pinned' = pinned \ {blockno[buf[p]]}
      /\ refcnt' = [refcnt EXCEPT ![buf[p]] = @ - 1]
  BY SameDevvars, ZenonT(40) DEF bunpin
<1>2. pc[p] \in HasLock /\ p \notin Asking /\ "release" \in Labels /\ ~Writing(p)
  BY <1>1, Zenon DEF HasLock, Asking, Labels, InIo, Writing
<1>3. pc' \in [Procs -> Labels] /\ pc'[p] = "release" /\ \A q \in Procs : q # p => pc'[q] = pc[q]
  BY <1>1, <1>2, GoEffect, Zenon DEF IoInv
<1>4. PICK b \in Bufs : b = buf[p]
  BY <1>2, OwnBuffer, Zenon
<1>5. PICK k \in Blocks : k = blockno[b]
  BY <1>2, <1>4, OwnBuffer, Zenon
<1>6. \A q \in Procs : q # p => SameProc(q) \/ Woken(q)
  BY <1>1, <1>3, Zenon DEF SameProc
<1>7. p \notin Asking' /\ pc'[p] # "asleep on free" /\ pc'[p] # "asleep on lock" /\ pc'[p] # "idle" /\ pc[p] # "idle"
  BY <1>1, <1>3 DEF Asking
<1>8. /\ DiskTypes' /\ DescInv' /\ RequestInv' /\ disk' = disk /\ Desc' = Desc
      /\ \A q \in Procs : q # p => SameData(q) /\ Steady(q)
  BY <1>1, <1>2, <1>6, <1>7, ProcStep, ZenonT(40)
<1>9. /\ valid[b] /\ platter[k] /\ IsFiniteSet(pinned) /\ Cardinality(pinned) <= MaxPins
      /\ \A j \in pinned : \E x \in Bufs : blockno[x] = j /\ valid[x]
  BY <1>1, <1>4, <1>5, Zenon DEF IoInv, DataInv, Sees, BufferInv
<1>10. refcnt' \in [Bufs -> Nat] /\ \A x \in Bufs : refcnt'[x] = Users(x)' + Pins(x)'
  <2>1. \A j : j # blockno[b] => (j \in pinned' <=> j \in pinned)
    BY <1>1, <1>4, Zenon
  <2>2. /\ Users(b)' = Users(b)
        /\ \A x \in Bufs : x # b => Users(x)' = Users(x) /\ Pins(x)' = Pins(x)
    BY <1>1, <1>2, <1>4, <2>1, PinsOther, Zenon
  <2>3. PICK n : n = refcnt[b] - 1
    BY Zenon
  <2>4. refcnt' = [refcnt EXCEPT ![b] = n]
    BY <1>1, <1>4, <2>3, Zenon
  <2>5. refcnt[b] \in Nat /\ refcnt[b] = Users(b) + Pins(b) /\ Users(b) \in Nat
    BY UsersNat, Zenon DEF IoInv, BufTypes, BufferInv
  <2>6. Pins(b)' = 0 /\ Pins(b) = 1
    BY <1>1, <1>4, <1>5 DEF Pins
  <2>7. n \in Nat /\ n = Users(b)' + Pins(b)'
    BY <2>2, <2>3, <2>5, <2>6
  <2> QED BY <2>2, <2>4, <2>7, RefcntStep, Zenon DEF IoInv
<1>11. BufTypes'
  <2>1. pinned' \subseteq Blocks
    BY <1>1, Zenon DEF IoInv, BufTypes
  <2> QED BY <1>1, <1>8, <1>10, <2>1, Zenon DEF IoInv, BufTypes
<1>12. ProcTypes' /\ ~panicked'
  BY <1>1, <1>3, <1>8, Zenon DEF IoInv, ProcTypes
<1>13. BufferInv'
  <2>1. IsFiniteSet(pinned') /\ Cardinality(pinned') <= MaxPins
    BY Zenon DEF PinsBounded
  <2>2. \A j \in pinned' : \E x \in Bufs : blockno'[x] = j /\ valid'[x]
    BY <1>1, <1>9, Zenon
  <2>3. \A q \in Procs : buf'[q] = NoBuf <=> pc'[q] = "idle"
    BY <1>1, <1>7, <1>8, Zenon DEF IoInv, BufferInv, Steady
  <2>4. \A x \in Bufs : \E i \in DOMAIN lru' : lru'[i] = x
    BY <1>1, Zenon DEF IoInv, BufferInv
  <2>5. \A x, y \in Bufs : blockno'[x] = blockno'[y] /\ blockno'[x] # NoBlock => x = y
    BY <1>1, Zenon DEF IoInv, BufferInv
  <2>6. \A q \in Procs : buf'[q] # NoBuf => blockno'[buf'[q]] # NoBlock
    BY <1>1, Zenon DEF IoInv, BufferInv
  <2> QED BY <1>10, <2>1, <2>2, <2>3, <2>4, <2>5, <2>6, Zenon DEF BufferInv
<1>14. LockInv'
  BY <1>1, <1>2, <1>7, <1>8, LockFrame, Zenon DEF IoInv, Steady
<1>15. DataInv'
  <2>1. Sees(p)'
    BY <1>1, <1>3, <1>4, <1>9 DEF Sees, Done, InIo
  <2>2. \A q \in Procs : Sees(q)'
    BY <1>1, <1>8, <2>1, SeesOther, Zenon DEF IoInv, DataInv
  <2>3. \A q \in Procs : Writing(q) => Writing(q)' /\ buf'[q] = buf[q]
    BY <1>2, <1>8, Zenon DEF SameData
  <2>4. ASSUME NEW j \in Blocks
        PROVE  platter'[j] \/ j \in pinned' \/ \E q \in Procs : Writing(q)' /\ blockno'[buf'[q]] = j
    <3>1. CASE j = k
      BY <1>1, <1>9, <3>1, Zenon
    <3>2. CASE j # k
      <4>1. (platter[j] => platter'[j]) /\ (j \in pinned => j \in pinned')
        BY <1>1, <1>4, <1>5, <3>2, Zenon
      <4> QED BY <1>1, <2>3, <4>1, OnItsWay, Zenon DEF IoInv
    <3> QED BY <3>1, <3>2, Zenon
  <2> QED BY <1>1, <2>2, <2>4, Zenon DEF IoInv, DataInv
<1> QED BY <1>8, <1>11, <1>12, <1>13, <1>14, <1>15, Zenon DEF IoInv

(* What both ways of finding a buffer have in common. *)
Got(p, b) ==
  /\ pc[p] = "idle" /\ Go(p, "lock")
  /\ buf' = [buf EXCEPT ![p] = b]
  /\ lru' = lru /\ locked' = locked /\ UNCHANGED devvars
  /\ write' = write /\ head' = head /\ pinned' = pinned /\ panicked' = panicked

LEMMA GotEffect ==
  ASSUME IoInv, NEW p \in Procs, NEW b \in Bufs, Got(p, b)
  PROVE  /\ ProcTypes' /\ ~panicked' /\ DiskTypes' /\ LockInv' /\ DescInv' /\ RequestInv'
         /\ platter' = platter /\ disk' = disk
         /\ buf'[p] = b /\ \A q \in Procs : q # p => buf'[q] = buf[q] /\ SameData(q)
         /\ Sees(p)' /\ \A q \in Procs : Writing(q) => Writing(q)' /\ buf'[q] = buf[q]
         /\ \A q \in Procs : buf'[q] = NoBuf <=> pc'[q] = "idle"
<1>1. /\ locked' = locked /\ head' = head /\ write' = write
      /\ UNCHANGED dskvars /\ platter' = platter /\ pinned' = pinned /\ panicked' = panicked
      /\ pc[p] = "idle" /\ buf' = [buf EXCEPT ![p] = b] /\ Go(p, "lock")
  BY SameDevvars, Zenon DEF Got
<1>2. p \notin Asking /\ ~Writing(p) /\ "lock" \in Labels
  BY <1>1, Zenon DEF Asking, Writing, Labels
<1>3. buf[p] = NoBuf /\ b # NoBuf
  BY <1>1, BlockIoAssumption, Zenon DEF IoInv, BufferInv
<1>4. pc' \in [Procs -> Labels] /\ pc'[p] = "lock" /\ \A q \in Procs : q # p => pc'[q] = pc[q]
  BY <1>1, <1>2, GoEffect, Zenon DEF IoInv
<1>5. buf' \in [Procs -> Bufs \cup {NoBuf}] /\ buf'[p] = b /\ \A q \in Procs : q # p => buf'[q] = buf[q]
  BY <1>1, Zenon DEF IoInv, ProcTypes
<1>6. \A q \in Procs : q # p => SameProc(q) \/ Woken(q)
  BY <1>1, <1>4, <1>5, Zenon DEF SameProc
<1>7. /\ p \notin Asking' /\ pc'[p] # "asleep on free" /\ pc'[p] \notin HasLock
      /\ pc'[p] # "asleep on lock" /\ pc'[p] # "idle"
  BY <1>4 DEF Asking, HasLock, InIo
<1>8. /\ DiskTypes' /\ DescInv' /\ RequestInv' /\ disk' = disk /\ Desc' = Desc
      /\ \A q \in Procs : q # p => SameData(q) /\ Steady(q)
  BY <1>1, <1>2, <1>6, <1>7, ProcStep, Zenon
<1>9. ProcTypes' /\ ~panicked'
  BY <1>1, <1>4, <1>5, <1>8, Zenon DEF IoInv, ProcTypes
<1>10. LockInv'
  BY <1>1, <1>5, <1>7, <1>8, LockFrame, Zenon DEF IoInv, Steady
<1>11. Sees(p)'
  BY <1>4 DEF Sees, Done, InIo
<1>12. \A q \in Procs : Writing(q) => Writing(q)' /\ buf'[q] = buf[q]
  BY <1>2, <1>8, Zenon DEF SameData
<1>13. \A q \in Procs : buf'[q] = NoBuf <=> pc'[q] = "idle"
  <2>1. \A q \in Procs : buf[q] = NoBuf <=> pc[q] = "idle"
    BY Zenon DEF IoInv, BufferInv
  <2>2. ASSUME NEW q \in Procs, q # p PROVE buf'[q] = NoBuf <=> pc'[q] = "idle"
    BY <1>4, <1>5, <2>1, <2>2, Zenon
  <2>3. buf'[p] # NoBuf /\ pc'[p] # "idle"
    BY <1>3, <1>5, <1>7, Zenon
  <2> QED BY <2>2, <2>3, Zenon
<1> QED BY <1>1, <1>5, <1>8, <1>9, <1>10, <1>11, <1>12, <1>13, Zenon

LEMMA bget_cached_Step ==
  ASSUME IoInv, NEW p \in Procs, NEW k \in Blocks, NEW b \in Bufs, blockno[b] = k, Got(p, b),
         UsersAreNat, UsersMoved(NoBuf, b),
         blockno' = blockno, valid' = valid, current' = current,
         refcnt' = [refcnt EXCEPT ![b] = @ + 1]
  PROVE  IoInv'
<1>1. /\ ProcTypes' /\ ~panicked' /\ DiskTypes' /\ LockInv' /\ DescInv' /\ RequestInv'
      /\ platter' = platter /\ disk' = disk
      /\ buf'[p] = b /\ \A q \in Procs : q # p => buf'[q] = buf[q] /\ SameData(q)
      /\ Sees(p)' /\ \A q \in Procs : Writing(q) => Writing(q)' /\ buf'[q] = buf[q]
      /\ \A q \in Procs : buf'[q] = NoBuf <=> pc'[q] = "idle"
  BY GotEffect, Zenon
<1>2. lru' = lru /\ locked' = locked /\ pinned' = pinned
  BY Zenon DEF Got
<1>3. k # NoBlock
  BY BlockIoAssumption, Zenon
<1>4. refcnt' \in [Bufs -> Nat] /\ \A x \in Bufs : refcnt'[x] = Users(x)' + Pins(x)'
  <2>1. \A x : Pins(x)' = Pins(x)
    BY <1>2, Zenon DEF Pins
  <2>2. Users(b)' = Users(b) + 1 /\ \A x \in Bufs : x # b => Users(x)' = Users(x)
    BY <1>1, BlockIoAssumption, Zenon DEF UsersMoved
  <2>3. PICK n : n = refcnt[b] + 1
    BY Zenon
  <2>4. refcnt[b] \in Nat /\ refcnt[b] = Users(b) + Pins(b) /\ Users(b) \in Nat /\ Pins(b) \in {0, 1}
    BY UsersNat, Zenon DEF IoInv, BufTypes, BufferInv
  <2>5. n \in Nat /\ n = Users(b)' + Pins(b)'
    BY <2>1, <2>2, <2>3, <2>4
  <2>6. refcnt' = [refcnt EXCEPT ![b] = n]
    BY <2>3, Zenon
  <2> QED BY <2>1, <2>2, <2>5, <2>6, RefcntStep, Zenon DEF IoInv
<1>5. BufTypes'
  BY <1>1, <1>2, <1>4, Zenon DEF IoInv, BufTypes
<1>6. BufferInv'
  <2>1. \A q \in Procs : buf'[q] # NoBuf => blockno'[buf'[q]] # NoBlock
    BY <1>1, <1>3, ZenonT(40) DEF IoInv, BufferInv
  <2>2. \A x \in Bufs : \E i \in DOMAIN lru' : lru'[i] = x
    BY <1>2, Zenon DEF IoInv, BufferInv
  <2>3. \A x, y \in Bufs : blockno'[x] = blockno'[y] /\ blockno'[x] # NoBlock => x = y
    BY Zenon DEF IoInv, BufferInv
  <2>4. /\ IsFiniteSet(pinned') /\ Cardinality(pinned') <= MaxPins
        /\ \A j \in pinned' : \E x \in Bufs : blockno'[x] = j /\ valid'[x]
    BY <1>2, Zenon DEF IoInv, BufferInv
  <2> QED BY <1>1, <1>4, <2>1, <2>2, <2>3, <2>4, Zenon DEF BufferInv
<1>7. DataInv'
  BY <1>1, <1>2, DataFrame, Zenon DEF IoInv
<1> QED BY <1>1, <1>5, <1>6, <1>7, Zenon DEF IoInv

LEMMA bget_recycled_Step ==
  ASSUME IoInv, NEW p \in Procs, NEW k \in Blocks, NEW b \in Bufs, Got(p, b),
         UsersAreNat, UsersMoved(NoBuf, b),
         Cached(k) = {}, refcnt[b] = 0,
         blockno' = [blockno EXCEPT ![b] = k], valid' = [valid EXCEPT ![b] = FALSE],
         current' = [current EXCEPT ![b] = FALSE], refcnt' = [refcnt EXCEPT ![b] = 1]
  PROVE  IoInv'
<1>1. /\ ProcTypes' /\ ~panicked' /\ DiskTypes' /\ LockInv' /\ DescInv' /\ RequestInv'
      /\ platter' = platter /\ disk' = disk
      /\ buf'[p] = b /\ \A q \in Procs : q # p => buf'[q] = buf[q] /\ SameData(q)
      /\ Sees(p)' /\ \A q \in Procs : Writing(q) => Writing(q)' /\ buf'[q] = buf[q]
      /\ \A q \in Procs : buf'[q] = NoBuf <=> pc'[q] = "idle"
  BY GotEffect, Zenon
<1>2. lru' = lru /\ locked' = locked /\ pinned' = pinned
  BY Zenon DEF Got
<1>3. k # NoBlock /\ NoBuf \notin Bufs
  BY BlockIoAssumption, Zenon
<1>4. Users(b) = 0 /\ (\A q \in Procs : buf[q] # b) /\ blockno[b] \notin pinned
  <2>1. refcnt[b] = Users(b) + Pins(b) /\ Users(b) \in Nat /\ Pins(b) \in {0, 1}
    BY UsersNat, Zenon DEF IoInv, BufferInv
  <2>2. Users(b) = 0 /\ Pins(b) # 1
    BY <2>1
  <2> QED BY <2>2, UsersNat, Zenon
<1>5. blockno' \in [Bufs -> Blocks \cup {NoBlock}] /\ blockno'[b] = k /\ \A x \in Bufs : x # b => blockno'[x] = blockno[x]
  BY Zenon DEF IoInv, BufTypes
<1>6. valid' \in [Bufs -> BOOLEAN] /\ ~valid'[b] /\ \A x \in Bufs : x # b => valid'[x] = valid[x]
  BY Zenon DEF IoInv, BufTypes
<1>7. current' \in [Bufs -> BOOLEAN] /\ \A x \in Bufs : x # b => current'[x] = current[x]
  BY Zenon DEF IoInv, BufTypes
<1>8. \A x \in Bufs : blockno[x] # k
  BY Zenon DEF Cached
<1>9. k \notin pinned
  BY <1>8, Zenon DEF IoInv, BufferInv
<1>10. refcnt' \in [Bufs -> Nat] /\ \A x \in Bufs : refcnt'[x] = Users(x)' + Pins(x)'
  <2>1. Pins(b)' = 0
    BY <1>2, <1>5, <1>9, Zenon DEF Pins
  <2>2. ASSUME NEW x \in Bufs, x # b PROVE Users(x)' = Users(x) /\ Pins(x)' = Pins(x)
    <3>1. Users(x)' = Users(x)
      BY <1>1, <1>3, <2>2, Zenon DEF UsersMoved
    <3>2. Pins(x)' = Pins(x)
      BY <1>2, <1>5, <2>2, Zenon DEF Pins
    <3> QED BY <3>1, <3>2, Zenon
  <2>3. Users(b)' = Users(b) + 1
    BY <1>1, Zenon DEF UsersMoved
  <2>4. 1 \in Nat /\ 1 = Users(b)' + Pins(b)'
    BY <1>4, <2>1, <2>3
  <2> QED BY <2>2, <2>4, RefcntStep, Zenon DEF IoInv
<1>11. BufTypes'
  BY <1>1, <1>2, <1>5, <1>6, <1>7, <1>10, Zenon DEF IoInv, BufTypes
<1>12. BufferInv'
  <2>1. ASSUME NEW q \in Procs, buf'[q] # NoBuf PROVE blockno'[buf'[q]] # NoBlock
    <3>1. CASE q = p
      BY <1>1, <1>3, <1>5, <3>1, Zenon
    <3>2. CASE q # p
      <4>1. buf'[q] = buf[q] /\ buf[q] # NoBuf /\ buf[q] # b
        BY <1>1, <1>4, <2>1, <3>2, Zenon
      <4>2. buf[q] \in Bufs
        BY <4>1, Zenon DEF IoInv, ProcTypes
      <4>3. blockno[buf[q]] # NoBlock
        BY <4>1, Zenon DEF IoInv, BufferInv
      <4> QED BY <1>5, <4>1, <4>2, <4>3, Zenon
    <3> QED BY <3>1, <3>2, Zenon
  <2>2. \A x \in Bufs : \E i \in DOMAIN lru' : lru'[i] = x
    BY <1>2, Zenon DEF IoInv, BufferInv
  <2>3. ASSUME NEW x \in Bufs, NEW y \in Bufs, blockno'[x] = blockno'[y], blockno'[x] # NoBlock PROVE x = y
    <3>1. CASE x = b
      <4>1. blockno'[y] = k
        BY <1>5, <2>3, <3>1, Zenon
      <4> QED BY <1>5, <1>8, <3>1, <4>1, Zenon
    <3>2. CASE x # b
      <4>1. blockno'[x] = blockno[x] /\ y # b
        BY <1>5, <1>8, <2>3, <3>2, Zenon
      <4>2. blockno[x] = blockno[y] /\ blockno[x] # NoBlock
        BY <1>5, <2>3, <4>1, Zenon
      <4> QED BY <4>2, Zenon DEF IoInv, BufferInv
    <3> QED BY <3>1, <3>2, Zenon
  <2>4. IsFiniteSet(pinned') /\ Cardinality(pinned') <= MaxPins
    BY <1>2, Zenon DEF IoInv, BufferInv
  <2>5. ASSUME NEW j \in pinned' PROVE \E x \in Bufs : blockno'[x] = j /\ valid'[x]
    <3>1. j \in pinned
      BY <1>2, Zenon
    <3>2. PICK x \in Bufs : blockno[x] = j /\ valid[x]
      BY <3>1, Zenon DEF IoInv, BufferInv
    <3>3. x # b
      BY <1>4, <3>1, <3>2, Zenon
    <3> QED BY <1>5, <1>6, <3>2, <3>3, Zenon
  <2> QED BY <1>1, <1>10, <2>1, <2>2, <2>3, <2>4, <2>5, Zenon DEF BufferInv
<1>13. DataInv'
  <2>1. \A x \in Bufs : valid'[x] => current'[x]
    BY <1>6, <1>7, Zenon DEF IoInv, DataInv
  <2>2. ASSUME NEW q \in Procs, q # p PROVE Sees(q)'
    <3>1. ASSUME pc[q] \in HasLock
          PROVE  /\ valid'[buf[q]] <=> valid[buf[q]]
                 /\ current[buf[q]] => current'[buf[q]]
                 /\ platter[blockno[buf[q]]] => platter'[blockno'[buf[q]]]
      <4>1. buf[q] \in Bufs /\ buf[q] # b
        BY <1>4, <3>1, OwnBuffer, Zenon
      <4> QED BY <1>1, <1>5, <1>6, <1>7, <4>1, Zenon
    <3>2. SameData(q) /\ Sees(q)
      BY <1>1, <2>2, Zenon DEF IoInv, DataInv
    <3> QED BY <3>1, <3>2, SeesOther, Zenon
  <2>3. ASSUME NEW j \in Blocks
        PROVE  platter'[j] \/ j \in pinned' \/ \E q \in Procs : Writing(q)' /\ blockno'[buf'[q]] = j
    <3>1. CASE platter[j] \/ j \in pinned
      BY <1>1, <1>2, <3>1, Zenon
    <3>2. ASSUME NEW q \in Procs, Writing(q), blockno[buf[q]] = j
          PROVE  Writing(q)' /\ blockno'[buf'[q]] = j
      <4>1. pc[q] \in HasLock
        BY <3>2, Zenon DEF Writing, HasLock, InIo
      <4>2. buf[q] \in Bufs /\ buf[q] # b /\ buf'[q] = buf[q] /\ Writing(q)'
        BY <1>1, <1>4, <3>2, <4>1, OwnBuffer, Zenon
      <4> QED BY <1>5, <3>2, <4>2, Zenon
    <3> QED BY <3>1, <3>2, Zenon DEF IoInv, DataInv
  <2> QED BY <1>1, <2>1, <2>2, <2>3, Zenon DEF DataInv
<1> QED BY <1>1, <1>11, <1>12, <1>13, Zenon DEF IoInv

-----------------------------------------------------------------------------
(* virtio_disk_rw. *)

LEMMA OneToThree ==
  1 \in 1..3 /\ 2 \in 1..3 /\ 3 \in 1..3
  OBVIOUS

Three(idx, F) == idx \in [1..3 -> F] /\ \A i, j \in 1..3 : idx[i] = idx[j] => i = j

(* The heads of requests are not free. *)
LEMMA HeadTaken ==
  ASSUME DescInv, NEW q \in Asking
  PROVE  head[q] \in Desc \ free /\ \A i \in 1..3 : chain[head[q]][i] \in Desc \ free
<1>1. chain[head[q]] \in [1..3 -> Desc \ free] /\ chain[head[q]][1] = head[q]
  BY Zenon DEF DescInv, Linked
<1>2. 1 \in 1..3
  OBVIOUS
<1> QED BY <1>1, <1>2, Zenon

(* The links of p are idx now, all of which were free. *)
OneMore(P, of, links, F, p, idx, of2, links2) ==
  /\ \A q \in P : \A i \in 1..3 : links[of[q]][i] \notin F
  /\ links2[of2[p]] = idx
  /\ \A q \in P : links2[of2[q]] = links[of[q]]

LEMMA ApartMore ==
  ASSUME NEW P, NEW of, NEW links, Apart(P, of, links), NEW F, NEW p, NEW idx, Three(idx, F),
         NEW of2, NEW links2, OneMore(P, of, links, F, p, idx, of2, links2)
  PROVE  Apart(P \cup {p}, of2, links2)
<1>1. \A i, j \in 1..3 : links2[of2[p]][i] = links2[of2[p]][j] => i = j
  BY Zenon DEF Three, OneMore
<1>2. \A i \in 1..3 : links2[of2[p]][i] \in F
  BY Zenon DEF Three, OneMore
<1>3. \A q \in P : \A i \in 1..3 : links2[of2[q]][i] \notin F
  BY Zenon DEF OneMore
<1>4. ASSUME NEW q \in P, NEW r \in P, NEW i \in 1..3, NEW j \in 1..3, links2[of2[q]][i] = links2[of2[r]][j]
      PROVE  q = r /\ i = j
  <2>1. links[of[q]][i] = links[of[r]][j]
    BY <1>4, Zenon DEF OneMore
  <2>2. \A x, y \in 1..3 : links[of[q]][x] = links[of[r]][y] => q = r /\ x = y
    BY Zenon DEF Apart
  <2> QED BY <2>1, <2>2, Zenon
<1>5. ASSUME NEW q \in P \cup {p}, NEW r \in P \cup {p}, NEW i \in 1..3, NEW j \in 1..3,
             links2[of2[q]][i] = links2[of2[r]][j]
      PROVE  q = r /\ i = j
  <2>1. CASE q \in P /\ r \in P
    BY <1>4, <1>5, <2>1, Zenon
  <2>2. CASE q = p /\ r = p
    BY <1>1, <1>5, <2>2, Zenon
  <2>3. CASE q \in P /\ r = p
    BY <1>2, <1>3, <1>5, <2>3, Zenon
  <2>4. CASE q = p /\ r \in P
    BY <1>2, <1>3, <1>5, <2>4, Zenon
  <2> QED BY <2>1, <2>2, <2>3, <2>4, Zenon
<1> QED BY <1>5, Zenon DEF Apart

LEMMA NewRequest ==
  ASSUME DescInv, DiskTypes, ProcTypes, NUM' = NUM, buf' = buf, NEW p \in Procs, p \notin Asking, Asking' = Asking \cup {p},
         NEW idx, Three(idx, free), NEW h, h = idx[1], NEW b, b = buf[p],
         free' = free \ Range(idx), chain' = [chain EXCEPT ![h] = idx],
         info' = [info EXCEPT ![h] = b], head' = [head EXCEPT ![p] = h],
         \A q \in Procs : pc'[q] # "asleep on free"
  PROVE  DescInv'
<1>1. Desc' = Desc
  BY Zenon DEF Desc
<1>2. 1 \in 1..3 /\ DOMAIN chain = Desc /\ DOMAIN info = Desc /\ DOMAIN head = Procs /\ free \subseteq Desc
  BY OneToThree, Zenon DEF DiskTypes, ProcTypes
<1>3. h \in free /\ h \in Desc /\ DOMAIN idx = 1..3 /\ \A i \in 1..3 : idx[i] \in free
  BY <1>2, Zenon DEF Three
<1>4. /\ chain'[h] = idx /\ \A d \in Desc : d # h => chain'[d] = chain[d]
      /\ info'[h] = b /\ \A d \in Desc : d # h => info'[d] = info[d]
  BY <1>2, <1>3, Zenon
<1>5. head'[p] = h /\ \A q \in Procs : q # p => head'[q] = head[q]
  BY <1>2, Zenon
<1>6. \A q \in Asking : q \in Procs /\ q # p
  BY Zenon DEF Asking
<1>7. ASSUME NEW q \in Asking
      PROVE  head'[q] = head[q] /\ head[q] \in Desc /\ head[q] # h /\ chain'[head'[q]] = chain[head[q]]
  <2>1. head'[q] = head[q]
    BY <1>5, <1>6, Zenon
  <2>2. head[q] \in Desc /\ head[q] # h
    BY <1>3, HeadTaken, Zenon
  <2> QED BY <1>4, <2>1, <2>2, Zenon
<1>8. free' \subseteq free /\ \A d : d \in free /\ d \notin free' => \E i \in 1..3 : d = idx[i]
  BY <1>3, Zenon DEF Range
<1>9. \A i \in 1..3 : idx[i] \in Desc \ free'
  BY <1>2, <1>3, Zenon DEF Range
<1>10. \A q \in Procs : head'[q] # NoDesc <=> q \in Asking'
  <2>1. h # NoDesc
    BY <1>3, Num, Zenon
  <2> QED BY <1>5, <2>1, Zenon DEF DescInv
<1>11. ASSUME NEW q \in Asking' PROVE Linked(head[q])' /\ info'[head'[q]] = buf'[q]
  <2>1. CASE q = p
    <3>1. idx \in [1..3 -> Desc \ free']
      BY <1>9, Zenon DEF Three
    <3>2. chain'[h] \in [1..3 -> Desc' \ free'] /\ chain'[h][1] = h
      BY <1>1, <1>4, <3>1, Zenon
    <3> QED BY <1>4, <1>5, <2>1, <3>2, Zenon DEF Linked
  <2>2. CASE q # p
    <3>1. q \in Asking
      BY <2>2, Zenon
    <3>2. Linked(head[q]) /\ info[head[q]] = buf[q]
      BY <3>1, Zenon DEF DescInv
    <3>3. info'[head'[q]] = buf'[q]
      <4>1. head'[q] = head[q] /\ head[q] \in Desc /\ head[q] # h
        BY <1>7, <3>1, Zenon
      <4>2. info'[head[q]] = buf[q]
        BY <1>4, <3>2, <4>1, Zenon
      <4> QED BY <4>1, <4>2, Zenon
    <3>4. chain[head[q]] \in [1..3 -> Desc \ free] /\ chain[head[q]][1] = head[q]
      BY <3>2, Zenon DEF Linked
    <3>5. chain[head[q]] \in [1..3 -> Desc' \ free']
      BY <1>1, <1>8, <3>4, Zenon
    <3> QED BY <1>7, <3>1, <3>3, <3>4, <3>5, Zenon DEF Linked
  <2> QED BY <2>1, <2>2, Zenon
<1>12. \A d \in Desc' : chain'[d] = <<>> \/ \E q \in Asking' : head'[q] = d
  <2>1. ASSUME NEW d \in Desc, d # h PROVE chain'[d] = <<>> \/ \E q \in Asking' : head'[q] = d
    <3>1. chain[d] = <<>> \/ \E q \in Asking : head[q] = d
      BY Zenon DEF DescInv
    <3> QED BY <1>4, <1>7, <2>1, <3>1, Zenon
  <2> QED BY <1>1, <1>5, <2>1, Zenon
<1>13. Apart(Asking', head', chain')
  <2>1. Apart(Asking, head, chain) /\ \A q \in Asking : \A i \in 1..3 : chain[head[q]][i] \notin free
    BY HeadTaken, Zenon DEF DescInv
  <2>2. chain'[head'[p]] = idx
    BY <1>4, <1>5, Zenon
  <2>3. OneMore(Asking, head, chain, free, p, idx, head', chain')
    BY <1>7, <2>1, <2>2, Zenon DEF OneMore
  <2>4. Apart(Asking \cup {p}, head', chain')
    BY <2>1, <2>3, ApartMore, Zenon
  <2> QED BY <2>4, Zenon
<1>14. ASSUME NEW d \in Desc' PROVE d \in free' \/ \E q \in Asking', i \in 1..3 : d = chain'[head'[q]][i]
  <2>1. d \in free \/ \E q \in Asking, i \in 1..3 : d = chain[head[q]][i]
    BY <1>1, Zenon DEF DescInv
  <2>2. CASE d \in free /\ d \notin free'
    <3>1. PICK i \in 1..3 : d = idx[i]
      BY <1>8, <2>2, Zenon
    <3>2. p \in Asking' /\ d = chain'[head'[p]][i]
      BY <1>4, <1>5, <3>1, Zenon
    <3> QED BY <3>2, Zenon
  <2>3. CASE \E q \in Asking, i \in 1..3 : d = chain[head[q]][i]
    <3>1. PICK q \in Asking, i \in 1..3 : d = chain[head[q]][i]
      BY <2>3, Zenon
    <3>2. d = chain'[head'[q]][i]
      BY <1>7, <3>1, Zenon
    <3> QED BY <3>2, Zenon
  <2> QED BY <2>1, <2>2, <2>3, Zenon
<1> QED BY <1>10, <1>11, <1>12, <1>13, <1>14, Zenon DEF DescInv

LEMMA virtio_disk_rw_Step ==
  ASSUME IoInv, NEW p \in Procs, virtio_disk_rw(p), Cardinality(free) \in Nat,
         Three(Lowest3, free), AvailPut(Lowest3[1])
  PROVE  IoInv'
<1>1. /\ SameBufs /\ current' = current /\ NUM' = NUM /\ used' = used /\ used_head' = used_head
      /\ used_idx' = used_idx /\ dev_idx' = dev_idx /\ inflight' = inflight /\ irq' = irq /\ intr' = intr
      /\ platter' = platter /\ buf' = buf /\ write' = write /\ pinned' = pinned /\ panicked' = panicked
      /\ pc[p] = "rw" /\ Cardinality(free) >= 3 /\ Go(p, "asleep on buf")
      /\ avail_idx' = (avail_idx + 1) % IDXMOD /\ disk' = [disk EXCEPT ![buf[p]] = TRUE]
  BY SameBufvars, Zenon DEF virtio_disk_rw
<1>2. PICK idx : idx = Lowest3
  BY Zenon
<1>3. PICK h : h = idx[1]
  BY Zenon
<1>4. PICK b : b = buf[p]
  BY Zenon
<1>5. /\ free' = free \ Range(idx) /\ chain' = [chain EXCEPT ![h] = idx] /\ info' = [info EXCEPT ![h] = b]
      /\ avail' = [avail EXCEPT ![avail_idx % NUM] = h] /\ head' = [head EXCEPT ![p] = h]
  BY <1>2, <1>3, <1>4, Zenon DEF virtio_disk_rw
<1>6. Three(idx, free)
  BY <1>2, Zenon
<1>7. h \in free /\ h \in Desc
  BY <1>3, <1>6, OneToThree, Zenon DEF Three, IoInv, DiskTypes
<1>8. /\ pc[p] \in HasLock /\ "asleep on buf" \in Labels /\ p \notin Asking /\ p \notin Waiting
  BY <1>1, Zenon DEF HasLock, InIo, Labels, Asking, Waiting
<1>9. b \in Bufs
  BY <1>4, <1>8, OwnBuffer, Zenon
<1>10. pc' \in [Procs -> Labels] /\ pc'[p] = "asleep on buf" /\ \A q \in Procs : q # p => pc'[q] = pc[q]
  BY <1>1, <1>8, GoEffect, Zenon DEF IoInv
<1>11. head' \in [Procs -> Desc \cup {NoDesc}] /\ head'[p] = h /\ \A q \in Procs : q # p => head'[q] = head[q]
  BY <1>5, <1>7, Zenon DEF IoInv, ProcTypes
<1>12. Desc' = Desc /\ IDXMOD' = IDXMOD /\ Heads(used)' = Heads(used) /\ Filled(used)' = Filled(used)
       /\ Ring(used, used_idx, used_head)'
  BY <1>1, UsedFrame, Zenon DEF Desc, IDXMOD, IoInv, RequestInv
<1>13. \A q \in Procs : q # p => SameProc(q) /\ SameData(q) /\ Steady(q)
  <2>1. \A q \in Procs : q # p => SameProc(q)
    BY <1>1, <1>10, <1>11, Zenon DEF SameProc
  <2> QED BY <1>12, <2>1, SameProcData, SteadyOther, Zenon
<1>14. /\ Ring(avail, dev_idx, avail_idx)' /\ Heads(avail)' = Heads(avail) \cup {h}
       /\ avail' \in [Desc -> Desc \cup {NoDesc}] /\ avail_idx' \in 0..IDXMOD - 1
       /\ h \notin Heads(avail) /\ h \notin inflight /\ h \notin Heads(used)
  BY <1>2, <1>3, Zenon DEF AvailPut
<1>15. /\ p \in Asking' /\ p \in Waiting' /\ pc'[p] # "asleep on free" /\ pc'[p] # "asleep on lock"
       /\ pc'[p] # "idle" /\ pc[p] # "idle"
  BY <1>1, <1>10, Zenon DEF Asking, Waiting
<1>16. Asking' = Asking \cup {p} /\ Waiting' = Waiting \cup {p}
  <2>1. \A q \in Procs : q # p => (q \in Asking' <=> q \in Asking) /\ (q \in Waiting' <=> q \in Waiting)
    BY <1>13, Zenon DEF Steady
  <2>2. Asking \subseteq Procs /\ Asking' \subseteq Procs /\ Waiting \subseteq Procs /\ Waiting' \subseteq Procs
    BY Zenon DEF Asking, Waiting
  <2> QED BY <1>15, <2>1, <2>2, Zenon
<1>17. disk' \in [Bufs -> BOOLEAN] /\ disk'[b] /\ \A x \in Bufs : disk[x] => disk'[x]
  BY <1>1, <1>4, <1>9, Zenon DEF IoInv, BufTypes
<1>18. BufTypes'
  BY <1>1, <1>17, Zenon DEF IoInv, BufTypes, SameBufs
<1>19. ProcTypes' /\ ~panicked'
  BY <1>1, <1>10, <1>11, <1>12, Zenon DEF IoInv, ProcTypes
<1>20. DiskTypes'
  <2>1. free' \subseteq Desc /\ DOMAIN chain' = Desc /\ info' \in [Desc -> Bufs \cup {NoBuf}]
    BY <1>5, <1>7, <1>9, Zenon DEF IoInv, DiskTypes
  <2>2. {avail_idx', dev_idx', used_head', used_idx'} \subseteq 0..IDXMOD - 1
    BY <1>1, <1>14, Zenon DEF IoInv, DiskTypes
  <2> QED BY <1>1, <1>12, <1>14, <2>1, <2>2, Zenon DEF IoInv, DiskTypes
<1>21. BufferInv'
  BY <1>1, <1>13, <1>15, BufferFrame, Zenon DEF IoInv, SameBufs, Steady
<1>22. LockInv'
  BY <1>1, <1>8, <1>13, <1>15, LockFrame, Zenon DEF IoInv, SameBufs, Steady
<1>23. DescInv'
  <2>1. \A q \in Procs : pc'[q] # "asleep on free"
    <3>2. ~(Cardinality(free) < 3)
      <4>1. \A n \in Nat : n >= 3 => ~(n < 3)
        OBVIOUS
      <4> QED BY <1>1, <4>1, Zenon
    <3> QED BY <1>13, <1>15, <3>2, Zenon DEF Steady, IoInv, DescInv
  <2> QED BY <1>1, <1>3, <1>4, <1>5, <1>6, <1>8, <1>16, <2>1, NewRequest, Zenon DEF IoInv
<1>24. RequestInv'
  <2>1. {head'[q] : q \in Waiting'} = {head[q] : q \in Waiting} \cup {h}
    <3>1. \A q \in Waiting : head'[q] = head[q]
      BY <1>8, <1>11, Zenon DEF Waiting
    <3> QED BY <1>11, <1>16, <3>1, Zenon
  <2>2. \A q \in Waiting' : disk'[buf'[q]]
    <3>1. ASSUME NEW q \in Waiting PROVE disk'[buf[q]]
      <4>1. q \in Procs /\ pc[q] \in HasLock
        BY Zenon DEF Waiting, HasLock, InIo
      <4>2. buf[q] \in Bufs /\ disk[buf[q]]
        BY <4>1, OwnBuffer, Zenon DEF IoInv, RequestInv
      <4> QED BY <1>17, <4>2, Zenon
    <3> QED BY <1>1, <1>4, <1>16, <1>17, <3>1, Zenon
  <2>3. /\ Heads(avail)' \cap inflight' = {} /\ Heads(avail)' \cap Heads(used)' = {}
        /\ inflight' \cap Heads(used)' = {}
    <3>1. /\ Heads(avail) \cap inflight = {} /\ Heads(avail) \cap Heads(used) = {}
          /\ inflight \cap Heads(used) = {}
      BY Zenon DEF IoInv, RequestInv
    <3>2. (Heads(avail) \cup {h}) \cap inflight = {} /\ (Heads(avail) \cup {h}) \cap Heads(used) = {}
      BY <1>14, <3>1, Zenon
    <3> QED BY <1>1, <1>12, <1>14, <3>1, <3>2, Zenon
  <2>4. Heads(avail)' \cup inflight' \cup Heads(used)' = {head'[q] : q \in Waiting'}
    <3>1. Heads(avail) \cup inflight \cup Heads(used) = {head[q] : q \in Waiting}
      BY Zenon DEF IoInv, RequestInv
    <3> QED BY <1>1, <1>12, <1>14, <2>1, <3>1, Zenon
  <2>5. Filled(used)' # {} => irq' \/ intr'
    BY <1>1, <1>12, Zenon DEF IoInv, RequestInv
  <2> QED BY <1>12, <1>14, <2>2, <2>3, <2>4, <2>5, Zenon DEF RequestInv
<1>25. DataInv'
  <2>1. ~Done(p)' /\ ~Done(p)
    BY <1>1, <1>10, <1>11, <1>12, <1>14, Zenon DEF Done
  <2>2. valid[b] <=> write[p]
    BY <1>1, <1>4, Zenon DEF IoInv, DataInv, Sees, InIo
  <2>3. Sees(p)'
    BY <1>1, <1>4, <1>10, <2>1, <2>2, Zenon DEF Sees, SameBufs, InIo
  <2>4. Writing(p) => Writing(p)'
    BY <1>1, <1>10, <2>1, Zenon DEF Writing
  <2>5. \A q \in Procs : Writing(q) => Writing(q)' /\ buf'[q] = buf[q]
    BY <1>1, <1>13, <2>4, Zenon DEF SameData
  <2> QED BY <1>1, <1>13, <2>3, <2>5, DataFrame, Zenon DEF IoInv, SameBufs
<1> QED BY <1>18, <1>19, <1>20, <1>21, <1>22, <1>23, <1>24, <1>25, Zenon DEF IoInv

-----------------------------------------------------------------------------
(* free_chain. *)

(* The links of the others, when p has given back its own. *)
OneLess(P, of, links, p, of2, links2) ==
  \A q \in P \ {p} : of2[q] = of[q] /\ links2[of[q]] = links[of[q]]

LEMMA ApartLess ==
  ASSUME NEW P, NEW of, NEW links, Apart(P, of, links), NEW p, NEW of2, NEW links2,
         OneLess(P, of, links, p, of2, links2)
  PROVE  Apart(P \ {p}, of2, links2)
<1>1. ASSUME NEW q \in P \ {p}, NEW r \in P \ {p}, NEW i \in 1..3, NEW j \in 1..3,
             links2[of2[q]][i] = links2[of2[r]][j]
      PROVE  q = r /\ i = j
  <2>1. links[of[q]][i] = links[of[r]][j]
    BY <1>1, Zenon DEF OneLess
  <2>2. \A x, y \in 1..3 : links[of[q]][x] = links[of[r]][y] => q = r /\ x = y
    BY Zenon DEF Apart
  <2> QED BY <2>1, <2>2, Zenon
<1> QED BY <1>1, Zenon DEF Apart

LEMMA RequestDone ==
  ASSUME DescInv, DiskTypes, ProcTypes, NUM' = NUM, buf' = buf, NEW p \in Asking, Asking' = Asking \ {p},
         NEW h, h = head[p], NEW freed, freed = Range(chain[h]),
         free' = free \cup freed, chain' = [chain EXCEPT ![h] = <<>>],
         info' = [info EXCEPT ![h] = NoBuf], head' = [head EXCEPT ![p] = NoDesc],
         \A q \in Procs : pc'[q] # "asleep on free"
  PROVE  DescInv' /\ freed \cap free = {} /\ freed \subseteq Desc
<1>1. Desc' = Desc
  BY Zenon DEF Desc
<1>2. DOMAIN chain = Desc /\ DOMAIN info = Desc /\ DOMAIN head = Procs /\ free \subseteq Desc /\ p \in Procs
  BY Zenon DEF DiskTypes, ProcTypes, Asking
<1>3. Apart(Asking, head, chain)
  BY Zenon DEF DescInv
<1>4. h \in Desc /\ DOMAIN chain[h] = 1..3 /\ \A i \in 1..3 : chain[h][i] \in Desc \ free
  BY HeadTaken, Zenon DEF DescInv, Linked
<1>5. freed = {chain[h][i] : i \in 1..3}
  BY <1>4, Zenon DEF Range
<1>6. freed \cap free = {} /\ freed \subseteq Desc
  BY <1>4, <1>5, Zenon
<1>7. /\ chain'[h] = <<>> /\ \A d \in Desc : d # h => chain'[d] = chain[d]
      /\ \A d \in Desc : d # h => info'[d] = info[d]
  BY <1>2, <1>4, Zenon
<1>8. head'[p] = NoDesc /\ \A q \in Procs : q # p => head'[q] = head[q]
  BY <1>2, Zenon
<1>9. ASSUME NEW q \in Asking, q # p
      PROVE  /\ q \in Procs /\ head'[q] = head[q] /\ head[q] \in Desc /\ head[q] # h
             /\ chain'[head[q]] = chain[head[q]]
             /\ \A i \in 1..3 : chain[head[q]][i] \notin freed
  <2>1. q \in Procs /\ head'[q] = head[q]
    BY <1>8, <1>9, Zenon DEF Asking
  <2>2. head[q] \in Desc
    BY HeadTaken, Zenon
  <2>3. \A i, j \in 1..3 : chain[head[q]][i] = chain[head[p]][j] => q = p /\ i = j
    BY <1>3, Zenon DEF Apart
  <2>4. \A i \in 1..3 : chain[head[q]][i] \notin freed
    BY <1>5, <1>9, <2>3, Zenon
  <2>5. head[q] # h
    <3>1. chain[head[q]][1] = head[q] /\ chain[head[p]][1] = head[p]
      BY Zenon DEF DescInv, Linked
    <3>2. head[q] # head[p]
      BY <1>9, <2>3, <3>1, OneToThree, Zenon
    <3> QED BY <3>2, Zenon
  <2> QED BY <1>7, <2>1, <2>2, <2>4, <2>5, Zenon
<1>10. \A q \in Procs : head'[q] # NoDesc <=> q \in Asking'
  BY <1>8, Zenon DEF DescInv
<1>11. ASSUME NEW q \in Asking' PROVE Linked(head[q])' /\ info'[head'[q]] = buf'[q]
  <2>1. q \in Asking /\ q # p
    BY Zenon
  <2>2. /\ head'[q] = head[q] /\ head[q] \in Desc /\ head[q] # h
        /\ chain'[head[q]] = chain[head[q]] /\ \A i \in 1..3 : chain[head[q]][i] \notin freed
    BY <1>9, <2>1, Zenon
  <2>3. /\ chain[head[q]] \in [1..3 -> Desc \ free] /\ chain[head[q]][1] = head[q]
        /\ info[head[q]] = buf[q]
    BY <2>1, Zenon DEF DescInv, Linked
  <2>4. chain[head[q]] \in [1..3 -> Desc' \ free']
    <3>1. \A i \in 1..3 : chain[head[q]][i] \in Desc' \ free'
      BY <1>1, <2>2, <2>3, Zenon
    <3> QED BY <2>3, <3>1, Zenon
  <2>5. info'[head'[q]] = buf'[q]
    BY <1>7, <2>2, <2>3, Zenon
  <2> QED BY <2>2, <2>3, <2>4, <2>5, Zenon DEF Linked
<1>12. ASSUME NEW d \in Desc' PROVE chain'[d] = <<>> \/ \E q \in Asking' : head'[q] = d
  <2>1. CASE d = h
    BY <1>7, <2>1, Zenon
  <2>2. CASE d # h
    <3>1. d \in Desc /\ chain'[d] = chain[d]
      BY <1>1, <1>7, <2>2, Zenon
    <3>2. chain[d] = <<>> \/ \E q \in Asking : head[q] = d
      BY <3>1, Zenon DEF DescInv
    <3>3. ASSUME NEW q \in Asking, head[q] = d PROVE q \in Asking' /\ head'[q] = d
      BY <1>9, <2>2, <3>3, Zenon
    <3> QED BY <3>1, <3>2, <3>3, Zenon
  <2> QED BY <2>1, <2>2, Zenon
<1>13. Apart(Asking', head', chain')
  <2>1. OneLess(Asking, head, chain, p, head', chain')
    BY <1>9, Zenon DEF OneLess
  <2>2. Apart(Asking \ {p}, head', chain')
    BY <1>3, <2>1, ApartLess, Zenon
  <2> QED BY <2>2, Zenon
<1>14. ASSUME NEW d \in Desc' PROVE d \in free' \/ \E q \in Asking', i \in 1..3 : d = chain'[head'[q]][i]
  <2>1. d \in free \/ \E q \in Asking, i \in 1..3 : d = chain[head[q]][i]
    BY <1>1, Zenon DEF DescInv
  <2>2. ASSUME NEW q \in Asking, NEW i \in 1..3, d = chain[head[q]][i]
        PROVE  d \in free' \/ \E r \in Asking', j \in 1..3 : d = chain'[head'[r]][j]
    <3>1. CASE q = p
      BY <1>5, <2>2, <3>1, Zenon
    <3>2. CASE q # p
      <4>1. q \in Asking' /\ d = chain'[head'[q]][i]
        BY <1>9, <2>2, <3>2, Zenon
      <4> QED BY <4>1, Zenon
    <3> QED BY <3>1, <3>2, Zenon
  <2> QED BY <2>1, <2>2, Zenon
<1> QED BY <1>6, <1>10, <1>11, <1>12, <1>13, <1>14, Zenon DEF DescInv

LEMMA free_chain_Inv ==
  ASSUME IoInv, NEW p \in Procs, free_chain(p) PROVE IoInv'
<1>1. /\ lru' = lru /\ blockno' = blockno /\ refcnt' = refcnt /\ locked' = locked /\ current' = current
      /\ SameRings /\ irq' = irq /\ intr' = intr /\ disk' = disk
      /\ platter' = platter /\ buf' = buf /\ write' = write /\ pinned' = pinned
      /\ pc[p] = "io done"
  BY Zenon DEF free_chain, SameRings
<1>2. PICK h : h = head[p]
  BY Zenon
<1>3. PICK b : b = buf[p]
  BY Zenon
<1>4. PICK freed : freed = Range(chain[h])
  BY Zenon
<1>5. /\ free' = free \cup freed /\ chain' = [chain EXCEPT ![h] = <<>>] /\ info' = [info EXCEPT ![h] = NoBuf]
      /\ head' = [head EXCEPT ![p] = NoDesc] /\ panicked' = (panicked \/ freed \cap free # {})
      /\ valid' = [valid EXCEPT ![b] = valid[b] \/ ~write[p]]
  BY <1>2, <1>3, <1>4, Zenon DEF free_chain
<1>6. pc[p] \in HasLock /\ pc[p] \in InIo /\ p \in Asking /\ p \notin Waiting /\ ~Writing(p) /\ Done(p)
  BY <1>1, Zenon DEF HasLock, InIo, Asking, Waiting, Writing, Done
<1>7. b \in Bufs /\ \A q \in Procs : q # p /\ pc[q] \in HasLock => buf[q] \in Bufs /\ buf[q] # b
  BY <1>3, <1>6, OwnBuffer, Zenon
<1>8. PICK at : at = IF write[p] THEN "written" ELSE "have"
  BY Zenon
<1>9. PICK S : S = AsleepOnFree(pc)
  BY Zenon
<1>10. WokeUp(p, at, S, "asleep on free", "rw")
  <2>1. at \in Labels /\ "rw" \in Labels
    BY <1>8 DEF Labels, HasLock, InIo
  <2>2. pc' = [Wake(pc, S, "rw") EXCEPT ![p] = at]
    BY <1>8, <1>9, Zenon DEF free_chain
  <2>3. Wakes(p, at, S, "asleep on free", "rw")
    BY <1>9, <2>2, Zenon DEF AsleepOnFree, Wakes
  <2> QED BY <2>1, <2>3, WakeEffect, Zenon DEF IoInv
<1>11. /\ pc' \in [Procs -> Labels] /\ pc'[p] = at
       /\ \A q \in Procs : q # p => pc'[q] = pc[q] \/ (pc[q] = "asleep on free" /\ pc'[q] = "rw")
  BY <1>10, Zenon DEF WokeUp
<1>12. \A q \in Procs : pc'[q] # "asleep on free"
  <2>1. at # "asleep on free"
    BY <1>8
  <2>2. \A q \in Procs : q # p => pc'[q] = IF pc[q] = "asleep on free" THEN "rw" ELSE pc[q]
    BY <1>9, <1>10, Zenon DEF WokeUp, AsleepOnFree
  <2>3. \A q \in Procs : q # p => pc'[q] # "asleep on free"
    BY <2>2, Zenon
  <2> QED BY <1>11, <2>1, <2>3, Zenon
<1>13. NUM' = NUM /\ Desc' = Desc /\ IDXMOD' = IDXMOD
  BY <1>1, Zenon DEF SameRings, Desc, IDXMOD
<1>14. head' \in [Procs -> Desc \cup {NoDesc}] /\ head'[p] = NoDesc /\ \A q \in Procs : q # p => head'[q] = head[q]
  BY <1>5, Zenon DEF IoInv, ProcTypes
<1>15. Heads(used)' = Heads(used)
  BY <1>1, UsedFrame, Zenon DEF SameRings
<1>16. ASSUME NEW q \in Procs, q # p PROVE SameData(q) /\ Steady(q)
  <2>1. SameProc(q) \/ Woken(q)
    BY <1>1, <1>11, <1>14, <1>16, Zenon DEF SameProc, Woken
  <2> QED BY <1>15, <2>1, SameProcData, WokenData, SteadyOther, Zenon
<1>17. /\ p \notin Asking' /\ p \notin Waiting' /\ at \in HasLock /\ at # "asleep on lock" /\ at # "idle"
       /\ pc[p] # "idle"
  BY <1>1, <1>8, <1>11, Zenon DEF Asking, Waiting, HasLock
<1>18. Asking' = Asking \ {p} /\ Waiting' = Waiting
  <2>1. \A q \in Procs : q # p => (q \in Asking' <=> q \in Asking) /\ (q \in Waiting' <=> q \in Waiting)
    BY <1>16, Zenon DEF Steady
  <2>2. Asking \subseteq Procs /\ Asking' \subseteq Procs /\ Waiting \subseteq Procs /\ Waiting' \subseteq Procs
    BY Zenon DEF Asking, Waiting
  <2>3. Asking' = Asking \ {p}
    BY <1>6, <1>17, <2>1, <2>2, Zenon
  <2>4. Waiting' = Waiting
    <3>1. \A q \in Procs : q \in Waiting' <=> q \in Waiting
      BY <1>6, <1>17, <2>1, Zenon
    <3> QED BY <3>1, Zenon DEF Waiting
  <2> QED BY <2>3, <2>4, Zenon
<1>19. DescInv' /\ freed \cap free = {} /\ freed \subseteq Desc
  BY <1>1, <1>2, <1>4, <1>5, <1>6, <1>12, <1>13, <1>18, RequestDone, Zenon DEF IoInv
<1>20. ~panicked' /\ ProcTypes'
  <2>1. ~panicked'
    BY <1>5, <1>19, Zenon DEF IoInv
  <2> QED BY <1>1, <1>11, <1>13, <1>14, <2>1, Zenon DEF IoInv, ProcTypes
<1>21. /\ valid' \in [Bufs -> BOOLEAN] /\ (valid'[b] <=> valid[b] \/ ~write[p])
       /\ \A x \in Bufs : x # b => valid'[x] = valid[x]
  BY <1>5, <1>7, Zenon DEF IoInv, BufTypes
<1>22. BufTypes'
  BY <1>1, <1>21, Zenon DEF IoInv, BufTypes
<1>23. DiskTypes'
  <2>1. free' \subseteq Desc
    BY <1>5, <1>19, Zenon DEF IoInv, DiskTypes
  <2>2. DOMAIN chain' = Desc /\ info' \in [Desc -> Bufs \cup {NoBuf}]
    BY <1>5, Zenon DEF IoInv, DiskTypes
  <2> QED BY <1>1, <1>13, <2>1, <2>2, Zenon DEF IoInv, DiskTypes, SameRings
<1>24. BufferInv'
  <2>1. \A x \in Bufs : valid[x] => valid'[x]
    BY <1>21, Zenon
  <2>2. \A j \in pinned' : \E x \in Bufs : blockno'[x] = j /\ valid'[x]
    BY <1>1, <2>1, Zenon DEF IoInv, BufferInv
  <2>3. \A x \in Bufs : refcnt'[x] = Users(x)' + Pins(x)'
    <3>1. \A x : Users(x)' = Users(x) /\ Pins(x)' = Pins(x)
      BY <1>1, Zenon DEF Users, Pins
    <3> QED BY <1>1, <3>1, Zenon DEF IoInv, BufferInv
  <2>4. \A q \in Procs : buf'[q] = NoBuf <=> pc'[q] = "idle"
    <3>1. \A q \in Procs : pc'[q] = "idle" <=> pc[q] = "idle"
      BY <1>11, <1>16, <1>17, Zenon DEF Steady
    <3> QED BY <1>1, <3>1, Zenon DEF IoInv, BufferInv
  <2>5. IsFiniteSet(pinned') /\ Cardinality(pinned') <= MaxPins
    BY <1>1, Zenon DEF IoInv, BufferInv
  <2>6. \A x \in Bufs : \E i \in DOMAIN lru' : lru'[i] = x
    BY <1>1, Zenon DEF IoInv, BufferInv
  <2>7. \A x, y \in Bufs : blockno'[x] = blockno'[y] /\ blockno'[x] # NoBlock => x = y
    BY <1>1, Zenon DEF IoInv, BufferInv
  <2>8. \A q \in Procs : buf'[q] # NoBuf => blockno'[buf'[q]] # NoBlock
    BY <1>1, Zenon DEF IoInv, BufferInv
  <2> QED BY <2>2, <2>3, <2>4, <2>5, <2>6, <2>7, <2>8, Zenon DEF BufferInv
<1>25. LockInv'
  BY <1>1, <1>6, <1>11, <1>16, <1>17, LockFrame, Zenon DEF IoInv, Steady
<1>26. RequestInv'
  <2>1. \A q \in Waiting : buf'[q] = buf[q] /\ disk'[buf[q]] = disk[buf[q]]
    BY <1>1, Zenon
  <2>2. \A q \in Waiting : head'[q] = head[q]
    BY <1>6, <1>14, Zenon DEF Waiting
  <2> QED BY <1>1, <1>18, <2>1, <2>2, RequestFrame, Zenon DEF IoInv
<1>27. DataInv'
  <2>1. /\ valid[b] <=> write[p]
        /\ current[b] /\ (write[p] => platter[blockno[b]])
    BY <1>3, <1>6, Zenon DEF IoInv, DataInv, Sees
  <2>2. valid'[b]
    BY <1>21, <2>1, Zenon
  <2>3. \A x \in Bufs : valid'[x] => current'[x]
    BY <1>1, <1>21, <2>1, Zenon DEF IoInv, DataInv
  <2>4. Sees(p)'
    BY <1>1, <1>3, <1>8, <1>11, <2>1, <2>2, Zenon DEF Sees, Done, InIo
  <2>5. ASSUME NEW q \in Procs, q # p PROVE Sees(q)'
    <3>1. pc[q] \in HasLock => /\ valid'[buf[q]] <=> valid[buf[q]]
                               /\ current[buf[q]] => current'[buf[q]]
                               /\ platter[blockno[buf[q]]] => platter'[blockno'[buf[q]]]
      BY <1>1, <1>7, <1>21, <2>5, Zenon
    <3> QED BY <1>16, <2>5, <3>1, SeesOther, Zenon DEF IoInv, DataInv
  <2>6. \A q \in Procs : Writing(q) => Writing(q)' /\ buf'[q] = buf[q]
    BY <1>6, <1>16, Zenon DEF SameData
  <2>7. \A k \in Blocks :
          platter'[k] \/ k \in pinned' \/ \E q \in Procs : Writing(q)' /\ blockno'[buf'[q]] = k
    BY <1>1, <2>6, OnItsWay, Zenon DEF IoInv
  <2> QED BY <2>3, <2>4, <2>5, <2>7, Zenon DEF DataInv
<1> QED BY <1>19, <1>20, <1>22, <1>23, <1>24, <1>25, <1>26, <1>27, Zenon DEF IoInv

-----------------------------------------------------------------------------
(* Every step keeps it. *)
LEMMA IoStutters ==
  ASSUME IoInv, UNCHANGED vars PROVE IoInv'
<1>1. UNCHANGED bufvars /\ UNCHANGED devvars /\ SameProcs /\ pinned' = pinned /\ panicked' = panicked
  BY DEF vars, SameProcs
<1>2. SameBufs /\ current' = current /\ UNCHANGED dskvars /\ platter' = platter
  BY <1>1, SameBufvars, SameDevvars, Zenon
<1>3. /\ SameRings /\ SameDescs /\ irq' = irq /\ intr' = intr /\ disk' = disk /\ NUM' = NUM
      /\ free' = free /\ chain' = chain /\ info' = info
  BY <1>1, <1>2, SameDskvars, Zenon DEF SameDescs, SameProcs, SameRings
<1>4. /\ ProcTypes' /\ ~panicked' /\ BufferInv' /\ LockInv' /\ DescInv'
      /\ Waiting' = Waiting /\ \A q \in Procs : SameProc(q)
  BY <1>1, <1>2, <1>3, QuietStep, Zenon
<1>5. BufTypes'
  BY <1>1, <1>2, <1>3, BufTypesFrame, Zenon DEF IoInv
<1>6. DiskTypes'
  BY <1>3, DiskFrame, Zenon DEF IoInv
<1>7. RequestInv'
  BY <1>1, <1>3, <1>4, RequestFrame, Zenon DEF IoInv, SameProcs
<1>8. DataInv'
  <2>1. Heads(used)' = Heads(used)
    BY <1>3, UsedFrame, Zenon DEF SameRings
  <2>2. \A q \in Procs : SameData(q)
    BY <1>4, <2>1, SameProcData, Zenon
  <2> QED BY <1>1, <1>2, <2>2, AllSame, DataFrame, Zenon DEF IoInv, SameBufs
<1> QED BY <1>4, <1>5, <1>6, <1>7, <1>8, Zenon DEF IoInv

==============================================================================
