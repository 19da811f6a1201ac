----------------------------- MODULE LogProofs -----------------------------
(***************************************************************************)
(* Proofs about Log, for any number of processes, blocks and values and    *)
(* any size of the log: its invariant is inductive, with crashes at every  *)
(* step, and the log implements AtomicDisk.                                *)
(***************************************************************************)
EXTENDS Log, SequenceTheorems, FiniteSetTheorems, FunctionTheorems, TLAPS

IInv == TypeOK /\ LogInv

-----------------------------------------------------------------------------
(* Counting the open calls. *)

LEMMA ActiveCounts ==
  ASSUME TypeOK, OpInv
  PROVE  /\ IsFiniteSet(Active) /\ outstanding \in Nat
         /\ (\E p \in Ops : p \in Active) => outstanding >= 1
<1>1. IsFiniteSet(Active)
  BY LogAssumption, FS_Subset, Zenon DEF Active
<1>2. Active # {} => Cardinality(Active) # 0
  BY <1>1, FS_EmptySet, Zenon
<1> QED BY <1>1, <1>2 DEF TypeOK, OpInv

LEMMA Joins ==
  ASSUME TypeOK, OpInv, NEW p \in Ops, p \notin Active, Active' = Active \cup {p}
  PROVE  Cardinality(Active') = outstanding + 1
  BY ActiveCounts, FS_AddElement, Zenon DEF OpInv

LEMMA Leaves ==
  ASSUME TypeOK, OpInv, NEW p \in Ops, p \in Active, Active' = Active \ {p}
  PROVE  Cardinality(Active') = outstanding - 1
  BY ActiveCounts, FS_RemoveElement, Zenon DEF OpInv

LEMMA InitInv == Init => IInv
<1> SUFFICES ASSUME Init PROVE IInv
  BY Zenon
<1> USE LogAssumption DEF Init
<1>1. TypeOK
  <2>1. <<>> \in Seq(Blocks)
    OBVIOUS
  <2>2. pc \in [Ops -> Labels] /\ mode \in Modes /\ buf \in [Ops -> Blocks \cup {NoBlock}]
    BY Zenon DEF Labels, Modes
  <2>3. cache \in [Blocks -> Vals \cup {NotCached}] /\ dlog \in [Slots -> Vals]
    BY Zenon
  <2> QED BY <2>1, <2>2, <2>3, Zenon DEF TypeOK
<1>2. OpInv
  BY FS_EmptySet, Zenon DEF OpInv, Active, CommitLabels
<1>3. HeadInv
  BY Len(<<>>) = 0 DEF HeadInv, Distinct
<1>4. CacheInv /\ DiskInv
  BY Zenon DEF CacheInv, DiskInv
<1> QED BY <1>1, <1>2, <1>3, <1>4, Zenon DEF IInv, LogInv

-----------------------------------------------------------------------------
(* What a step that is not one of commit() leaves alone. *)

Phases == {"write_log", "write_head", "install_trans", "erase", "committed"}

SamePhases == \A q \in Ops : pc'[q] = pc[q] \/ (pc'[q] \notin Phases /\ pc[q] \notin Phases)

(* A block of the transaction that is not yet installed has its buffer. *)
LEMMA InLog ==
  ASSUME IInv, mode \in {"up", "panic"}, NEW i \in 1..Len(lh), ~Installed(i)
  PROVE  lh[i] \in Blocks /\ Pending(lh[i]) /\ cache[lh[i]] # NotCached /\ pins[lh[i]] = 1
<1>1. lh[i] \in Blocks
  BY DEF IInv, TypeOK
<1>2. Pending(lh[i])
  BY Zenon DEF Pending
<1> QED BY <1>1, <1>2, Zenon DEF IInv, LogInv, CacheInv

LEMMA InstalledFrame ==
  ASSUME SamePhases, tail' = tail, NEW i
  PROVE  Installed(i)' <=> Installed(i)
  BY Zenon DEF SamePhases, Phases, Installed

LEMMA PendingFrame ==
  ASSUME SamePhases, tail' = tail, lh' = lh, NEW b
  PROVE  Pending(b)' <=> Pending(b)
<1>1. \A i : Installed(i)' <=> Installed(i)
  BY InstalledFrame, Zenon
<1> QED BY <1>1, Zenon DEF Pending

LEMMA HeadFrame ==
  ASSUME IInv, SamePhases, UNCHANGED <<dhead, lh, tail, mode>>
  PROVE  HeadInv'
  BY Zenon DEF IInv, LogInv, HeadInv, Distinct, SamePhases, Phases

LEMMA DiskFrame ==
  ASSUME IInv, SamePhases, mode = "up", UNCHANGED <<disk, dlog, dhead, lh, tail>>,
         mode' \in {"up", "panic"},
         \A i \in 1..Len(lh) :
           ~Installed(i) => cache'[lh[i]] = cache[lh[i]] \/ \A q \in Ops : pc[q] \notin Phases
  PROVE  DiskInv'
<1> USE DEF IInv, LogInv
<1>1. /\ ~(mode' \in {"recover", "erase"}) /\ mode' # "read_head"
      /\ (\A q \in Ops : pc'[q] \notin {"install_trans", "erase"}) => dhead' = <<>>
  BY Zenon DEF DiskInv, SamePhases, Phases
<1>2. ASSUME NEW q \in Ops, pc'[q] \in Phases PROVE pc'[q] = pc[q]
  BY <1>2, Zenon DEF SamePhases
<1>3. ASSUME NEW q \in Ops, pc'[q] \in {"write_log", "write_head"}, NEW i \in 1..Len(lh)
      PROVE  ~Installed(i)
  BY <1>2, <1>3, Zenon DEF OpInv, CommitLabels, Installed, Phases
<1>4. ASSUME NEW q \in Ops, pc'[q] = "write_log"
      PROVE  \A i \in 1..(tail' - 1) : dlog'[i] = cache'[lh'[i]]
  BY <1>2, <1>3, <1>4, SMTT(30) DEF DiskInv, HeadInv, Phases, TypeOK
<1>5. ASSUME NEW q \in Ops, pc'[q] = "write_head"
      PROVE  \A i \in 1..Len(lh') : dlog'[i] = cache'[lh'[i]]
  BY <1>2, <1>3, <1>5 DEF DiskInv, Phases, TypeOK
<1>6. ASSUME NEW q \in Ops, pc'[q] \in {"install_trans", "erase"}
      PROVE  /\ dhead' = lh'
             /\ \A i \in 1..Len(lh') :
                  dlog'[i] = IF Installed(i)' THEN disk'[lh'[i]] ELSE cache'[lh'[i]]
  <2>1. \A i : Installed(i)' <=> Installed(i)
    BY InstalledFrame, Zenon
  <2>2. pc[q] = pc'[q] /\ pc[q] \in Phases
    BY <1>2, <1>6, Zenon DEF Phases
  <2> QED BY <1>6, <2>1, <2>2, Zenon DEF DiskInv
<1>7. ASSUME NEW q \in Ops, pc'[q] = "committed" PROVE lh' = <<>>
  BY <1>2, <1>7, Zenon DEF DiskInv, Phases
<1> QED BY <1>1, <1>4, <1>5, <1>6, <1>7, Zenon DEF DiskInv

-----------------------------------------------------------------------------
(* The buffer cache. *)

LEMMA breadInv ==
  ASSUME IInv, NEW b \in Blocks, bread(b)
  PROVE  IInv'
<1> USE DEF IInv, LogInv, bread, diskVars, logVars, opVars
<1>1. TypeOK'
  BY Zenon DEF TypeOK
<1>2. OpInv'
  BY Zenon DEF OpInv, Active
<1>3. HeadInv'
  BY Zenon DEF HeadInv, Distinct
<1>4. CacheInv'
  BY DEF CacheInv, Pending, Installed, TypeOK
<1>5. DiskInv'
  BY InLog, DiskFrame, Zenon DEF SamePhases, TypeOK
<1> QED BY <1>1, <1>2, <1>3, <1>4, <1>5, Zenon

LEMMA RecycleInv ==
  ASSUME IInv, NEW b \in Blocks, Recycle(b)
  PROVE  IInv'
<1> USE DEF IInv, LogInv, Recycle, diskVars, logVars, opVars
<1>1. TypeOK'
  BY Zenon DEF TypeOK
<1>2. OpInv'
  BY Zenon DEF OpInv, Active
<1>3. HeadInv'
  BY DEF HeadInv, Distinct
<1>4. CacheInv'
  BY DEF CacheInv, Pending, Installed, TypeOK
<1>5. DiskInv'
  BY InLog, DiskFrame DEF SamePhases, TypeOK
<1> QED BY <1>1, <1>2, <1>3, <1>4, <1>5, Zenon

-----------------------------------------------------------------------------
(* File system calls. *)

LEMMA begin_opInv ==
  ASSUME IInv, NEW p \in Ops, begin_op(p)
  PROVE  IInv'
<1> USE DEF IInv, LogInv, begin_op, Goto, diskVars
<1>1. TypeOK'
  <2>1. pc' \in [Ops -> Labels] /\ outstanding' \in Nat
    BY SMTT(30) DEF TypeOK, Labels
  <2> QED BY <2>1, Zenon DEF TypeOK
<1>2. SamePhases
  BY Zenon DEF SamePhases, Phases, TypeOK
<1>3. OpInv'
  <2>1. CASE committing \/ LogFull
    <3>1. Active' = Active /\ outstanding' = outstanding
      BY <2>1, Zenon DEF Active, TypeOK
    <3>2. /\ \A q \in Ops : pc'[q] = IF q = p THEN "sleep" ELSE pc[q]
          /\ UNCHANGED <<buf, committing, mode>> /\ mode = "up"
      BY <2>1, Zenon DEF TypeOK
    <3> QED BY <3>1, <3>2 DEF OpInv, CommitLabels
  <2>2. CASE ~(committing \/ LogFull)
    <3>1. Active' = Active \cup {p} /\ p \notin Active /\ outstanding' = outstanding + 1
      BY <2>2, Zenon DEF Active, TypeOK
    <3>2. outstanding' = Cardinality(Active')
      BY <3>1, Joins, Zenon
    <3> QED BY <2>2, <3>1, <3>2, Zenon DEF OpInv, TypeOK, CommitLabels
  <2> QED BY <2>1, <2>2, Zenon
<1>4. HeadInv'
  BY <1>2, HeadFrame, Zenon
<1>5. CacheInv'
  BY <1>2, PendingFrame, Zenon DEF CacheInv
<1>6. DiskInv'
  BY <1>2, DiskFrame, Zenon
<1> QED BY <1>1, <1>3, <1>4, <1>5, <1>6, Zenon

LEMMA ModifyInv ==
  ASSUME IInv, NEW p \in Ops, NEW b \in Blocks, NEW v \in Vals, Modify(p, b, v)
  PROVE  IInv'
<1> USE DEF IInv, LogInv, Modify, Goto, diskVars, logVars
<1>1. TypeOK'
  BY Zenon DEF TypeOK, Labels
<1>2. SamePhases
  BY Zenon DEF SamePhases, Phases, TypeOK
<1>3. OpInv'
  BY LogAssumption, Zenon DEF OpInv, Active, CommitLabels, TypeOK
<1>4. HeadInv'
  BY <1>2, HeadFrame, Zenon
<1>5. CacheInv'
  BY <1>2, PendingFrame, LogAssumption DEF CacheInv, OpInv, TypeOK
<1>6. DiskInv'
  <2>1. \A q \in Ops : pc[q] \notin Phases
    BY Zenon DEF OpInv, Active, CommitLabels, Phases
  <2> QED BY <1>2, <2>1, DiskFrame, Zenon
<1> QED BY <1>1, <1>3, <1>4, <1>5, <1>6, Zenon

LEMMA log_writeInv ==
  ASSUME IInv, NEW p \in Ops, log_write(p)
  PROVE  IInv'
<1> USE DEF IInv, LogInv
<1>1. /\ mode = "up" /\ pc[p] = "modified" /\ buf[p] \in Blocks
      /\ ~committing /\ \A q \in Ops : pc[q] \notin CommitLabels
  BY Zenon DEF log_write, OpInv, Active, TypeOK
<1>2. SamePhases /\ \A i : ~Installed(i) /\ ~Installed(i)'
  BY <1>1, Zenon DEF log_write, Goto, SamePhases, Phases, TypeOK, Installed, CommitLabels
<1>3. CASE TooBig \/ outstanding < 1
  <2> USE <1>3 DEF log_write, diskVars
  <2>1. TypeOK'
    BY Zenon DEF TypeOK, Modes
  <2>2. OpInv' /\ HeadInv'
    BY <1>1, Zenon DEF OpInv, Active, HeadInv, Distinct
  <2>3. CacheInv'
    BY <1>1, <1>2, PendingFrame, Zenon DEF CacheInv
  <2>4. DiskInv'
    BY <1>1, <1>2, DiskFrame, Zenon
  <2> QED BY <2>1, <2>2, <2>3, <2>4, Zenon
<1>4. CASE ~(TooBig \/ outstanding < 1) /\ buf[p] \in Elems(lh)
  <2> USE <1>4 DEF log_write, diskVars, Goto
  <2>1. TypeOK'
    BY Zenon DEF TypeOK, Labels
  <2>2. OpInv'
    BY <1>1, ZenonT(40) DEF OpInv, Active, TypeOK, CommitLabels
  <2>3. HeadInv'
    BY <1>2, HeadFrame, Zenon
  <2>4. Pending(buf[p]) /\ \A b : Pending(b)' <=> Pending(b)
    BY <1>2, PendingFrame, Zenon DEF Pending, Elems
  <2>5. CacheInv'
    BY <1>1, <2>4, LogAssumption DEF CacheInv, TypeOK
  <2>6. DiskInv'
    BY <1>1, <1>2, DiskFrame, Zenon
  <2> QED BY <2>1, <2>2, <2>3, <2>5, <2>6, Zenon
<1>5. CASE ~(TooBig \/ outstanding < 1) /\ buf[p] \notin Elems(lh)
  <2> USE <1>5 DEF diskVars, Goto
  <2>1. lh' = Append(lh, buf[p]) /\ pins' = [pins EXCEPT ![buf[p]] = @ + 1]
    BY Zenon DEF log_write
  <2>0. /\ mode' = "up" /\ pc' = [pc EXCEPT ![p] = "op"] /\ buf' = [buf EXCEPT ![p] = NoBlock]
        /\ UNCHANGED <<disk, dlog, dhead, cache, outstanding, committing, tail, wrote>>
    BY <1>1, Zenon DEF log_write
  <2>2. /\ lh' \in Seq(Blocks) /\ Len(lh') = Len(lh) + 1 /\ Len(lh) < NLOG - 1
        /\ \A i \in 1..Len(lh) : lh'[i] = lh[i] /\ lh[i] # buf[p]
        /\ lh'[Len(lh) + 1] = buf[p] /\ Len(lh) \in Nat
    BY <1>1, <2>1, LogAssumption DEF TypeOK, TooBig, Elems
  <2>3. TypeOK'
    <3>1. pins' \in [Blocks -> Nat]
      BY <1>1, <2>1 DEF TypeOK
    <3>2. pc' \in [Ops -> Labels] /\ buf' \in [Ops -> Blocks \cup {NoBlock}]
      BY <2>0, Zenon DEF TypeOK, Labels
    <3> QED BY <2>0, <2>2, <3>1, <3>2, Zenon DEF TypeOK, Modes
  <2>4. OpInv'
    <3>1. Active' = Active
      BY <1>1, <2>0, Zenon DEF Active, TypeOK
    <3> QED BY <1>1, <2>0, <3>1, Zenon DEF OpInv, TypeOK, CommitLabels
  <2>5. HeadInv'
    <3>1. Distinct(lh')
      BY <2>2 DEF HeadInv, Distinct
    <3> QED BY <1>1, <2>2, <3>1, LogAssumption
            DEF log_write, HeadInv, TypeOK, CommitLabels, Distinct
  <2>6. ASSUME NEW b \in Blocks PROVE Pending(b)' <=> Pending(b) \/ b = buf[p]
    BY <1>2, <2>2 DEF Pending
  <2>7. ~Pending(buf[p])
    BY <2>2, Zenon DEF Pending
  <2>8. CacheInv'
    <3>1. cache[buf[p]] # NotCached
      BY <1>1, Zenon DEF CacheInv
    <3>2. /\ pins[buf[p]] = 0 /\ \A b \in Blocks : pins'[b] = IF b = buf[p] THEN 1 ELSE pins[b]
          /\ \A q \in Ops : q # p => buf'[q] = buf[q]
      BY <1>1, <2>0, <2>1, <2>7 DEF CacheInv, TypeOK
    <3>3. buf'[p] = NoBlock
      BY <2>0, Zenon DEF TypeOK
    <3>4. buf[p] \in Blocks /\ NoBlock \notin Blocks
      BY <1>1, LogAssumption, Zenon DEF TypeOK
    <3>5. ASSUME NEW b \in Blocks, NEW q \in Ops, buf'[q] = b PROVE q # p /\ buf[q] = b
      BY <3>2, <3>3, <3>4, <3>5, Zenon
    <3> QED BY <1>1, <2>0, <2>6, <3>1, <3>2, <3>4, <3>5 DEF CacheInv
  <2>9. DiskInv'
    BY <1>1 DEF log_write, DiskInv, CommitLabels, TypeOK
  <2> QED BY <2>3, <2>4, <2>5, <2>8, <2>9, Zenon
<1> QED BY <1>3, <1>4, <1>5, Zenon

LEMMA end_opInv ==
  ASSUME IInv, NEW p \in Ops, end_op(p)
  PROVE  IInv'
<1> USE DEF IInv, LogInv
<1>1. mode = "up" /\ pc[p] = "op" /\ p \in Active /\ ~committing /\ outstanding \in Nat \ {0}
  BY ActiveCounts DEF end_op, OpInv, Active
<1>2. /\ outstanding' = outstanding - 1 /\ wrote' = [wrote EXCEPT ![p] = {}]
      /\ UNCHANGED <<disk, dlog, dhead, cache, pins, lh, tail, buf, mode>>
  BY <1>1, Zenon DEF end_op, diskVars
<1>3. /\ \A q \in Ops : pc[q] \notin CommitLabels
      /\ buf[p] = NoBlock
  BY <1>1, Zenon DEF OpInv
<1>4. CASE outstanding' = 0
  <2>1. committing' = TRUE /\ pc' = [pc EXCEPT ![p] = "commit"]
    BY <1>1, <1>4, Zenon DEF end_op, Goto
  <2>2. Active' = Active \ {p}
    BY <2>1, Zenon DEF Active, TypeOK
  <2>3. Cardinality(Active') = 0 /\ Active' = {}
    <3>1. Cardinality(Active') = 0
      BY <1>1, <1>2, <1>4, <2>2, Leaves, Zenon
    <3>2. IsFiniteSet(Active')
      BY <2>2, FS_Subset, ActiveCounts, Zenon
    <3> QED BY <3>1, <3>2, FS_EmptySet, Zenon
  <2>4. SamePhases
    BY <1>1, <2>1, Zenon DEF SamePhases, Phases, TypeOK
  <2>5. TypeOK'
    BY <1>1, <1>2, <2>1 DEF TypeOK, Labels
  <2>6. OpInv'
    BY <1>1, <1>2, <1>3, <1>4, <2>1, <2>3, Zenon DEF OpInv, TypeOK
  <2>7. HeadInv'
    BY <1>2, <2>4, HeadFrame, Zenon
  <2>8. CacheInv'
    BY <1>2, <2>4, PendingFrame, Zenon DEF CacheInv
  <2>9. DiskInv'
    BY <1>1, <1>2, <2>4, DiskFrame, Zenon
  <2> QED BY <2>5, <2>6, <2>7, <2>8, <2>9, Zenon
<1>5. CASE outstanding' # 0
  <2>1. committing' = committing /\ WakeupLog(p, "user")
    BY <1>1, <1>5, Zenon DEF end_op
  <2>2. Active' = Active \ {p}
    BY <2>1, Zenon DEF Active, WakeupLog
  <2>3. Cardinality(Active') = outstanding'
    BY <1>1, <1>2, <2>2, Leaves, Zenon
  <2>4. SamePhases
    BY <1>1, <2>1, Zenon DEF SamePhases, Phases, WakeupLog
  <2>5. TypeOK'
    BY <1>1, <1>2, <2>1 DEF TypeOK, Labels, WakeupLog
  <2>6. OpInv'
    BY <1>1, <1>2, <1>3, <2>1, <2>3, Zenon DEF OpInv, WakeupLog, CommitLabels
  <2>7. HeadInv'
    BY <1>2, <2>4, HeadFrame, Zenon
  <2>8. CacheInv'
    BY <1>2, <2>4, PendingFrame, Zenon DEF CacheInv
  <2>9. DiskInv'
    BY <1>1, <1>2, <2>4, DiskFrame, Zenon
  <2> QED BY <2>5, <2>6, <2>7, <2>8, <2>9, Zenon
<1> QED BY <1>4, <1>5, Zenon

-----------------------------------------------------------------------------
(* commit(): the process that commits is alone. *)

LEMMA Alone ==
  ASSUME IInv, NEW p \in Ops, pc[p] \in CommitLabels
  PROVE  /\ committing /\ Active = {} /\ outstanding = 0
         /\ \A q \in Ops : q # p => pc[q] \notin CommitLabels \cup {"op", "modified"}
         /\ \A q \in Ops : buf[q] = NoBlock
  BY FS_EmptySet, Zenon DEF IInv, LogInv, OpInv, Active, CommitLabels

(* A step of the committing process to another label of commit(). *)
LEMMA CommitOpInv ==
  ASSUME IInv, NEW p \in Ops, pc[p] \in CommitLabels, NEW l \in CommitLabels,
         pc' = pc \/ pc' = [pc EXCEPT ![p] = l], mode = "up",
         UNCHANGED <<outstanding, committing, mode, buf>>
  PROVE  OpInv'
<1>1. /\ committing /\ Active = {}
      /\ \A q \in Ops : q # p => pc[q] \notin CommitLabels \cup {"op", "modified"}
      /\ \A q \in Ops : buf[q] = NoBlock
  BY Alone, Zenon
<1>2. \A q \in Ops : q # p => pc'[q] = pc[q]
  BY Zenon DEF IInv, TypeOK
<1>3. pc'[p] \in CommitLabels
  BY Zenon DEF IInv, TypeOK
<1>4. Active' = {}
  BY <1>1, <1>2, <1>3, Zenon DEF Active, CommitLabels
<1> QED BY <1>1, <1>2, <1>3, <1>4, Zenon DEF IInv, LogInv, OpInv, CommitLabels

LEMMA commitInv ==
  ASSUME IInv, NEW p \in Ops, commit(p)
  PROVE  IInv'
<1> USE DEF IInv, LogInv, commit, Goto, diskVars, logVars
<1>1. /\ mode = "up" /\ pc[p] = "commit" /\ Len(lh) \in Nat
      /\ \A q \in Ops : q # p => pc[q] \notin CommitLabels
      /\ \A q \in Ops : pc'[q] = IF q # p THEN pc[q]
                                 ELSE IF Len(lh) > 0 THEN "write_log" ELSE "committed"
  BY Alone DEF TypeOK, CommitLabels
<1>2. TypeOK'
  BY Zenon DEF TypeOK, Labels
<1>3. OpInv'
  BY CommitOpInv, Zenon DEF CommitLabels
<1>4. HeadInv'
  BY <1>1 DEF HeadInv, Distinct, CommitLabels
<1>5. \A i : ~Installed(i) /\ ~Installed(i)'
  BY <1>1 DEF Installed, CommitLabels
<1>6. \A b : Pending(b)' <=> Pending(b)
  BY <1>5, Zenon DEF Pending
<1>7. CacheInv'
  BY <1>6, Zenon DEF CacheInv
<1>8. DiskInv'
  <2>1. tail = 1 /\ dhead = <<>>
    BY <1>1, Zenon DEF HeadInv, DiskInv, CommitLabels
  <2>2. Len(lh) = 0 => lh = <<>>
    BY EmptySeq, Zenon DEF TypeOK
  <2> QED BY <1>1, <2>1, <2>2, SMTT(30) DEF DiskInv, CommitLabels
<1> QED BY <1>2, <1>3, <1>4, <1>7, <1>8, Zenon

(* The block that the loops of write_log() and install_trans() are at. *)
LEMMA LoopBlock ==
  ASSUME IInv, NEW p \in Ops, pc[p] \in {"write_log", "install_trans"}, mode = "up"
  PROVE  /\ tail \in 1..Len(lh) /\ Len(lh) \in Nat /\ ~Installed(tail)
         /\ lh[tail] \in Blocks /\ cache[lh[tail]] # NotCached /\ pins[lh[tail]] = 1
         /\ pc[p] = "install_trans" => dlog[tail] = cache[lh[tail]]
         /\ \A q \in Ops : q # p => pc[q] \notin CommitLabels
<1>1. tail \in 1..Len(lh) /\ Len(lh) \in Nat
  BY SMTT(30) DEF IInv, LogInv, TypeOK, HeadInv
<1>2. \A q \in Ops : q # p => pc[q] \notin CommitLabels
  BY Alone, Zenon DEF CommitLabels
<1>3. ~Installed(tail)
  BY <1>1, <1>2 DEF Installed, CommitLabels
<1>4. pc[p] = "install_trans" => dlog[tail] = cache[lh[tail]]
  BY <1>1, <1>3, Zenon DEF IInv, LogInv, DiskInv
<1> QED BY <1>1, <1>2, <1>3, <1>4, InLog, Zenon

LEMMA write_logInv ==
  ASSUME IInv, NEW p \in Ops, write_log(p)
  PROVE  IInv'
<1> USE DEF IInv, LogInv
<1>1. /\ mode = "up" /\ pc[p] = "write_log" /\ tail \in 1..Len(lh) /\ Len(lh) \in Nat
      /\ \A q \in Ops : q # p => pc[q] \notin CommitLabels
      /\ UNCHANGED <<disk, dhead, pins, lh, outstanding, committing, mode, buf, wrote>>
  BY LoopBlock, Zenon DEF write_log
<1>2. \A i : ~Installed(i)
  BY <1>1, Zenon DEF Installed, CommitLabels
<1>3. lh[tail] \in Blocks /\ cache[lh[tail]] # NotCached
  BY <1>1, LoopBlock, Zenon
<1>4. cache' = cache /\ dlog' = [dlog EXCEPT ![tail] = cache[lh[tail]]]
  BY <1>3, Zenon DEF write_log, Contents, TypeOK
<1>5. /\ \/ tail < Len(lh) /\ tail' = tail + 1 /\ pc' = pc
         \/ tail = Len(lh) /\ tail' = 1 /\ pc' = [pc EXCEPT ![p] = "write_head"]
      /\ \A q \in Ops : q # p => pc'[q] = pc[q]
      /\ tail' \in 1..Len(lh)
  BY <1>1 DEF write_log, Turn, Goto, TypeOK
<1>6. TypeOK'
  <2>1. dlog' \in [Slots -> Vals]
    BY <1>3, <1>4, Zenon DEF TypeOK
  <2>2. pc' \in [Ops -> Labels]
    BY <1>5, Zenon DEF TypeOK, Labels
  <2>3. tail' \in Nat
    BY <1>5
  <2> QED BY <1>1, <1>4, <2>1, <2>2, <2>3, Zenon DEF TypeOK
<1>7. OpInv'
  BY <1>1, <1>5, CommitOpInv, Zenon DEF CommitLabels
<1>8. pc'[p] \in {"write_log", "write_head"}
  BY <1>1, <1>5, Zenon DEF TypeOK
<1>9. HeadInv'
  BY <1>1, <1>5, <1>8, Zenon DEF HeadInv, Distinct, TypeOK
<1>10. \A i : ~Installed(i)'
  BY <1>1, <1>5, <1>8, Zenon DEF Installed, CommitLabels
<1>11. \A b : Pending(b)' <=> Pending(b)
  BY <1>1, <1>2, <1>10, Zenon DEF Pending
<1>12. CacheInv'
  BY <1>1, <1>4, <1>11, Zenon DEF CacheInv
<1>13. DiskInv'
  <2>1. dhead' = <<>>
    BY <1>1, Zenon DEF DiskInv, CommitLabels
  <2>2. \A i \in 1..tail : dlog'[i] = cache[lh[i]]
    <3>1. tail \in Slots /\ \A i \in 1..tail : i \in Slots
      BY <1>1, LogAssumption DEF HeadInv, Slots
    <3> QED BY <1>1, <1>4, <3>1 DEF DiskInv, TypeOK
  <2>3. pc'[p] = "write_log" => tail' = tail + 1
    BY <1>5, Zenon DEF TypeOK
  <2>4. pc'[p] = "write_head" => tail = Len(lh)
    BY <1>1, <1>5, Zenon
  <2>5. pc'[p] = "write_log" => \A i \in 1..(tail' - 1) : dlog'[i] = cache'[lh'[i]]
    BY <1>1, <1>4, <2>2, <2>3
  <2>6. pc'[p] = "write_head" => \A i \in 1..Len(lh') : dlog'[i] = cache'[lh'[i]]
    BY <1>1, <1>4, <2>2, <2>4, Zenon
  <2>7. \A q \in Ops : pc'[q] \in CommitLabels => q = p
    BY <1>1, <1>5, Zenon
  <2> QED BY <1>1, <1>8, <2>1, <2>5, <2>6, <2>7, Zenon DEF DiskInv, CommitLabels
<1> QED BY <1>6, <1>7, <1>9, <1>12, <1>13, Zenon

LEMMA write_headInv ==
  ASSUME IInv, NEW p \in Ops, write_head(p)
  PROVE  IInv'
<1> USE DEF IInv, LogInv
<1>1. /\ mode = "up" /\ pc[p] = "write_head" /\ dhead' = lh
      /\ \A q \in Ops : q # p => pc[q] \notin CommitLabels
      /\ UNCHANGED <<disk, dlog, cache, pins, lh, outstanding, committing, tail, mode, buf, wrote>>
  BY Alone, Zenon DEF write_head, logVars, CommitLabels
<1>2. pc' = [pc EXCEPT ![p] = "install_trans"]
  BY Zenon DEF write_head, Goto
<1>3. \A q \in Ops : pc'[q] = IF q = p THEN "install_trans" ELSE pc[q]
  BY <1>2, Zenon DEF TypeOK
<1>4. TypeOK'
  BY <1>1, <1>2, Zenon DEF TypeOK, Labels
<1>5. OpInv'
  BY <1>1, <1>2, CommitOpInv, Zenon DEF CommitLabels
<1>6. tail = 1 /\ tail \in 1..Len(lh)
  BY <1>1, Zenon DEF HeadInv, CommitLabels
<1>7. HeadInv'
  BY <1>1, <1>3, <1>6 DEF HeadInv, Distinct, CommitLabels
<1>8. \A i \in 1..Len(lh) : ~Installed(i) /\ ~Installed(i)'
  BY <1>1, <1>3, <1>6 DEF Installed, CommitLabels
<1>9. \A b : Pending(b)' <=> Pending(b)
  BY <1>1, <1>8, Zenon DEF Pending
<1>10. CacheInv'
  BY <1>1, <1>9, Zenon DEF CacheInv
<1>11. DiskInv'
  <2>1. \A q \in Ops : pc'[q] \in CommitLabels => q = p
    BY <1>1, <1>3, Zenon
  <2>2. \A i \in 1..Len(lh) : dlog[i] = cache[lh[i]]
    BY <1>1, Zenon DEF DiskInv
  <2> QED BY <1>1, <1>3, <1>8, <2>1, <2>2, Zenon DEF DiskInv, CommitLabels
<1> QED BY <1>4, <1>5, <1>7, <1>10, <1>11, Zenon

LEMMA install_transInv ==
  ASSUME IInv, NEW p \in Ops, install_trans(p)
  PROVE  IInv'
<1> USE DEF IInv, LogInv
<1> DEFINE b == lh[tail]
<1>1. /\ mode = "up" /\ pc[p] = "install_trans" /\ tail \in 1..Len(lh) /\ Len(lh) \in Nat
      /\ \A q \in Ops : q # p => pc[q] \notin CommitLabels
      /\ UNCHANGED <<dlog, dhead, lh, outstanding, committing, mode, buf, wrote>>
  BY LoopBlock, Zenon DEF install_trans
<1>2. /\ \/ tail < Len(lh) /\ tail' = tail + 1 /\ pc' = pc
         \/ tail = Len(lh) /\ tail' = 1 /\ pc' = [pc EXCEPT ![p] = "erase"]
      /\ \A q \in Ops : q # p => pc'[q] = pc[q]
      /\ tail' \in 1..Len(lh)
  BY <1>1, SMTT(30) DEF install_trans, Turn, Goto, TypeOK
<1>3. ~Installed(tail)
  BY <1>1, LoopBlock, Zenon
<1>4. b \in Blocks /\ cache[b] # NotCached /\ pins[b] = 1 /\ dlog[tail] = cache[b]
  BY <1>1, LoopBlock, Zenon
<1>5. /\ cache' = cache
      /\ disk' = [disk EXCEPT ![b] = cache[b]]
      /\ pins' = [pins EXCEPT ![b] = 0]
  BY <1>4 DEF install_trans, TypeOK
<1>6. TypeOK'
  <2>1. disk' \in [Blocks -> Vals] /\ pins' \in [Blocks -> Nat]
    BY <1>4, <1>5, Zenon DEF TypeOK
  <2>2. pc' \in [Ops -> Labels]
    BY <1>2, Zenon DEF TypeOK, Labels
  <2>3. tail' \in Nat
    BY <1>2
  <2> QED BY <1>1, <1>5, <2>1, <2>2, <2>3, Zenon DEF TypeOK
<1>7. OpInv'
  BY <1>1, <1>2, CommitOpInv, Zenon DEF CommitLabels
<1>8. pc'[p] \in {"install_trans", "erase"}
  BY <1>1, <1>2, Zenon DEF TypeOK
<1>9. HeadInv'
  BY <1>1, <1>2, <1>8, Zenon DEF HeadInv, Distinct, TypeOK, CommitLabels
<1>10. \A i \in 1..Len(lh) : Installed(i)' <=> Installed(i) \/ i = tail
  <2>1. \A i \in 1..Len(lh) : Installed(i) <=> i < tail
    BY <1>1, Zenon DEF Installed, CommitLabels
  <2>2. CASE tail < Len(lh)
    <3>1. \A i \in 1..Len(lh) : Installed(i)' <=> i < tail + 1
      BY <1>1, <1>2, <2>2 DEF Installed, CommitLabels
    <3> QED BY <1>1, <2>1, <3>1
  <2>3. CASE tail = Len(lh)
    <3>1. pc'[p] = "erase"
      BY <1>2, <2>3 DEF TypeOK
    <3>2. \A i \in 1..Len(lh) : Installed(i)'
      BY <3>1, Zenon DEF Installed
    <3> QED BY <1>1, <2>1, <2>3, <3>2
  <2> QED BY <1>1, <2>2, <2>3
<1>11. \A c \in Blocks : Pending(c)' <=> Pending(c) /\ c # b
  BY <1>1, <1>10, Zenon DEF Pending, HeadInv, Distinct
<1>12. CacheInv'
  <2>1. \A c \in Blocks : c # b => disk'[c] = disk[c] /\ pins'[c] = pins[c]
    BY <1>4, <1>5, Zenon DEF TypeOK
  <2>2. disk'[b] = cache[b] /\ pins'[b] = 0
    BY <1>4, <1>5, Zenon DEF TypeOK
  <2>3. Pending(b)
    BY <1>1, <1>3, Zenon DEF Pending
  <2>4. \A q \in Ops : buf'[q] = NoBlock
    BY <1>1, Alone, Zenon DEF CommitLabels
  <2>5. ASSUME NEW c \in Blocks
        PROVE  /\ pins'[c] = IF Pending(c)' THEN 1 ELSE 0
               /\ Pending(c)' \/ (\E q \in Ops : buf'[q] = c) => cache'[c] # NotCached
               /\ cache'[c] \in {NotCached, disk'[c]} \/ Pending(c)'
    BY <1>1, <1>4, <1>5, <1>11, <2>1, <2>2, <2>3, <2>4, LogAssumption, SMTT(30) DEF CacheInv
  <2> QED BY <1>1, <2>5, Zenon DEF CacheInv
<1>13. DiskInv'
  <2>1. \A q \in Ops : pc'[q] \in CommitLabels => q = p
    BY <1>1, <1>2, Zenon
  <2>2. dhead' = lh'
    BY <1>1, Zenon DEF DiskInv
  <2>3. ASSUME NEW i \in 1..Len(lh)
        PROVE  dlog'[i] = IF Installed(i)' THEN disk'[lh'[i]] ELSE cache'[lh'[i]]
    <3>1. dlog[i] = IF Installed(i) THEN disk[lh[i]] ELSE cache[lh[i]]
      BY <1>1, Zenon DEF DiskInv
    <3>2. i # tail => lh[i] # b /\ lh[i] \in Blocks
      BY <1>1, SMTT(30) DEF HeadInv, Distinct, TypeOK
    <3> QED BY <1>1, <1>4, <1>5, <1>10, <3>1, <3>2, Zenon DEF TypeOK
  <2> QED BY <1>1, <1>8, <2>1, <2>2, <2>3, Zenon DEF DiskInv, CommitLabels
<1> QED BY <1>6, <1>7, <1>9, <1>12, <1>13, Zenon

LEMMA EraseHeadInv ==
  ASSUME IInv, NEW p \in Ops, EraseHead(p)
  PROVE  IInv'
<1> USE DEF IInv, LogInv
<1>1. /\ mode = "up" /\ pc[p] = "erase" /\ dhead' = <<>> /\ lh' = <<>>
      /\ \A q \in Ops : q # p => pc[q] \notin CommitLabels
      /\ UNCHANGED <<disk, dlog, cache, pins, outstanding, committing, tail, mode, buf, wrote>>
  BY Alone, Zenon DEF EraseHead, CommitLabels
<1>2. pc' = [pc EXCEPT ![p] = "committed"]
  BY Zenon DEF EraseHead, Goto
<1>3. \A q \in Ops : pc'[q] = IF q = p THEN "committed" ELSE pc[q]
  BY <1>2, Zenon DEF TypeOK
<1>4. lh' \in Seq(Blocks) /\ dhead' \in Seq(Blocks) /\ Len(lh') = 0 /\ Len(dhead') = 0
  BY <1>1
<1>5. TypeOK'
  BY <1>1, <1>2, <1>4, Zenon DEF TypeOK, Labels
<1>6. OpInv'
  BY <1>1, <1>2, CommitOpInv, Zenon DEF CommitLabels
<1>7. HeadInv'
  BY <1>1, <1>3, <1>4, LogAssumption, SMTT(30) DEF HeadInv, Distinct, CommitLabels
<1>8. \A b : ~Pending(b) /\ ~Pending(b)'
  BY <1>1, <1>4 DEF Pending, Installed
<1>9. CacheInv'
  BY <1>1, <1>8, Zenon DEF CacheInv
<1>10. DiskInv'
  <2>1. \A q \in Ops : pc'[q] \in CommitLabels => q = p
    BY <1>1, <1>3, Zenon
  <2> QED BY <1>1, <1>3, <2>1, Zenon DEF DiskInv, CommitLabels
<1> QED BY <1>5, <1>6, <1>7, <1>9, <1>10, Zenon

LEMMA EndCommitInv ==
  ASSUME IInv, NEW p \in Ops, EndCommit(p)
  PROVE  IInv'
<1> USE DEF IInv, LogInv
<1>1. /\ mode = "up" /\ pc[p] = "committed" /\ committing' = FALSE
      /\ \A q \in Ops : q # p => pc[q] \notin CommitLabels \cup {"op", "modified"}
      /\ \A q \in Ops : buf[q] = NoBlock
      /\ UNCHANGED <<disk, dlog, dhead, cache, pins, lh, outstanding, tail, mode, buf, wrote>>
  BY Alone, Zenon DEF EndCommit, diskVars, CommitLabels
<1>2. pc' = [q \in Ops |-> IF q = p THEN "user" ELSE IF pc[q] = "sleep" THEN "begin" ELSE pc[q]]
  BY Zenon DEF EndCommit, WakeupLog
<1>3. TypeOK'
  BY <1>1, <1>2, Zenon DEF TypeOK, Labels
<1>4. Active' = Active
  BY <1>1, <1>2, Zenon DEF Active
<1>5. \A q \in Ops : pc'[q] \notin CommitLabels \cup {"modified"}
  BY <1>1, <1>2, Zenon DEF CommitLabels
<1>6. OpInv'
  BY <1>1, <1>4, <1>5, Zenon DEF OpInv
<1>7. HeadInv'
  BY <1>1, <1>5, Zenon DEF HeadInv, Distinct, CommitLabels
<1>8. lh = <<>> /\ Len(lh) = 0
  BY <1>1, Zenon DEF DiskInv
<1>9. \A b : ~Pending(b) /\ ~Pending(b)'
  BY <1>1, <1>8 DEF Pending
<1>10. CacheInv'
  BY <1>1, <1>9, Zenon DEF CacheInv
<1>11. DiskInv'
  BY <1>1, <1>5, Zenon DEF DiskInv, CommitLabels
<1> QED BY <1>3, <1>6, <1>7, <1>10, <1>11, Zenon

-----------------------------------------------------------------------------
(* Crash and recovery. *)

LEMMA CrashInv == ASSUME IInv, Crash PROVE IInv'
<1> USE LogAssumption DEF IInv, LogInv, Crash, diskVars
<1>1. lh' \in Seq(Blocks) /\ Len(lh') = 0
  OBVIOUS
<1>2. TypeOK'
  BY <1>1, Zenon DEF TypeOK, Labels, Modes
<1>3. OpInv'
  BY FS_EmptySet, Zenon DEF OpInv, Active, CommitLabels
<1>4. HeadInv'
  BY <1>1, SMTT(30) DEF HeadInv, Distinct
<1>5. CacheInv' /\ DiskInv'
  BY Zenon DEF CacheInv, DiskInv
<1> QED BY <1>2, <1>3, <1>4, <1>5, Zenon

LEMMA RecoverInv == ASSUME IInv, recover_from_log PROVE IInv'
<1> USE DEF IInv, LogInv
<1>1. /\ mode \in {"read_head", "recover", "erase"} /\ ~committing
      /\ \A p \in Ops : pc[p] = "user"
      /\ UNCHANGED <<dlog, pins, outstanding, committing, pc, buf, wrote>>
  BY Zenon DEF recover_from_log, read_head, RecoverBlock, RecoverErase, diskVars, opVars, OpInv
<1>2. OpInv'
  BY <1>1, Zenon DEF OpInv, Active, CommitLabels
<1>3. CASE read_head
  <2> USE <1>3 DEF read_head, diskVars, opVars
  <2>1. Len(dhead) \in Nat
    BY DEF TypeOK
  <2>2. TypeOK'
    BY Zenon DEF TypeOK, Modes
  <2>3. tail = 1
    BY <1>1, Zenon DEF HeadInv
  <2>4. HeadInv'
    BY <1>1, <2>1, <2>3, SMTT(30) DEF HeadInv, Distinct
  <2>5. CacheInv'
    BY Zenon DEF CacheInv
  <2>6. DiskInv'
    BY <1>1, <2>1, <2>3 DEF DiskInv
  <2> QED BY <1>2, <2>2, <2>4, <2>5, <2>6, Zenon
<1>4. CASE RecoverBlock
  <2> DEFINE b == lh[tail]
  <2>1. /\ mode = "recover" /\ tail \in 1..Len(lh) /\ Len(lh) \in Nat
        /\ UNCHANGED <<dlog, dhead, lh>>
        /\ cache' = [cache EXCEPT ![b] = dlog[tail]] /\ disk' = [disk EXCEPT ![b] = dlog[tail]]
    BY <1>4 DEF RecoverBlock, HeadInv, TypeOK
  <2>2. \/ tail < Len(lh) /\ tail' = tail + 1 /\ mode' = "recover"
        \/ tail = Len(lh) /\ tail' = 1 /\ mode' = "erase"
    BY <1>4, <2>1, SMTT(30) DEF RecoverBlock
  <2>3. b \in Blocks /\ dlog[tail] \in Vals /\ tail' \in Nat
    BY <2>1, <2>2, LogAssumption, SMTT(30) DEF TypeOK, HeadInv, Slots
  <2>4. TypeOK'
    BY <1>1, <2>1, <2>2, <2>3, Zenon DEF TypeOK, Modes
  <2>5. HeadInv'
    BY <1>1, <2>1, <2>2, SMTT(30) DEF HeadInv, Distinct
  <2>6. CacheInv'
    BY <1>1, <2>1, <2>2, <2>3, Zenon DEF CacheInv, TypeOK
  <2>7. \A i \in 1..tail : disk'[lh[i]] = dlog[i]
    <3>1. \A i \in 1..(tail - 1) : disk[lh[i]] = dlog[i] /\ lh[i] \in Blocks
      BY <2>1 DEF DiskInv, TypeOK
    <3>2. \A i \in 1..(tail - 1) : lh[i] # b
      BY <2>1, SMTT(30) DEF HeadInv, Distinct
    <3> QED BY <2>1, <2>3, <3>1, <3>2, SMTT(30) DEF TypeOK
  <2>8. DiskInv'
    BY <1>1, <2>1, <2>2, <2>7 DEF DiskInv
  <2> QED BY <1>2, <2>4, <2>5, <2>6, <2>8, Zenon
<1>5. CASE RecoverErase
  <2> USE <1>5 DEF RecoverErase, opVars
  <2>1. lh' = <<>> /\ Len(lh') = 0 /\ dhead' = <<>> /\ lh' \in Seq(Blocks)
    OBVIOUS
  <2>2. TypeOK'
    BY <2>1, Zenon DEF TypeOK, Modes
  <2>3. HeadInv'
    BY <1>1, <2>1, LogAssumption DEF HeadInv, Distinct
  <2>4. \A b : ~Pending(b)'
    BY <2>1 DEF Pending
  <2>5. \A q \in Ops : buf[q] = NoBlock
    BY <1>1, Zenon DEF OpInv
  <2>6. CacheInv'
    BY <1>1, <2>4, <2>5, LogAssumption, SMTT(30) DEF CacheInv
  <2>7. DiskInv'
    BY <1>1, <2>1, Zenon DEF DiskInv
  <2> QED BY <1>2, <2>2, <2>3, <2>6, <2>7, Zenon
<1> QED BY <1>3, <1>4, <1>5, Zenon DEF recover_from_log

LEMMA StutterInv == IInv /\ UNCHANGED vars => IInv'
<1> SUFFICES ASSUME IInv, UNCHANGED vars PROVE IInv'
  BY Zenon
<1> USE DEF vars, diskVars, logVars, opVars, IInv, LogInv
<1>1. TypeOK'
  BY Zenon DEF TypeOK
<1>2. OpInv'
  BY Zenon DEF OpInv, Active
<1>3. HeadInv'
  BY Zenon DEF HeadInv, Distinct
<1>4. CacheInv'
  BY SMTT(30) DEF CacheInv, Pending, Installed
<1>5. DiskInv'
  BY DEF DiskInv, Installed
<1> QED BY <1>1, <1>2, <1>3, <1>4, <1>5, Zenon

LEMMA InvStep == IInv /\ [Next]_vars => IInv'
<1> SUFFICES ASSUME IInv, [Next]_vars PROVE IInv'
  BY Zenon
<1>1. CASE Next
  BY <1>1, CrashInv, RecoverInv, breadInv, RecycleInv, begin_opInv, ModifyInv, log_writeInv,
     end_opInv, commitInv, write_logInv, write_headInv, install_transInv, EraseHeadInv,
     EndCommitInv, Zenon DEF Next, OpStep, CommitStep
<1> QED BY <1>1, StutterInv, Zenon

(* The invariant of the log: who holds what in each phase of commit() and   *)
(* of the recovery, whatever calls overlap and wherever the machine stops.  *)
THEOREM LogCorrect == Spec => [](TypeOK /\ LogInv)
<1>1. IInv <=> TypeOK /\ LogInv
  BY Zenon DEF IInv
<1> QED BY <1>1, InitInv, InvStep, PTL DEF Spec

-----------------------------------------------------------------------------
(* The log is empty between commits. *)

QuietInv == mode = "up" /\ outstanding = 0 /\ ~committing => lh = <<>>

LEMMA QuietStep == IInv /\ QuietInv /\ [Next]_vars => QuietInv'
<1> SUFFICES ASSUME IInv, QuietInv, [Next]_vars PROVE QuietInv'
  BY Zenon
<1> USE DEF QuietInv
<1>1. CASE Crash \/ recover_from_log
  BY <1>1, Zenon DEF Crash, recover_from_log, read_head, RecoverBlock, RecoverErase
<1>2. ASSUME NEW b \in Blocks, bread(b) \/ Recycle(b) PROVE QuietInv'
  BY <1>2, Zenon DEF bread, Recycle, logVars
<1>3. ASSUME NEW p \in Ops, begin_op(p) PROVE QuietInv'
  BY <1>3, SMTT(30) DEF begin_op, IInv, TypeOK
<1>4. ASSUME NEW p \in Ops, NEW b \in Blocks, NEW v \in Vals, Modify(p, b, v) PROVE QuietInv'
  BY <1>4, Zenon DEF Modify, logVars
<1>5. ASSUME NEW p \in Ops, log_write(p) PROVE QuietInv'
  <2>1. outstanding >= 1 /\ outstanding' = outstanding
    BY <1>5, ActiveCounts, Zenon DEF log_write, IInv, LogInv, Active
  <2> QED BY <2>1, ActiveCounts DEF IInv, LogInv
<1>6. ASSUME NEW p \in Ops, end_op(p) PROVE QuietInv'
  BY <1>6, Zenon DEF end_op
<1>7. ASSUME NEW p \in Ops, CommitStep(p) PROVE QuietInv'
  <2>1. CASE EndCommit(p)
    BY <2>1, Zenon DEF EndCommit, IInv, LogInv, DiskInv
  <2>2. CASE ~EndCommit(p)
    <3>1. pc[p] \in CommitLabels /\ committing' = committing
      BY <1>7, <2>2, Zenon DEF CommitStep, commit, write_log, write_head, install_trans, EraseHead,
                        logVars, CommitLabels
    <3> QED BY <3>1, Alone, Zenon
  <2> QED BY <2>1, <2>2, Zenon
<1>8. CASE UNCHANGED vars
  BY <1>8, Zenon DEF vars, logVars
<1> QED BY <1>1, <1>2, <1>3, <1>4, <1>5, <1>6, <1>7, <1>8, Zenon DEF Next, OpStep

LEMMA QuietCorrect == Spec => []QuietInv
<1>1. Init => QuietInv
  BY Zenon DEF Init, QuietInv
<1>2. TypeOK /\ LogInv => IInv
  BY Zenon DEF IInv
<1> QED BY <1>1, <1>2, LogCorrect, QuietStep, PTL DEF Spec

(* After the commit of the last call, and after recovery, what the kernel   *)
(* reads is what it would find after a crash.                               *)
THEOREM QuietDurable == Spec => []QuietIsDurable
<1>1. TypeOK /\ LogInv /\ QuietInv => QuietIsDurable
  <2> SUFFICES ASSUME TypeOK, LogInv, QuietInv, mode = "up", outstanding = 0, ~committing
               PROVE  Visible = Durable
    BY Zenon DEF QuietIsDurable
  <2>1. lh = <<>> /\ Len(lh) = 0 /\ \A p \in Ops : pc[p] \notin CommitLabels
    BY Zenon DEF QuietInv, LogInv, OpInv
  <2>2. dhead = <<>> /\ Len(dhead) = 0
    BY <2>1, Zenon DEF LogInv, DiskInv, CommitLabels
  <2>3. Active = {}
    <3>1. ~\E p \in Ops : p \in Active
      BY ActiveCounts DEF LogInv
    <3> QED BY <3>1, Zenon DEF Active
  <2>4. \A p \in Ops : buf[p] = NoBlock
    BY <2>3, Zenon DEF LogInv, OpInv, Active
  <2>5. ASSUME NEW b \in Blocks PROVE Contents(b) = disk[b]
    BY <2>1, <2>4, LogAssumption DEF LogInv, CacheInv, Pending, Contents
  <2> QED BY <2>2, <2>5 DEF Visible, Durable
<1> QED BY <1>1, LogCorrect, QuietCorrect, PTL

-----------------------------------------------------------------------------
(* The log implements AtomicDisk, and the reservation of begin_op() keeps it *)
(* from overflowing.                                                         *)

(* What a crash would leave, block by block. *)

DurableFacts ==
  /\ Durable \in [Blocks -> Vals]
  /\ \A i \in 1..Len(dhead) : Durable[dhead[i]] = dlog[i]
  /\ \A b \in Blocks : (\A i \in 1..Len(dhead) : dhead[i] # b) => Durable[b] = disk[b]

LEMMA DurableByBlock == IInv => DurableFacts
<1> SUFFICES ASSUME IInv PROVE DurableFacts
  BY Zenon
<1>1. ASSUME NEW i \in 1..Len(dhead)
      PROVE  Durable[dhead[i]] = dlog[i] /\ dlog[i] \in Vals /\ dhead[i] \in Blocks
  <2>1. dhead[i] \in Blocks /\ dlog[i] \in Vals
    BY LogAssumption DEF IInv, LogInv, TypeOK, HeadInv, Slots
  <2>2. (CHOOSE j \in 1..Len(dhead) : dhead[j] = dhead[i]) = i
    BY Zenon DEF IInv, LogInv, HeadInv, Distinct
  <2> QED BY <2>1, <2>2, Zenon DEF Durable
<1>2. ASSUME NEW b \in Blocks, \A i \in 1..Len(dhead) : dhead[i] # b
      PROVE  Durable[b] = disk[b] /\ Durable[b] \in Vals
  BY <1>2, Zenon DEF Durable, IInv, TypeOK
<1>3. ASSUME NEW b \in Blocks PROVE Durable[b] \in Vals
  BY <1>1, <1>2, Zenon
<1>4. Durable = [b \in Blocks |-> Durable[b]]
  BY Zenon DEF Durable
<1>5. Durable \in [Blocks -> Vals]
  <2> HIDE DEF Durable
  <2> QED BY <1>3, <1>4, Zenon
<1> QED BY <1>1, <1>2, <1>5, Zenon DEF DurableFacts

(* Two states in which a crash leaves the same. *)
LEMMA SameDurable ==
  ASSUME IInv, IInv', \A b \in Blocks : Durable'[b] = Durable[b]
  PROVE  Durable' = Durable
<1>1. DurableFacts /\ DurableFacts'
  BY DurableByBlock, PTL
<1> QED BY <1>1 DEF DurableFacts

LEMMA VisibleRunning == mode \in {"up", "panic"} => Visible = [b \in Blocks |-> Contents(b)]
  BY Zenon DEF Visible

LEMMA VisibleRecovering == mode \notin {"up", "panic"} => Visible = Durable
  BY Zenon DEF Visible

-----------------------------------------------------------------------------
(* Each step of the log is a step of AtomicDisk, or changes nothing there.  *)

Unseen == UNCHANGED <<Visible, Durable, Active>>

LEMMA CrashRefines == ASSUME Crash PROVE Abstract!Crash
<1>1. Durable' = Durable
  BY Zenon DEF Crash, diskVars, Durable
<1>2. Visible' = Durable'
  BY Zenon DEF Crash, Visible
<1>3. Active' = {}
  BY Zenon DEF Crash, Active
<1> QED BY <1>1, <1>2, <1>3, Zenon DEF Abstract!Crash

LEMMA RecoverRefines == ASSUME IInv, IInv', recover_from_log PROVE Unseen
<1> USE DEF IInv, LogInv
<1>1. /\ mode \in {"read_head", "recover", "erase"} /\ Active' = Active
      /\ dlog' = dlog
  BY Zenon DEF recover_from_log, read_head, RecoverBlock, RecoverErase, diskVars, opVars, Active
<1>2. Visible = Durable
  BY <1>1, VisibleRecovering, Zenon
<1>3. DurableFacts /\ DurableFacts'
  BY DurableByBlock, PTL
<1>4. CASE read_head
  <2>1. Durable' = Durable /\ mode' \in {"recover", "erase"}
    BY <1>4, Zenon DEF read_head, diskVars, Durable
  <2> QED BY <1>1, <1>2, <2>1, Zenon DEF Visible, Unseen
<1>5. CASE RecoverBlock
  <2>1. /\ dhead' = dhead /\ dhead = lh /\ tail \in 1..Len(lh) /\ mode' \in {"recover", "erase"}
        /\ disk' = [disk EXCEPT ![lh[tail]] = dlog[tail]]
    BY <1>5, Zenon DEF RecoverBlock, DiskInv, HeadInv
  <2>2. ASSUME NEW b \in Blocks, \A i \in 1..Len(dhead) : dhead[i] # b PROVE disk'[b] = disk[b]
    BY <2>1, <2>2, Zenon DEF TypeOK
  <2>3. \A b \in Blocks : Durable'[b] = Durable[b]
    BY <1>1, <1>3, <2>1, <2>2 DEF DurableFacts
  <2>4. Durable' = Durable
    BY <2>3, SameDurable, Zenon
  <2> QED BY <1>1, <1>2, <2>1, <2>4, Zenon DEF Visible, Unseen
<1>6. CASE RecoverErase
  <2>1. /\ dhead = lh /\ dhead' = <<>> /\ Len(dhead') = 0 /\ mode' = "up"
        /\ \A i \in 1..Len(lh) : disk[lh[i]] = dlog[i]
        /\ disk' = disk /\ cache' = cache
        /\ \A b \in Blocks : cache[b] \in {NotCached, disk[b]}
    BY <1>6, Zenon DEF RecoverErase, DiskInv, CacheInv
  <2>2. \A b \in Blocks : Durable[b] = disk[b] /\ Durable'[b] = disk[b]
    BY <1>3, <2>1 DEF DurableFacts
  <2>3. Durable' = Durable
    BY <2>2, SameDurable, Zenon
  <2>4. Visible' = [b \in Blocks |-> Contents(b)']
    BY <2>1, VisibleRunning, Zenon DEF Visible
  <2>5. \A b \in Blocks : Contents(b)' = Durable[b]
    BY <2>1, <2>2, Zenon DEF Contents
  <2>6. Durable = [b \in Blocks |-> Durable[b]]
    BY <1>3, Zenon DEF DurableFacts
  <2>7. Visible' = Durable
    BY <2>4, <2>5, <2>6, Zenon
  <2> QED BY <1>1, <1>2, <2>3, <2>7, Zenon DEF Unseen
<1> QED BY <1>4, <1>5, <1>6, Zenon DEF recover_from_log

(* A step of the running kernel that reads the same and leaves the disk. *)
LEMMA SameVisible ==
  ASSUME mode = "up", mode' \in {"up", "panic"}, \A b \in Blocks : Contents(b)' = Contents(b)
  PROVE  Visible' = Visible
  BY Zenon DEF Visible

LEMMA CacheRefines ==
  ASSUME IInv, NEW b \in Blocks, bread(b) \/ Recycle(b)
  PROVE  Unseen
<1>1. /\ mode = "up" /\ mode' = "up" /\ disk' = disk
      /\ \A c \in Blocks : c # b => cache'[c] = cache[c]
      /\ \/ cache[b] = NotCached /\ cache'[b] = disk[b]
         \/ cache'[b] = NotCached /\ cache[b] # NotCached /\ pins[b] = 0 /\ \A p \in Ops : buf[p] # b
  BY Zenon DEF bread, Recycle, diskVars, IInv, TypeOK
<1>2. disk[b] # NotCached
  BY LogAssumption DEF IInv, TypeOK
<1>3. pins[b] = 0 /\ (\A p \in Ops : buf[p] # b) => cache[b] \in {NotCached, disk[b]}
  BY <1>1 DEF IInv, LogInv, CacheInv
<1>4. \A c \in Blocks : Contents(c)' = Contents(c)
  BY <1>1, <1>2, <1>3, Zenon DEF Contents
<1>5. Durable' = Durable /\ Active' = Active
  BY Zenon DEF bread, Recycle, diskVars, opVars, Durable, Active
<1> QED BY <1>1, <1>4, <1>5, SameVisible, Zenon DEF Unseen

LEMMA begin_opRefines ==
  ASSUME IInv, NEW p \in Ops, begin_op(p)
  PROVE  Unseen \/ Abstract!Begin(p)
<1>1. Visible' = Visible /\ Durable' = Durable
  BY Zenon DEF begin_op, diskVars, Visible, Durable, Contents
<1>2. Active' = Active \/ (Active' = Active \cup {p} /\ p \notin Active)
  BY Zenon DEF begin_op, Goto, Active, IInv, TypeOK
<1> QED BY <1>1, <1>2, Zenon DEF Unseen, Abstract!Begin

LEMMA ModifyRefines ==
  ASSUME IInv, NEW p \in Ops, NEW b \in Blocks, NEW v \in Vals, Modify(p, b, v)
  PROVE  Abstract!Write(p, b, v)
<1>1. Durable' = Durable
  BY Zenon DEF Modify, diskVars, Durable
<1>2. Active' = Active /\ p \in Active
  BY Zenon DEF Modify, Goto, Active, IInv, TypeOK
<1>3. mode = "up" /\ mode' = "up"
  BY Zenon DEF Modify
<1>4. \A c \in Blocks : Contents(c)' = IF c = b THEN v ELSE Contents(c)
  BY LogAssumption, Zenon DEF Modify, diskVars, Contents, IInv, TypeOK
<1>5. Visible' = [Visible EXCEPT ![b] = v]
  BY <1>3, <1>4, Zenon DEF Visible
<1> QED BY <1>1, <1>2, <1>5, Zenon DEF Abstract!Write

LEMMA log_writeRefines == ASSUME IInv, NEW p \in Ops, log_write(p) PROVE Unseen
<1>1. Durable' = Durable /\ Active' = Active
  BY Zenon DEF log_write, diskVars, Goto, Durable, Active, IInv, TypeOK
<1>2. mode = "up" /\ mode' \in {"up", "panic"} /\ \A b \in Blocks : Contents(b)' = Contents(b)
  BY Zenon DEF log_write, diskVars, Contents
<1> QED BY <1>1, <1>2, SameVisible, Zenon DEF Unseen

LEMMA end_opRefines == ASSUME IInv, NEW p \in Ops, end_op(p) PROVE Abstract!End(p)
<1>1. p \in Active /\ ~committing
  BY Zenon DEF end_op, Active, IInv, LogInv, OpInv
<1>2. Visible' = Visible /\ Durable' = Durable
  BY <1>1, Zenon DEF end_op, diskVars, Visible, Durable, Contents
<1>3. Active' = Active \ {p}
  BY <1>1, Zenon DEF end_op, Goto, WakeupLog, Active, IInv, TypeOK
<1> QED BY <1>1, <1>2, <1>3, Zenon DEF Abstract!End

(* commit() *)

LEMMA QuietPhases ==
  ASSUME IInv, NEW p \in Ops, commit(p) \/ EndCommit(p)
  PROVE  Unseen
<1>1. Visible' = Visible /\ Durable' = Durable
  BY Zenon DEF commit, EndCommit, diskVars, Visible, Durable, Contents
<1>2. Active' = Active
  BY Zenon DEF commit, EndCommit, Goto, WakeupLog, Active, IInv, TypeOK
<1> QED BY <1>1, <1>2, Zenon DEF Unseen

LEMMA write_logRefines == ASSUME IInv, IInv', NEW p \in Ops, write_log(p) PROVE Unseen
<1>1. /\ mode = "up" /\ pc[p] = "write_log"
      /\ UNCHANGED <<disk, dhead, mode>>
      /\ lh[tail] \in Blocks /\ cache[lh[tail]] # NotCached
      /\ \A q \in Ops : q # p => pc[q] \notin CommitLabels
  BY LoopBlock, Zenon DEF write_log
<1>2. cache' = cache
  BY <1>1, Zenon DEF write_log, Contents, IInv, TypeOK
<1>3. dhead = <<>> /\ Len(dhead) = 0
  BY <1>1, Zenon DEF IInv, LogInv, DiskInv, CommitLabels
<1>4. DurableFacts /\ DurableFacts'
  BY DurableByBlock, PTL
<1>5. Durable' = Durable
  BY <1>1, <1>3, <1>4, SameDurable DEF DurableFacts
<1>6. Active' = Active
  BY <1>1, Zenon DEF write_log, Turn, Goto, Active, IInv, TypeOK
<1>7. Visible' = Visible
  BY <1>1, <1>2, SameVisible, Zenon DEF Contents
<1> QED BY <1>5, <1>6, <1>7, Zenon DEF Unseen

(* The one write that makes the transaction durable. *)
LEMMA write_headRefines ==
  ASSUME IInv, IInv', NEW p \in Ops, write_head(p)
  PROVE  Abstract!Commit
<1> USE DEF IInv, LogInv
<1>1. /\ mode = "up" /\ pc[p] = "write_head" /\ dhead' = lh
      /\ UNCHANGED <<disk, dlog, cache, mode>>
      /\ \A q \in Ops : q # p => pc[q] \notin CommitLabels
      /\ Active = {} /\ \A q \in Ops : buf[q] = NoBlock
  BY Alone, Zenon DEF write_head, CommitLabels
<1>2. \A i \in 1..Len(lh) : ~Installed(i)
  BY <1>1, Zenon DEF Installed, CommitLabels
<1>3. DurableFacts'
  BY DurableByBlock, PTL
<1>4. ASSUME NEW b \in Blocks PROVE Durable'[b] = Contents(b)
  <2>1. ASSUME NEW i \in 1..Len(lh), lh[i] = b PROVE Durable'[b] = Contents(b)
    <3>1. dlog[i] = cache[b] /\ cache[b] # NotCached
      BY <1>1, <1>2, <2>1, InLog, Zenon DEF DiskInv
    <3> QED BY <1>1, <1>3, <2>1, <3>1, SMTT(30) DEF DurableFacts, Contents
  <2>2. ASSUME \A i \in 1..Len(lh) : lh[i] # b PROVE Durable'[b] = Contents(b)
    <3>1. cache[b] \in {NotCached, disk[b]}
      BY <1>1, <2>2, LogAssumption DEF CacheInv, Pending
    <3> QED BY <1>1, <1>3, <2>2, <3>1, Zenon DEF DurableFacts, Contents
  <2> QED BY <2>1, <2>2, Zenon
<1>5. Visible = [b \in Blocks |-> Contents(b)]
  BY <1>1, VisibleRunning, Zenon
<1>6. Durable' = [b \in Blocks |-> Durable'[b]]
  BY <1>3, Zenon DEF DurableFacts
<1>7. Durable' = Visible
  BY <1>4, <1>5, <1>6, Zenon
<1>8. Visible' = Visible
  BY <1>1, SameVisible, Zenon DEF Contents
<1>9. Active' = Active
  BY <1>1, Zenon DEF write_head, Goto, Active, TypeOK
<1> QED BY <1>1, <1>7, <1>8, <1>9, Zenon DEF Abstract!Commit

LEMMA install_transRefines == ASSUME IInv, IInv', NEW p \in Ops, install_trans(p) PROVE Unseen
<1> USE DEF IInv, LogInv
<1>1. /\ mode = "up" /\ pc[p] = "install_trans" /\ tail \in 1..Len(lh)
      /\ UNCHANGED <<dlog, dhead, mode>>
      /\ lh[tail] \in Blocks /\ cache[lh[tail]] # NotCached
      /\ dlog[tail] = cache[lh[tail]]
      /\ disk' = [disk EXCEPT ![lh[tail]] = dlog[tail]]
  BY LoopBlock, Zenon DEF install_trans
<1>2. cache' = cache /\ dhead = lh
  BY <1>1 DEF install_trans, TypeOK, DiskInv
<1>3. \A b \in Blocks : b # lh[tail] => disk'[b] = disk[b]
  BY <1>1, Zenon DEF TypeOK
<1>4. \A b \in Blocks : Contents(b)' = Contents(b)
  BY <1>1, <1>2, <1>3, Zenon DEF Contents
<1>5. DurableFacts /\ DurableFacts'
  BY DurableByBlock, PTL
<1>6. \A b \in Blocks : Durable'[b] = Durable[b]
  BY <1>1, <1>2, <1>3, <1>5, SMTT(30) DEF DurableFacts
<1>7. Active' = Active
  BY <1>1 DEF install_trans, Turn, Goto, Active, TypeOK
<1> QED BY <1>1, <1>4, <1>6, <1>7, SameDurable, SameVisible, Zenon DEF Unseen

LEMMA EraseHeadRefines == ASSUME IInv, IInv', NEW p \in Ops, EraseHead(p) PROVE Unseen
<1>1. /\ mode = "up" /\ pc[p] = "erase" /\ dhead' = <<>> /\ Len(dhead') = 0
      /\ UNCHANGED <<disk, dlog, cache, mode>>
  BY Zenon DEF EraseHead
<1>2. dhead = lh /\ \A i \in 1..Len(lh) : dlog[i] = disk[lh[i]]
  BY <1>1 DEF DiskInv, Installed, IInv, LogInv
<1>3. DurableFacts /\ DurableFacts'
  BY DurableByBlock, PTL
<1>4. \A b \in Blocks : Durable[b] = disk[b] /\ Durable'[b] = disk[b]
  <2>1. \A b \in Blocks : Durable[b] = disk[b]
    BY <1>2, <1>3 DEF DurableFacts
  <2>2. \A b \in Blocks : Durable'[b] = disk[b]
    BY <1>1, <1>3 DEF DurableFacts
  <2> QED BY <2>1, <2>2, Zenon
<1>5. Durable' = Durable
  BY <1>4, SameDurable, Zenon
<1>6. Visible' = Visible
  BY <1>1, SameVisible, Zenon DEF Contents
<1>7. Active' = Active
  BY <1>1, Zenon DEF EraseHead, Goto, Active, IInv, TypeOK
<1> QED BY <1>5, <1>6, <1>7, Zenon DEF Unseen

LEMMA AtomicStep == IInv /\ IInv' /\ [Next]_vars => [Abstract!Next]_Abstract!vars
<1> SUFFICES ASSUME IInv, IInv', [Next]_vars PROVE Unseen \/ Abstract!Next
  BY Zenon DEF Unseen, Abstract!vars
<1>1. CASE Crash \/ recover_from_log
  BY <1>1, CrashRefines, RecoverRefines, Zenon DEF Abstract!Next
<1>2. ASSUME NEW b \in Blocks, bread(b) \/ Recycle(b) PROVE Unseen
  BY <1>2, CacheRefines, Zenon
<1>3. ASSUME NEW p \in Ops, OpStep(p) PROVE Unseen \/ Abstract!Next
  BY <1>3, begin_opRefines, ModifyRefines, log_writeRefines, end_opRefines, Zenon
     DEF OpStep, Abstract!Next
<1>4. ASSUME NEW p \in Ops, CommitStep(p) PROVE Unseen \/ Abstract!Next
  BY <1>4, QuietPhases, write_logRefines, write_headRefines, install_transRefines,
     EraseHeadRefines, Zenon DEF CommitStep, Abstract!Next
<1>5. CASE UNCHANGED vars
  BY <1>5, Zenon DEF vars, diskVars, opVars, Unseen, Visible, Durable, Active, Contents
<1> QED BY <1>1, <1>2, <1>3, <1>4, <1>5, Zenon DEF Next

(* The log implements AtomicDisk: with any number of overlapping calls and  *)
(* a crash between any two disk writes, of a recovery too, the writes of a  *)
(* transaction are all found after the crash or none is.                    *)
THEOREM AtomicCorrect == Spec => AtomicSpec
<1>1. Init => Abstract!Init
  <2> SUFFICES ASSUME Init PROVE Abstract!Init
    BY Zenon
  <2>1. IInv
    BY InitInv, Zenon
  <2>2. DurableFacts
    BY <2>1, DurableByBlock, Zenon
  <2>3. Visible = Durable /\ Active = {}
    BY Zenon DEF Init, Visible, Active
  <2> QED BY <2>2, <2>3, Zenon DEF DurableFacts, Abstract!Init
<1>2. IInv <=> TypeOK /\ LogInv
  BY Zenon DEF IInv
<1> QED BY <1>1, <1>2, LogCorrect, AtomicStep, PTL DEF Spec, AtomicSpec, Abstract!Spec

-----------------------------------------------------------------------------
(* The log does not overflow. *)

(* The blocks that open calls have modified and that are in the log, each   *)
(* counted once for every call that modified it.                            *)
Logged == {x \in Active \X Blocks : x[2] \in wrote[x[1]] /\ x[2] \in Elems(lh)}

WroteInv ==
  \A p \in Ops :
    /\ IsFiniteSet(wrote[p]) /\ Cardinality(wrote[p]) <= OpBlocks
    /\ p \notin Active => wrote[p] = {}
    /\ pc[p] = "modified" => buf[p] \in wrote[p]

(* Each open call has MAXOPBLOCKS places set aside, less those it has       *)
(* taken.  The last call alone has one to spare, unless every block in the  *)
(* log is its own: log_write() panics already when the log is full, also    *)
(* when the block it is given is in the log.                                *)
Reserved ==
  LET C == Cardinality(Logged)
  IN /\ Len(lh) + outstanding * MAXOPBLOCKS <= LOGSIZE + C
     /\ outstanding >= 2 \/ Len(lh) + outstanding * MAXOPBLOCKS < LOGSIZE + C \/ Len(lh) <= C

RoomInv == NeverPanics /\ WroteInv /\ (mode = "up" => Reserved)

LEMMA Numbered ==
  ASSUME NEW S, IsFiniteSet(S), NEW n \in Nat, Cardinality(S) <= n
  PROVE  \E f \in [S -> 1..n] : \A a, b \in S : f[a] = f[b] => a = b
<1>1. Cardinality(S) \in Nat /\ ExistsBijection(1..Cardinality(S), S)
  BY FS_CardinalityType, Zenon
<1>2. ExistsBijection(S, 1..Cardinality(S))
  BY <1>1, Fun_ExistsBijSymmetric, Zenon
<1>3. PICK f \in Bijection(S, 1..Cardinality(S)) : TRUE
  BY <1>2, Zenon DEF ExistsBijection
<1>4. f \in [S -> 1..Cardinality(S)] /\ \A a, b \in S : f[a] = f[b] => a = b
  BY <1>3, Zenon DEF Bijection, Injection, IsInjective
<1>5. f \in [S -> 1..n]
  BY <1>1, <1>4
<1> QED BY <1>4, <1>5, Zenon

(* No more places are taken than the open calls may take. *)
LoggedFacts ==
  /\ IsFiniteSet(Logged) /\ Cardinality(Logged) \in Nat
  /\ Cardinality(Logged) <= outstanding * OpBlocks

LEMMA LoggedBound == IInv /\ WroteInv => LoggedFacts
<1> SUFFICES ASSUME IInv, WroteInv
             PROVE  /\ IsFiniteSet(Logged) /\ Cardinality(Logged) \in Nat
                    /\ Cardinality(Logged) <= outstanding * OpBlocks
  BY Zenon DEF LoggedFacts
<1> DEFINE Numbers(W) == {f \in [W -> 1..OpBlocks] : \A a, b \in W : f[a] = f[b] => a = b}
           num == [p \in Ops |-> CHOOSE f \in Numbers(wrote[p]) : TRUE]
           h == [x \in Logged |-> <<x[1], num[x[1]][x[2]]>>]
           T == Active \X (1..OpBlocks)
<1>1. \A p \in Ops : num[p] \in Numbers(wrote[p])
  <2> SUFFICES ASSUME NEW p \in Ops PROVE num[p] \in Numbers(wrote[p])
    BY Zenon
  <2>1. \E f \in [wrote[p] -> 1..OpBlocks] : \A a, b \in wrote[p] : f[a] = f[b] => a = b
    BY Numbered, LogAssumption, Zenon DEF WroteInv
  <2>2. \E f \in Numbers(wrote[p]) : TRUE
    BY <2>1, Zenon
  <2> QED BY <2>2, Zenon
<1>2. \A x \in Logged : x[1] \in Active /\ x[1] \in Ops /\ x[2] \in wrote[x[1]] /\ x = <<x[1], x[2]>>
  BY DEF Logged, Active
<1> HIDE DEF num
<1>3. h \in [Logged -> T]
  <2>1. \A x \in Logged : num[x[1]][x[2]] \in 1..OpBlocks
    BY <1>1, <1>2
  <2> QED BY <1>2, <2>1, Zenon
<1>4. ASSUME NEW x \in Logged, NEW y \in Logged, h[x] = h[y] PROVE x = y
  <2>1. x[1] = y[1] /\ num[x[1]][x[2]] = num[y[1]][y[2]]
    BY <1>4, Zenon
  <2>2. x[2] = y[2]
    BY <1>1, <1>2, <2>1
  <2> QED BY <1>2, <2>1, <2>2, Zenon
<1>5. h \in Injection(Logged, T)
  BY <1>3, <1>4, Zenon DEF Injection, IsInjective
<1>6. /\ IsFiniteSet(Active) /\ Cardinality(Active) = outstanding
      /\ IsFiniteSet(1..OpBlocks) /\ Cardinality(1..OpBlocks) = OpBlocks
  <2>1. IsFiniteSet(1..OpBlocks) /\ Cardinality(1..OpBlocks) = OpBlocks
    BY FS_Interval, LogAssumption
  <2> QED BY <2>1, ActiveCounts, Zenon DEF IInv, LogInv, OpInv
<1>7. IsFiniteSet(T) /\ Cardinality(T) = outstanding * OpBlocks
  BY <1>6, FS_Product, Zenon
<1> HIDE DEF h, T
<1>8. IsFiniteSet(Logged) /\ Cardinality(Logged) <= Cardinality(T)
  BY <1>5, <1>7, FS_Injection, Zenon
<1> QED BY <1>7, <1>8, FS_CardinalityType, Zenon

(* The log has room for one more block while a call is open. *)
LEMMA RoomLeft ==
  ASSUME IInv, WroteInv, Reserved, outstanding >= 1
  PROVE  ~TooBig
<1> DEFINE C == Cardinality(Logged)
<1> USE LogAssumption, LogSizeAssumption
<1>1. C \in Nat /\ C <= outstanding * OpBlocks /\ outstanding \in Nat /\ Len(lh) \in Nat
  BY LoggedBound DEF LoggedFacts, IInv, TypeOK
<1>2. /\ Len(lh) + outstanding * MAXOPBLOCKS <= LOGSIZE + C
      /\ outstanding >= 2 \/ Len(lh) + outstanding * MAXOPBLOCKS < LOGSIZE + C \/ Len(lh) <= C
  BY Zenon DEF Reserved
<1> HIDE DEF C
<1>3. outstanding * OpBlocks <= outstanding * MAXOPBLOCKS - outstanding
  <2>1. outstanding * (MAXOPBLOCKS - 1) = outstanding * MAXOPBLOCKS - outstanding
    BY <1>1
  <2>2. OpBlocks <= MAXOPBLOCKS - 1
    OBVIOUS
  <2>3. \A i, j, k \in Nat : i <= j => k * i <= k * j
    OBVIOUS
  <2> QED BY <1>1, <2>1, <2>2, <2>3
<1>4. Len(lh) <= LOGSIZE - 2
  <2>1. CASE outstanding >= 2
    BY <1>1, <1>2, <1>3, <2>1
  <2>2. CASE outstanding = 1
    BY <1>1, <1>2, <1>3, <2>2
  <2> QED BY <1>1, <2>1, <2>2
<1> QED BY <1>1, <1>4 DEF TooBig

(* A step that counts nothing. *)
LEMMA RoomFrame ==
  ASSUME RoomInv, UNCHANGED <<Active, wrote, lh, outstanding, mode, buf>>,
         \A p \in Ops : pc'[p] = "modified" => pc[p] = "modified"
  PROVE  RoomInv'
<1>1. Logged' = Logged
  BY Zenon DEF Logged, Elems
<1> QED BY <1>1, Zenon DEF RoomInv, NeverPanics, WroteInv, Reserved

LEMMA begin_opRoom ==
  ASSUME IInv, QuietInv, RoomInv, NEW p \in Ops, begin_op(p)
  PROVE  RoomInv'
<1> USE LogAssumption, LogSizeAssumption
<1>1. CASE committing \/ LogFull
  <2>1. /\ UNCHANGED <<wrote, lh, outstanding, mode, buf>>
        /\ pc' = [pc EXCEPT ![p] = "sleep"] /\ pc[p] \in {"user", "begin"}
    BY <1>1, Zenon DEF begin_op, Goto
  <2>2. Active' = Active
    BY <2>1, Zenon DEF Active, IInv, TypeOK
  <2> QED BY <2>1, <2>2, RoomFrame, Zenon DEF IInv, TypeOK
<1>2. CASE ~(committing \/ LogFull)
  <2>1. /\ UNCHANGED <<wrote, lh, mode, buf>> /\ outstanding' = outstanding + 1 /\ mode = "up"
        /\ pc' = [pc EXCEPT ![p] = "op"] /\ pc[p] \in {"user", "begin"}
    BY <1>2, Zenon DEF begin_op, Goto
  <2>2. Active' = Active \cup {p} /\ p \notin Active
    BY <2>1 DEF Active, IInv, TypeOK
  <2>3. wrote[p] = {}
    BY <2>2, Zenon DEF RoomInv, WroteInv
  <2>4. Logged' = Logged
    BY <2>1, <2>2, <2>3, Zenon DEF Logged, Elems
  <2>5. WroteInv'
    BY <2>1, <2>2, Zenon DEF RoomInv, WroteInv, IInv, TypeOK
  <2>6. Cardinality(Logged) \in Nat /\ outstanding \in Nat /\ Len(lh) \in Nat
    BY LoggedBound DEF LoggedFacts, RoomInv, IInv, TypeOK
  <2>7. outstanding = 0 => Len(lh) = 0
    BY <1>2, <2>1, Zenon DEF QuietInv
  <2>8. Reserved'
    BY <1>2, <2>1, <2>4, <2>6, <2>7, SMTT(30) DEF Reserved, LogFull
  <2> QED BY <2>1, <2>5, <2>8, Zenon DEF RoomInv, NeverPanics
<1> QED BY <1>1, <1>2

LEMMA ModifyRoom ==
  ASSUME IInv, IInv', RoomInv, NEW p \in Ops, NEW b \in Blocks, NEW v \in Vals, Modify(p, b, v)
  PROVE  RoomInv'
<1>1. /\ UNCHANGED <<lh, outstanding, mode>> /\ mode = "up" /\ pc[p] = "op"
      /\ pc' = [pc EXCEPT ![p] = "modified"] /\ buf' = [buf EXCEPT ![p] = b]
      /\ wrote' = [wrote EXCEPT ![p] = @ \cup {b}]
      /\ Cardinality(wrote[p] \cup {b}) <= OpBlocks
  BY Zenon DEF Modify, Goto, logVars
<1>2. Active' = Active
  BY <1>1, Zenon DEF Active, IInv, TypeOK
<1>3. IsFiniteSet(wrote[p] \cup {b})
  BY FS_AddElement, Zenon DEF RoomInv, WroteInv
<1>4. WroteInv'
  BY <1>1, <1>2, <1>3, Zenon DEF RoomInv, WroteInv, IInv, TypeOK, Active
<1>5. Logged \subseteq Logged'
  BY <1>1, <1>2, SMTT(30) DEF Logged, Elems, Active, IInv, TypeOK
<1>6. IsFiniteSet(Logged') /\ Cardinality(Logged') \in Nat
  <2>1. LoggedFacts'
    BY <1>4, LoggedBound, PTL
  <2> QED BY <2>1, Zenon DEF LoggedFacts
<1>7. Cardinality(Logged) \in Nat /\ Cardinality(Logged) <= Cardinality(Logged')
  BY <1>5, <1>6, LoggedBound, FS_Subset, Zenon DEF LoggedFacts, RoomInv
<1>8. Len(lh) \in Nat /\ outstanding \in Nat
  BY DEF IInv, TypeOK
<1>9. Reserved'
  BY <1>1, <1>6, <1>7, <1>8, LogAssumption DEF RoomInv, Reserved
<1> QED BY <1>1, <1>4, <1>9, Zenon DEF RoomInv, NeverPanics

LEMMA log_writeRoom ==
  ASSUME IInv, IInv', RoomInv, NEW p \in Ops, log_write(p)
  PROVE  RoomInv'
<1>1. mode = "up" /\ pc[p] = "modified" /\ p \in Active /\ buf[p] \in wrote[p] /\ buf[p] \in Blocks
  BY Zenon DEF log_write, Active, RoomInv, WroteInv, IInv, LogInv, OpInv, TypeOK
<1>2. outstanding >= 1 /\ outstanding \in Nat /\ Len(lh) \in Nat
  BY <1>1, ActiveCounts, SMTT(30) DEF IInv, LogInv, TypeOK
<1>3. ~TooBig
  BY <1>1, <1>2, RoomLeft, Zenon DEF RoomInv
<1>4. /\ mode' = "up" /\ pc' = [pc EXCEPT ![p] = "op"] /\ buf' = [buf EXCEPT ![p] = NoBlock]
      /\ UNCHANGED <<wrote, outstanding>>
      /\ IF buf[p] \in Elems(lh) THEN lh' = lh ELSE lh' = Append(lh, buf[p])
  <2>1. ~(TooBig \/ outstanding < 1)
    BY <1>2, <1>3, SMTT(30)
  <2>2. /\ Goto(p, "op") /\ buf' = [buf EXCEPT ![p] = NoBlock] /\ mode' = mode
        /\ IF buf[p] \in Elems(lh) THEN lh' = lh ELSE lh' = Append(lh, buf[p])
    BY <2>1, Zenon DEF log_write
  <2>3. UNCHANGED <<wrote, outstanding>>
    BY Zenon DEF log_write
  <2> QED BY <1>1, <2>2, <2>3, Zenon DEF Goto
<1>5. Active' = Active
  BY <1>1, <1>4, Zenon DEF Active, IInv, TypeOK
<1>6. WroteInv'
  BY <1>4, <1>5, Zenon DEF RoomInv, WroteInv, IInv, TypeOK
<1>7. IsFiniteSet(Logged') /\ Cardinality(Logged') \in Nat
  <2>1. LoggedFacts'
    BY <1>6, LoggedBound, PTL
  <2> QED BY <2>1, Zenon DEF LoggedFacts
<1>8. IsFiniteSet(Logged) /\ Cardinality(Logged) \in Nat
  BY LoggedBound, Zenon DEF LoggedFacts, RoomInv
<1>9. CASE buf[p] \in Elems(lh)
  <2>1. lh' = lh /\ Logged' = Logged
    BY <1>4, <1>5, <1>9, Zenon DEF Logged, Elems
  <2> QED BY <1>1, <1>4, <1>6, <2>1, Zenon DEF RoomInv, NeverPanics, Reserved
<1>10. CASE buf[p] \notin Elems(lh)
  <2>1. /\ Len(lh') = Len(lh) + 1 /\ lh'[Len(lh) + 1] = buf[p]
        /\ \A i \in 1..Len(lh) : lh'[i] = lh[i]
    <3>1. lh' = Append(lh, buf[p]) /\ lh \in Seq(Blocks) /\ buf[p] \in Blocks
      BY <1>1, <1>4, <1>10, Zenon DEF IInv, TypeOK
    <3> QED BY <3>1, AppendProperties, SMTT(30)
  <2>2. Elems(lh) \subseteq Elems(lh') /\ buf[p] \in Elems(lh')
    BY <1>2, <2>1 DEF Elems
  <2>3. Logged \cup {<<p, buf[p]>>} \subseteq Logged'
    BY <1>1, <1>4, <1>5, <2>2 DEF Logged
  <2>4. <<p, buf[p]>> \notin Logged
    BY <1>10, Zenon DEF Logged
  <2>5. Cardinality(Logged \cup {<<p, buf[p]>>}) = Cardinality(Logged) + 1
    BY <1>8, <2>4, FS_AddElement, Zenon
  <2>6. Cardinality(Logged) + 1 <= Cardinality(Logged')
    BY <1>7, <2>3, <2>5, FS_Subset, Zenon
  <2>7. Reserved'
    BY <1>1, <1>2, <1>4, <1>7, <1>8, <2>1, <2>6, LogAssumption, SMTT(30) DEF RoomInv, Reserved
  <2> QED BY <1>4, <1>6, <2>7, Zenon DEF RoomInv, NeverPanics
<1> QED BY <1>9, <1>10, Zenon

LEMMA end_opRoom ==
  ASSUME IInv, IInv', RoomInv, NEW p \in Ops, end_op(p)
  PROVE  RoomInv'
<1> USE LogAssumption, LogSizeAssumption
<1>1. mode = "up" /\ pc[p] = "op" /\ p \in Active /\ ~committing
  BY Zenon DEF end_op, Active, IInv, LogInv, OpInv
<1>2. outstanding >= 1 /\ outstanding \in Nat /\ Len(lh) \in Nat
  BY <1>1, ActiveCounts, SMTT(30) DEF IInv, LogInv, TypeOK
<1>3. /\ outstanding' = outstanding - 1 /\ wrote' = [wrote EXCEPT ![p] = {}]
      /\ UNCHANGED <<lh, buf>> /\ mode' = "up"
      /\ \A q \in Ops : pc'[q] = "modified" => pc[q] = "modified"
      /\ Active' = Active \ {p}
  <2>1. /\ outstanding' = outstanding - 1 /\ wrote' = [wrote EXCEPT ![p] = {}]
        /\ UNCHANGED <<lh, buf>> /\ mode' = "up"
    BY <1>1, Zenon DEF end_op
  <2>2. \A q \in Ops \ {p} :
          pc'[q] = pc[q] \/ (pc[q] = "sleep" /\ pc'[q] = "begin")
    BY <1>1 DEF end_op, Goto, WakeupLog, IInv, TypeOK
  <2>3. pc'[p] \notin {"op", "modified"}
    BY <1>1, Zenon DEF end_op, Goto, WakeupLog, IInv, TypeOK
  <2> QED BY <2>1, <2>2, <2>3, Zenon DEF Active
<1>4. WroteInv'
  <2>1. IsFiniteSet({}) /\ Cardinality({}) <= OpBlocks
    BY FS_EmptySet
  <2> QED BY <1>1, <1>3, <2>1, Zenon DEF RoomInv, WroteInv, IInv, TypeOK
<1> DEFINE mine == {p} \X wrote[p]
           C == Cardinality(Logged)
<1>5. IsFiniteSet(Logged') /\ Cardinality(Logged') \in Nat
  <2>1. LoggedFacts'
    BY <1>4, LoggedBound, PTL
  <2> QED BY <2>1, Zenon DEF LoggedFacts
<1>6. IsFiniteSet(Logged) /\ C \in Nat /\ C <= outstanding * OpBlocks
  BY LoggedBound, Zenon DEF LoggedFacts, RoomInv
<1>7. IsFiniteSet(mine) /\ Cardinality(mine) \in Nat /\ Cardinality(mine) <= OpBlocks
  <2>1. IsFiniteSet(wrote[p]) /\ Cardinality(wrote[p]) \in Nat /\ Cardinality(wrote[p]) <= OpBlocks
    BY FS_CardinalityType, Zenon DEF RoomInv, WroteInv
  <2>2. IsFiniteSet({p}) /\ Cardinality({p}) = 1
    BY FS_Singleton, Zenon
  <2>3. IsFiniteSet(mine) /\ Cardinality(mine) = 1 * Cardinality(wrote[p])
    BY <2>1, <2>2, FS_Product, Zenon
  <2> QED BY <2>1, <2>3
<1>8. Logged \subseteq Logged' \cup mine
  BY <1>3 DEF Logged, Elems, Active, IInv, TypeOK
<1> HIDE DEF mine
<1>9. C <= Cardinality(Logged') + OpBlocks
  <2>1. /\ IsFiniteSet(Logged' \cup mine)
        /\ Cardinality(Logged' \cup mine) =
             Cardinality(Logged') + Cardinality(mine) - Cardinality(Logged' \cap mine)
    BY <1>5, <1>7, FS_Union, Zenon
  <2>2. Cardinality(Logged' \cap mine) \in Nat
    BY <1>7, FS_Subset, FS_CardinalityType, Zenon
  <2>3. C <= Cardinality(Logged' \cup mine)
    BY <1>8, <2>1, FS_Subset, Zenon
  <2> QED BY <1>5, <1>6, <1>7, <2>1, <2>2, <2>3
<1> HIDE DEF C
<1>10. /\ Len(lh) + outstanding * MAXOPBLOCKS <= LOGSIZE + C
       /\ outstanding >= 2 \/ Len(lh) + outstanding * MAXOPBLOCKS < LOGSIZE + C \/ Len(lh) <= C
  BY <1>1 DEF RoomInv, Reserved, C
<1>11. (outstanding - 1) * MAXOPBLOCKS = outstanding * MAXOPBLOCKS - MAXOPBLOCKS
  BY <1>2
<1>12. Len(lh) + (outstanding - 1) * MAXOPBLOCKS < LOGSIZE + Cardinality(Logged')
  BY <1>2, <1>5, <1>6, <1>9, <1>10, <1>11, SMTT(30)
<1>13. Reserved'
  BY <1>2, <1>3, <1>5, <1>12 DEF Reserved
<1> QED BY <1>3, <1>4, <1>13, Zenon DEF RoomInv, NeverPanics

LEMMA RestartRoom ==
  ASSUME IInv, RoomInv, Crash \/ recover_from_log
  PROVE  RoomInv'
<1>1. CASE Crash
  <2>1. IsFiniteSet({}) /\ Cardinality({}) <= OpBlocks
    BY FS_EmptySet, LogAssumption
  <2> QED BY <1>1, <2>1, Zenon DEF Crash, RoomInv, NeverPanics, WroteInv
<1>2. CASE recover_from_log
  <2>1. /\ UNCHANGED <<wrote, pc, buf, outstanding, Active>> /\ mode' # "panic"
        /\ mode \in {"read_head", "recover", "erase"}
        /\ mode' = "up" => lh' = <<>>
    BY <1>2, Zenon DEF recover_from_log, read_head, RecoverBlock, RecoverErase, opVars, Active
  <2>2. WroteInv'
    BY <2>1, Zenon DEF RoomInv, WroteInv
  <2>3. Active = {} /\ outstanding = 0
    BY <2>1, FS_EmptySet, Zenon DEF IInv, LogInv, OpInv, Active
  <2>4. mode' = "up" => Reserved'
    <3>1. Logged' = {}
      BY <2>1, <2>3, Zenon DEF Logged
    <3>2. Cardinality(Logged') = 0
      BY <3>1, FS_EmptySet, Zenon
    <3> QED BY <2>1, <2>3, <3>2, LogAssumption, LogSizeAssumption, Len(<<>>) = 0 DEF Reserved
  <2> QED BY <2>1, <2>2, <2>4, Zenon DEF RoomInv, NeverPanics
<1> QED BY <1>1, <1>2, Zenon

LEMMA RoomStep == IInv /\ IInv' /\ QuietInv /\ RoomInv /\ [Next]_vars => RoomInv'
<1> SUFFICES ASSUME IInv, IInv', QuietInv, RoomInv, [Next]_vars PROVE RoomInv'
  BY Zenon
<1>1. ASSUME NEW b \in Blocks, bread(b) \/ Recycle(b) PROVE RoomInv'
  BY <1>1, RoomFrame DEF bread, Recycle, logVars, opVars, Active
<1>2. ASSUME NEW p \in Ops, OpStep(p) PROVE RoomInv'
  BY <1>2, begin_opRoom, ModifyRoom, log_writeRoom, end_opRoom, Zenon DEF OpStep
<1>3. ASSUME NEW p \in Ops, CommitStep(p), ~EraseHead(p) PROVE RoomInv'
  <2>1. UNCHANGED <<wrote, lh, outstanding, mode, buf>>
    BY <1>3, SMTT(30) DEF CommitStep, commit, write_log, write_head, install_trans, EndCommit, logVars
  <2>2. /\ pc[p] \notin {"op", "modified"} /\ pc'[p] \notin {"op", "modified"}
        /\ \A q \in Ops \ {p} :
             pc'[q] = pc[q] \/ (pc[q] = "sleep" /\ pc'[q] = "begin")
    BY <1>3, SMTT(30) DEF CommitStep, commit, write_log, write_head, install_trans, EndCommit, Turn,
                Goto, WakeupLog, IInv, TypeOK
  <2>3. /\ Active' = Active
        /\ \A q \in Ops : pc'[q] = "modified" => pc[q] = "modified"
    BY <2>2, Zenon DEF Active
  <2> QED BY <2>1, <2>3, RoomFrame, ZenonT(40)
<1>4. ASSUME NEW p \in Ops, EraseHead(p) PROVE RoomInv'
  <2>1. /\ UNCHANGED <<wrote, outstanding, mode, buf>> /\ lh' = <<>> /\ pc[p] = "erase"
        /\ pc' = [pc EXCEPT ![p] = "committed"]
    BY <1>4, Zenon DEF EraseHead, Goto
  <2>2. Active = {} /\ outstanding = 0
    BY <2>1, Alone, Zenon DEF CommitLabels
  <2>3. Active' = {}
    BY <2>1, <2>2, Zenon DEF Active, IInv, TypeOK
  <2>4. WroteInv'
    BY <2>1, <2>2, <2>3, Zenon DEF RoomInv, WroteInv, IInv, TypeOK
  <2>5. Reserved'
    <3>1. Cardinality(Logged') = 0
      BY <2>3, FS_EmptySet, Zenon DEF Logged
    <3> QED BY <2>1, <2>2, <3>1, LogAssumption, LogSizeAssumption, Len(<<>>) = 0, SMTT(30) DEF Reserved
  <2> QED BY <2>1, <2>4, <2>5, Zenon DEF RoomInv, NeverPanics
<1>5. CASE UNCHANGED vars
  BY <1>5, RoomFrame, Zenon DEF vars, logVars, opVars, Active
<1> QED BY <1>1, <1>2, <1>3, <1>4, <1>5, RestartRoom, Zenon DEF Next

(* The reservation of begin_op() is enough: log_write() and end_op() never  *)
(* panic, whatever calls overlap.                                           *)
THEOREM NoPanic == Spec => []NeverPanics
<1>1. Init => RoomInv
  BY FS_EmptySet, LogAssumption DEF Init, RoomInv, NeverPanics, WroteInv
<1>2. RoomInv => NeverPanics
  BY Zenon DEF RoomInv
<1>3. IInv <=> TypeOK /\ LogInv
  BY Zenon DEF IInv
<1> QED BY <1>1, <1>2, <1>3, LogCorrect, QuietCorrect, RoomStep, PTL DEF Spec

=============================================================================
