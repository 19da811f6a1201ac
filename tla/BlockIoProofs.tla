---------------------------- MODULE BlockIoProofs ----------------------------
(***************************************************************************)
(* The buffer cache and the disk driver, proved for every number of        *)
(* processes, blocks, buffers and descriptors.                             *)
(***************************************************************************)
EXTENDS BlockIoSteps, DataLemmas

(* The rings of BlockIo. *)
LEMMA RingIs ==
  ASSUME NEW r, NEW from, NEW to
  PROVE  /\ Filled(r) = Full(NUM, r) /\ Heads(r) = HeadsOf(NUM, r)
         /\ Ring(r, from, to) <=> IsRing(NUM, Laps, r, from, to)
<1>1. NoDesc = Vacant
  BY DEF NoDesc, Vacant
<1>2. Filled(r) = Full(NUM, r)
  BY <1>1, Zenon DEF Filled, Full, Desc
<1>3. Heads(r) = HeadsOf(NUM, r)
  BY <1>2, Zenon DEF Heads, HeadsOf
<1>4. Ring(r, from, to) <=> IsRing(NUM, Laps, r, from, to)
  BY <1>2, Zenon DEF Ring, IsRing, IDXMOD, Around
<1> QED BY <1>2, <1>3, <1>4, Zenon

LEMMA DescFinite ==
  ASSUME DiskTypes
  PROVE  IsFiniteSet(Desc) /\ Cardinality(Desc) = NUM /\ IsFiniteSet(free) /\ Cardinality(free) \in Nat
<1>1. NUM \in Nat \ {0}
  BY Num, Zenon
<1>2. IsFiniteSet(0..(NUM - 1)) /\ Cardinality(0..(NUM - 1)) = NUM
  BY <1>1, FS_Interval, 0 \in Int, NUM - 1 \in Int, ~(0 > NUM - 1), NUM - 1 - 0 + 1 = NUM
<1>3. free \subseteq 0..(NUM - 1)
  BY Zenon DEF DiskTypes, Desc
<1>4. IsFiniteSet(free) /\ Cardinality(free) \in Nat
  BY <1>2, <1>3, FS_Subset, FS_CardinalityType, Zenon
<1> QED BY <1>2, <1>4, Zenon DEF Desc

(* Fewer entries of a ring are filled than it has, when some descriptor is  *)
(* in none of them.                                                         *)
LEMMA RoomLeft ==
  ASSUME DiskTypes, NEW r \in [Desc -> Desc \cup {NoDesc}], NEW from, NEW to, Ring(r, from, to),
         NEW d \in Desc, d \notin Heads(r)
  PROVE  Cardinality(Filled(r)) < NUM
<1>1. IsFiniteSet(Desc \ {d}) /\ Cardinality(Desc \ {d}) = NUM - 1
  BY DescFinite, FS_RemoveElement, Zenon
<1>2. [i \in Filled(r) |-> r[i]] \in Injection(Filled(r), Desc \ {d})
  <2>1. [i \in Filled(r) |-> r[i]] \in [Filled(r) -> Desc \ {d}]
    <3>1. \A i \in Filled(r) : r[i] \in Desc \ {d}
      BY Zenon DEF Filled, Heads
    <3> QED BY <3>1, Zenon
  <2>2. \A i, j \in Filled(r) : r[i] = r[j] => i = j
    BY Zenon DEF Ring
  <2> QED BY <2>1, <2>2, Zenon DEF Injection, IsInjective
<1>3. IsFiniteSet(Filled(r)) /\ Cardinality(Filled(r)) <= NUM - 1
  <2>1. IsFiniteSet(Filled(r)) /\ Cardinality(Filled(r)) <= Cardinality(Desc \ {d})
    BY <1>1, <1>2, FS_Injection, Zenon
  <2> QED BY <1>1, <2>1, Zenon
<1>4. Cardinality(Filled(r)) \in Nat /\ NUM \in Nat
  BY <1>3, Num, FS_CardinalityType, Zenon
<1> QED BY <1>3, <1>4

LEMMA UsedNotFull ==
  ASSUME DiskTypes, DescInv, RequestInv
  PROVE  Cardinality(Filled(used)) < NUM
<1>1. \A h \in Heads(used) : \E p \in Waiting : h = head[p]
  BY Zenon DEF RequestInv
<1>2. Waiting \subseteq Asking
  BY Zenon DEF Waiting, Asking
<1>3. CASE Heads(used) = {}
  <2>1. 0 \in Desc /\ used \in [Desc -> Desc \cup {NoDesc}]
    BY Num DEF Desc, DiskTypes
  <2> QED BY <1>3, <2>1, RoomLeft, Zenon DEF RequestInv
<1>4. CASE Heads(used) # {}
  <2>1. PICK p \in Asking : TRUE
    BY <1>1, <1>2, <1>4, Zenon
  <2>2. PICK d \in Desc : d = chain[head[p]][2]
    <3>1. chain[head[p]] \in [1..3 -> Desc \ free]
      BY Zenon DEF DescInv, Linked
    <3>2. 2 \in 1..3
      OBVIOUS
    <3> QED BY <3>1, <3>2, Zenon
  <2>3. d \notin Heads(used)
    <3> SUFFICES ASSUME d \in Heads(used) PROVE FALSE
      BY Zenon
    <3>1. PICK q \in Asking : d = head[q]
      BY <1>1, <1>2, Zenon
    <3>2. chain[head[q]][1] = head[q]
      BY Zenon DEF DescInv, Linked
    <3>3. Apart(Asking, head, chain) /\ chain[head[p]][2] = chain[head[q]][1]
      BY <2>2, <3>1, <3>2, Zenon DEF DescInv
    <3>4. 1 \in 1..3 /\ 2 \in 1..3
      OBVIOUS
    <3>5. \A i, j \in 1..3 : chain[head[p]][i] = chain[head[q]][j] => p = q /\ i = j
      BY <3>3, ZenonT(40) DEF Apart
    <3> QED BY <3>3, <3>4, <3>5
  <2> QED BY <2>3, RoomLeft, Zenon DEF RequestInv, DiskTypes
<1> QED BY <1>3, <1>4, Zenon

LEMMA RingsNext ==
  ASSUME NUM' = NUM
  PROVE  /\ Filled(avail)' = Full(NUM, avail') /\ Heads(avail)' = HeadsOf(NUM, avail')
         /\ Filled(used)' = Full(NUM, used') /\ Heads(used)' = HeadsOf(NUM, used')
         /\ Ring(avail, dev_idx, avail_idx)' <=> IsRing(NUM, Laps, avail', dev_idx', avail_idx')
         /\ Ring(used, used_idx, used_head)' <=> IsRing(NUM, Laps, used', used_idx', used_head')
<1>1. NoDesc = Vacant /\ Desc' = Desc /\ IDXMOD' = IDXMOD
  BY DEF NoDesc, Vacant, Desc, IDXMOD
<1>2. Filled(avail)' = Full(NUM, avail') /\ Filled(used)' = Full(NUM, used')
  BY <1>1, Zenon DEF Filled, Full, Desc
<1>3. Heads(avail)' = HeadsOf(NUM, avail') /\ Heads(used)' = HeadsOf(NUM, used')
  BY <1>2, Zenon DEF Heads, HeadsOf
<1>4. Ring(avail, dev_idx, avail_idx)' <=> IsRing(NUM, Laps, avail', dev_idx', avail_idx')
  BY <1>1, <1>2 DEF Ring, IsRing, IDXMOD, Around
<1>5. Ring(used, used_idx, used_head)' <=> IsRing(NUM, Laps, used', used_idx', used_head')
  BY <1>1, <1>2 DEF Ring, IsRing, IDXMOD, Around
<1> QED BY <1>2, <1>3, <1>4, <1>5, Zenon

LEMMA IntrEnd_Inv ==
  ASSUME IoInv, IntrEnd PROVE IoInv'
<1>1. Cardinality(Full(NUM, used)) < NUM
  BY UsedNotFull, RingIs, Zenon DEF IoInv
<1>2. NUM \in Nat \ {0} /\ Laps \in Nat \ {0} /\ used_idx \in 0..(NUM * Laps - 1)
  BY Num, Counters, Zenon DEF IoInv
<1>3. IsRing(NUM, Laps, used, used_idx, used_head) /\ used_idx = used_head
  BY RingIs, Zenon DEF IoInv, RequestInv, IntrEnd
<1>4. Full(NUM, used) = {}
  BY <1>1, <1>2, <1>3, EqualIsEmpty, Zenon
<1>5. Filled(used) = {}
  BY <1>4, RingIs, Zenon
<1> QED BY <1>5, IntrEnd_Step, Zenon

LEMMA DeviceFetch_Inv ==
  ASSUME IoInv, DeviceFetch PROVE IoInv'
<1>1. /\ NUM \in Nat \ {0} /\ Laps \in Nat \ {0} /\ NoDesc = Vacant
      /\ dev_idx \in Int /\ dev_idx \in 0..(NUM * Laps - 1)
  BY Num, Counters, Zenon DEF IoInv, Vacant
<1>2. /\ dev_idx # avail_idx /\ dev_idx' = (dev_idx + 1) % (NUM * Laps)
      /\ avail' = [avail EXCEPT ![dev_idx % NUM] = Vacant] /\ NUM' = NUM /\ avail_idx' = avail_idx
  BY <1>1, Zenon DEF DeviceFetch, IDXMOD
<1>3. IsRing(NUM, Laps, avail, dev_idx, avail_idx)
  BY RingIs, Zenon DEF IoInv, RequestInv
<1>4. Full(NUM, avail) # {}
  <2>1. Full(NUM, avail) = {} => avail_idx = dev_idx
    BY <1>1, <1>3, EmptyIsEqual, Zenon
  <2> QED BY <1>2, <2>1, Zenon
<1>5. DOMAIN avail = 0..(NUM - 1)
  BY Zenon DEF IoInv, DiskTypes, Desc
<1>6. /\ IsRing(NUM, Laps, [avail EXCEPT ![dev_idx % NUM] = Vacant], (dev_idx + 1) % (NUM * Laps), avail_idx)
      /\ avail[dev_idx % NUM] \in HeadsOf(NUM, avail)
      /\ HeadsOf(NUM, [avail EXCEPT ![dev_idx % NUM] = Vacant]) = HeadsOf(NUM, avail) \ {avail[dev_idx % NUM]}
  BY <1>1, <1>3, <1>4, <1>5, TakeRing, Zenon
<1>7. IsRing(NUM, Laps, avail', dev_idx', avail_idx')
  BY <1>2, <1>6, Zenon
<1>8. HeadsOf(NUM, avail') = HeadsOf(NUM, avail) \ {avail[dev_idx % NUM]}
  BY <1>2, <1>6, Zenon
<1>9. AvailTaken(avail[dev_idx % NUM])
  BY <1>2, <1>6, <1>7, <1>8, RingsNext, RingIs, Zenon DEF AvailTaken
<1> QED BY <1>9, DeviceFetch_Step, Zenon

LEMMA DeviceFinish_Inv ==
  ASSUME IoInv, NEW h \in inflight, DeviceFinish(h) PROVE IoInv'
<1>1. /\ NUM \in Nat \ {0} /\ Laps \in Nat \ {0} /\ NoDesc = Vacant /\ used_idx \in Int
  BY Num, Counters, Zenon DEF IoInv, Vacant
<1>2. /\ used_head' = (used_head + 1) % (NUM * Laps) /\ used' = [used EXCEPT ![used_head % NUM] = h]
      /\ NUM' = NUM /\ used_idx' = used_idx
  BY DEF DeviceFinish, IDXMOD
<1>3. IsRing(NUM, Laps, used, used_idx, used_head) /\ Cardinality(Full(NUM, used)) < NUM
  BY RingIs, UsedNotFull, Zenon DEF IoInv, RequestInv
<1>4. h \in Desc /\ h \notin Heads(used)
  BY RequestOwner, Zenon DEF IoInv, RequestInv
<1>5. h # Vacant /\ h \notin HeadsOf(NUM, used)
  BY <1>1, <1>4, Num, RingIs, Zenon DEF IoInv
<1>6. DOMAIN used = 0..(NUM - 1)
  BY Zenon DEF IoInv, DiskTypes, Desc
<1>7. Puts(NUM, Laps, used, used_idx, used_head, h, used')
  BY <1>1, <1>2, <1>3, <1>5, <1>6, PutRing, Zenon
<1>8. IsRing(NUM, Laps, used', used_idx', used_head') /\ HeadsOf(NUM, used') = HeadsOf(NUM, used) \cup {h}
  BY <1>2, <1>7, Zenon DEF Puts
<1>9. UsedPut(h)
  BY <1>2, <1>8, RingsNext, RingIs, Zenon DEF UsedPut
<1> QED BY <1>9, DeviceFinish_Step, Zenon

LEMMA IntrOne_Inv ==
  ASSUME IoInv, IntrOne PROVE IoInv'
<1>1. /\ NUM \in Nat \ {0} /\ Laps \in Nat \ {0} /\ NoDesc = Vacant
      /\ used_idx \in Int /\ used_idx \in 0..(NUM * Laps - 1)
  BY Num, Counters, Zenon DEF IoInv, Vacant
<1>2. /\ used_idx # used_head /\ used_idx' = (used_idx + 1) % (NUM * Laps)
      /\ used' = [used EXCEPT ![used_idx % NUM] = Vacant] /\ NUM' = NUM /\ used_head' = used_head
  BY <1>1, Zenon DEF IntrOne, IDXMOD
<1>3. IsRing(NUM, Laps, used, used_idx, used_head)
  BY RingIs, Zenon DEF IoInv, RequestInv
<1>4. Full(NUM, used) # {}
  <2>1. Full(NUM, used) = {} => used_head = used_idx
    BY <1>1, <1>3, EmptyIsEqual, Zenon
  <2> QED BY <1>2, <2>1, Zenon
<1>5. DOMAIN used = 0..(NUM - 1)
  BY Zenon DEF IoInv, DiskTypes, Desc
<1>6. /\ IsRing(NUM, Laps, [used EXCEPT ![used_idx % NUM] = Vacant], (used_idx + 1) % (NUM * Laps), used_head)
      /\ used[used_idx % NUM] \in HeadsOf(NUM, used)
      /\ HeadsOf(NUM, [used EXCEPT ![used_idx % NUM] = Vacant]) = HeadsOf(NUM, used) \ {used[used_idx % NUM]}
  BY <1>1, <1>3, <1>4, <1>5, TakeRing, Zenon
<1>7. IsRing(NUM, Laps, used', used_idx', used_head')
  BY <1>2, <1>6, Zenon
<1>8. HeadsOf(NUM, used') = HeadsOf(NUM, used) \ {used[used_idx % NUM]}
  BY <1>2, <1>6, Zenon
<1>9. UsedTaken(used[used_idx % NUM])
  BY <1>2, <1>6, <1>7, <1>8, RingsNext, RingIs, Zenon DEF UsedTaken
<1> QED BY <1>9, IntrOne_Step, Zenon

-----------------------------------------------------------------------------
(* The users of a buffer. *)
LEMMA UsersCounted == UsersAreNat
<1>1. ASSUME NEW b PROVE Users(b) \in Nat /\ (Users(b) = 0 <=> \A q \in Procs : buf[q] # b)
  <2>1. Users(b) = Count(Procs, buf, b)
    BY Zenon DEF Users, Count
  <2> QED BY <2>1, CountNat, BlockIoAssumption, Zenon
<1> QED BY <1>1, Zenon DEF UsersAreNat

LEMMA UsersMove ==
  ASSUME ProcTypes, NEW p \in Procs, NEW a, buf[p] = a, NEW b, a # b,
         buf'[p] = b, \A q \in Procs : q # p => buf'[q] = buf[q]
  PROVE  UsersMoved(a, b)
<1>1. PICK f : f = buf
  BY Zenon
<1>2. PICK g : g = buf'
  BY Zenon
<1>3. \A c : Users(c) = Count(Procs, f, c) /\ Users(c)' = Count(Procs, g, c)
  BY <1>1, <1>2, Zenon DEF Users, Count
<1>4. Sends(Procs, f, p, a, b, g) /\ IsFiniteSet(Procs)
  BY <1>1, <1>2, BlockIoAssumption, Zenon DEF Sends
<1>5. OneMoved(Procs, f, a, b, g)
  BY <1>4, CountMoves, Zenon
<1> QED BY <1>3, <1>5, Zenon DEF OneMoved, UsersMoved

LEMMA FrontKeepsAll ==
  ASSUME lru \in Seq(Bufs), \A x \in Bufs : \E i \in DOMAIN lru : lru[i] = x, NEW b \in Bufs
  PROVE  /\ MoveToFront(b) \in Seq(Bufs)
         /\ \A x \in Bufs : \E i \in DOMAIN MoveToFront(b) : MoveToFront(b)[i] = x
<1>1. PICK k : k = CHOOSE i \in DOMAIN lru : lru[i] = b
  BY Zenon
<1>2. k \in DOMAIN lru /\ lru[k] = b
  BY <1>1, Zenon
<1>3. DOMAIN lru = 1..Len(lru)
  OBVIOUS
<1>4. PICK m : m = MoveToFront(b)
  BY Zenon
<1>5. m = <<lru[k]>> \o Cut(lru, k)
  BY <1>1, <1>2, <1>4, Zenon DEF MoveToFront, Cut
<1>6. m \in Seq(Bufs) /\ \A i \in 1..Len(lru) : \E j \in 1..Len(m) : m[j] = lru[i]
  <2>1. KeepsAll(Bufs, lru, <<lru[k]>> \o Cut(lru, k))
    BY <1>2, <1>3, MovedElements, Zenon
  <2> QED BY <1>5, <2>1, Zenon DEF KeepsAll
<1>7. DOMAIN m = 1..Len(m)
  BY <1>6
<1>8. ASSUME NEW x \in Bufs PROVE \E i \in DOMAIN m : m[i] = x
  <2>1. PICK i \in 1..Len(lru) : lru[i] = x
    BY <1>3, Zenon
  <2> QED BY <1>6, <1>7, <2>1, Zenon
<1> QED BY <1>4, <1>6, <1>8, Zenon

LEMMA brelse_Inv ==
  ASSUME IoInv, NEW p \in Procs, brelse(p) PROVE IoInv'
<1>1. /\ pc[p] # "idle" /\ buf' = [buf EXCEPT ![p] = NoBuf]
      /\ lru' = (IF refcnt[buf[p]] = 1 THEN MoveToFront(buf[p]) ELSE lru)
  BY DEF brelse
<1>2. buf[p] \in Bufs /\ buf[p] # NoBuf
  BY <1>1, Zenon DEF IoInv, BufferInv, ProcTypes
<1>3. ListsAll'
  <2>1. lru \in Seq(Bufs) /\ \A x \in Bufs : \E i \in DOMAIN lru : lru[i] = x
    BY Zenon DEF IoInv, BufTypes, BufferInv
  <2>2. lru' = lru \/ lru' = MoveToFront(buf[p])
    BY <1>1, Zenon
  <2>3. CASE lru' = lru
    BY <2>1, <2>3, Zenon DEF ListsAll
  <2>4. CASE lru' = MoveToFront(buf[p])
    <3>1. /\ MoveToFront(buf[p]) \in Seq(Bufs)
          /\ \A x \in Bufs : \E i \in DOMAIN MoveToFront(buf[p]) : MoveToFront(buf[p])[i] = x
      BY <1>2, <2>1, FrontKeepsAll, Zenon
    <3> QED BY <2>4, <3>1, Zenon DEF ListsAll
  <2> QED BY <2>2, <2>3, <2>4, Zenon
<1>4. UsersMoved(buf[p], NoBuf)
  <2>1. buf'[p] = NoBuf /\ \A q \in Procs : q # p => buf'[q] = buf[q]
    BY <1>1, Zenon DEF IoInv, ProcTypes
  <2> QED BY <1>2, <2>1, UsersMove, Zenon DEF IoInv
<1> QED BY <1>3, <1>4, UsersCounted, brelse_Step, Zenon

LEMMA bpin_Inv ==
  ASSUME IoInv, NEW p \in Procs, bpin(p) PROVE IoInv'
<1>1. PICK k : k = blockno[buf[p]]
  BY Zenon
<1>2. pinned' = pinned \cup {k} /\ (k \notin pinned => Cardinality(pinned) < MaxPins)
  BY <1>1, Zenon DEF bpin
<1>3. IsFiniteSet(pinned) /\ Cardinality(pinned) <= MaxPins
  BY Zenon DEF IoInv, BufferInv
<1>4. PinsBounded'
  <2>1. CASE k \in pinned
    <3>1. pinned' = pinned
      BY <1>2, <2>1, Zenon
    <3> QED BY <1>3, <3>1, Zenon DEF PinsBounded
  <2>2. CASE k \notin pinned
    <3>1. IsFiniteSet(pinned \cup {k}) /\ Cardinality(pinned \cup {k}) = Cardinality(pinned) + 1
      BY <1>3, <2>2, FS_AddElement, Zenon
    <3>2. Cardinality(pinned) \in Nat /\ MaxPins \in Nat
      BY <1>3, FS_CardinalityType, BlockIoAssumption, Zenon
    <3>3. Cardinality(pinned) + 1 <= MaxPins
      BY <1>2, <2>2, <3>2, SMTT(30)
    <3> QED BY <1>2, <3>1, <3>3, Zenon DEF PinsBounded
  <2> QED BY <2>1, <2>2, Zenon
<1> QED BY <1>4, UsersCounted, bpin_Step, Zenon

LEMMA bunpin_Inv ==
  ASSUME IoInv, NEW p \in Procs, bunpin(p) PROVE IoInv'
<1>1. PICK k : k = blockno[buf[p]]
  BY Zenon
<1>2. pinned' = pinned \ {k} /\ k \in pinned
  BY <1>1, Zenon DEF bunpin
<1>3. IsFiniteSet(pinned) /\ Cardinality(pinned) <= MaxPins
  BY Zenon DEF IoInv, BufferInv
<1>4. IsFiniteSet(pinned \ {k}) /\ Cardinality(pinned \ {k}) = Cardinality(pinned) - 1
  BY <1>2, <1>3, FS_RemoveElement, Zenon
<1>5. Cardinality(pinned) \in Nat /\ MaxPins \in Nat
  BY <1>3, FS_CardinalityType, BlockIoAssumption, Zenon
<1>6. Cardinality(pinned) - 1 <= MaxPins
  BY <1>3, <1>5
<1>7. PinsBounded'
  BY <1>2, <1>4, <1>6, Zenon DEF PinsBounded
<1> QED BY <1>7, UsersCounted, bunpin_Step, Zenon

-----------------------------------------------------------------------------
(* bget. *)

(* A buffer that nobody uses and the log has not pinned is there. *)
LEMMA SomeUnused ==
  ASSUME IoInv, NEW p \in Procs, pc[p] = "idle"
  PROVE  Unused # {}
<1> SUFFICES ASSUME Unused = {} PROVE FALSE
  BY Zenon
<1>1. ASSUME NEW b \in Bufs PROVE (\E q \in Procs \ {p} : buf[q] = b) \/ blockno[b] \in pinned
  <2>1. refcnt[b] # 0
    <3>1. PICK i \in DOMAIN lru : lru[i] = b
      BY Zenon DEF IoInv, BufferInv
    <3>2. i \notin Unused
      BY Zenon
    <3>3. refcnt[lru[i]] # 0
      BY <3>2, Zenon DEF Unused
    <3> QED BY <3>1, <3>3, Zenon
  <2>2. Users(b) # 0 \/ Pins(b) = 1
    <3>1. refcnt[b] = Users(b) + Pins(b) /\ Users(b) \in Nat /\ Pins(b) \in {0, 1}
      BY UsersNat, UsersCounted, Zenon DEF IoInv, BufferInv
    <3> QED BY <2>1, <3>1
  <2>3. buf[p] # b
    <3>1. buf[p] = NoBuf
      BY Zenon DEF IoInv, BufferInv
    <3> QED BY <3>1, BlockIoAssumption, Zenon
  <2> QED BY <2>2, <2>3, UsersNat, UsersCounted, Zenon
<1>2. \A b, c \in Bufs : blockno[b] = blockno[c] /\ blockno[b] \in pinned => b = c
  <2>1. NoBlock \notin pinned
    BY BlockIoAssumption, Zenon DEF IoInv, BufTypes
  <2> QED BY <2>1, Zenon DEF IoInv, BufferInv
<1>3. IsFiniteSet(Procs) /\ IsFiniteSet(pinned) /\ IsFiniteSet(Bufs)
  BY BlockIoAssumption, Zenon DEF IoInv, BufferInv
<1>4. Cardinality(Bufs) < Cardinality(Procs) + Cardinality(pinned)
  <2>1. Covers(Procs, p, pinned, Bufs, buf, blockno)
    BY <1>1, <1>2, Zenon DEF Covers
  <2> QED BY <1>3, <2>1, CoverBound, Zenon
<1>5. /\ Cardinality(pinned) <= MaxPins /\ Cardinality(Bufs) >= MaxPins + Cardinality(Procs)
      /\ MaxPins \in Nat
  BY BlockIoAssumption, Zenon DEF IoInv, BufferInv
<1>6. Cardinality(Bufs) \in Nat /\ Cardinality(Procs) \in Nat /\ Cardinality(pinned) \in Nat
  BY <1>3, FS_CardinalityType, Zenon
<1> QED BY <1>4, <1>5, <1>6

LEMMA GotUsers ==
  ASSUME IoInv, NEW p \in Procs, NEW b \in Bufs, Got(p, b) PROVE UsersMoved(NoBuf, b)
<1>1. buf[p] = NoBuf /\ b # NoBuf
  BY BlockIoAssumption, Zenon DEF Got, IoInv, BufferInv
<1>2. buf'[p] = b /\ \A q \in Procs : q # p => buf'[q] = buf[q]
  BY Zenon DEF Got, IoInv, ProcTypes
<1> QED BY <1>1, <1>2, UsersMove, Zenon DEF IoInv

LEMMA bget_Inv ==
  ASSUME IoInv, NEW p \in Procs, NEW k \in Blocks, bget(p, k) PROVE IoInv'
<1>1. /\ pc[p] = "idle" /\ lru' = lru /\ locked' = locked /\ UNCHANGED devvars
      /\ write' = write /\ head' = head /\ pinned' = pinned
  BY Zenon DEF bget
<1>2. Unused # {}
  BY <1>1, SomeUnused, Zenon
<1>3. CASE \E b \in Cached(k) :
             /\ refcnt' = [refcnt EXCEPT ![b] = @ + 1]
             /\ buf' = [buf EXCEPT ![p] = b]
             /\ Go(p, "lock")
             /\ UNCHANGED <<blockno, valid, current, panicked>>
  <2>1. PICK b \in Cached(k) :
             /\ refcnt' = [refcnt EXCEPT ![b] = @ + 1]
             /\ buf' = [buf EXCEPT ![p] = b]
             /\ Go(p, "lock")
             /\ UNCHANGED <<blockno, valid, current, panicked>>
    BY <1>3, Zenon
  <2>2. b \in Bufs /\ blockno[b] = k
    BY Zenon DEF Cached
  <2>3. /\ Got(p, b) /\ blockno' = blockno /\ valid' = valid /\ current' = current
        /\ refcnt' = [refcnt EXCEPT ![b] = @ + 1]
    BY <1>1, <2>1, Zenon DEF Got
  <2> QED BY <2>2, <2>3, UsersCounted, GotUsers, bget_cached_Step, ZenonT(40)
<1>4. CASE /\ Cached(k) = {}
           /\ LET b == lru[CHOOSE i \in Unused : \A j \in Unused : j <= i]
              IN /\ blockno' = [blockno EXCEPT ![b] = k] /\ valid' = [valid EXCEPT ![b] = FALSE]
                 /\ refcnt' = [refcnt EXCEPT ![b] = 1] /\ current' = [current EXCEPT ![b] = FALSE]
                 /\ buf' = [buf EXCEPT ![p] = b]
           /\ Go(p, "lock")
           /\ UNCHANGED panicked
  <2>1. PICK l : l = CHOOSE i \in Unused : \A j \in Unused : j <= i
    BY Zenon
  <2>2. l \in Unused
    <3>1. PICK n \in Nat : DOMAIN lru = 1..n
      BY DEF IoInv, BufTypes
    <3>2. Unused \subseteq 1..n
      BY <3>1, Zenon DEF Unused
    <3>3. \E x \in Unused : \A y \in Unused : x >= y
      BY <1>2, <3>2, LargestExists, Zenon
    <3>4. \E x \in Unused : \A y \in Unused : y <= x
      BY <3>2, <3>3
    <3> QED BY <2>1, <3>4, Zenon
  <2>3. PICK b : b = lru[l]
    BY Zenon
  <2>4. b \in Bufs /\ refcnt[b] = 0
    BY <2>2, <2>3 DEF Unused, IoInv, BufTypes
  <2>5. /\ blockno' = [blockno EXCEPT ![b] = k] /\ valid' = [valid EXCEPT ![b] = FALSE]
        /\ refcnt' = [refcnt EXCEPT ![b] = 1] /\ current' = [current EXCEPT ![b] = FALSE]
        /\ buf' = [buf EXCEPT ![p] = b]
    BY <1>4, <2>1, <2>3, Zenon
  <2>6. Got(p, b)
    BY <1>1, <1>4, <2>5, Zenon DEF Got
  <2> QED BY <1>4, <2>4, <2>5, <2>6, UsersCounted, GotUsers, bget_recycled_Step, Zenon
<1> QED BY <1>2, <1>3, <1>4, Zenon DEF bget

LEMMA Lowest3Free ==
  ASSUME DiskTypes, Cardinality(free) >= 3 PROVE Three(Lowest3, free)
<1>1. free \subseteq Nat /\ IsFiniteSet(free)
  <2>1. Desc \subseteq Nat
    BY Num DEF Desc
  <2> QED BY <2>1, DescFinite, Zenon DEF DiskTypes
<1>2. ASSUME NEW i \in 1..3
      PROVE  Lowest3[i] \in free /\ Cardinality({e \in free : e < Lowest3[i]}) = i - 1
  <2>1. \E d \in free : Cardinality({e \in free : e < d}) = i - 1
    BY <1>1, LowestThree, Zenon
  <2>2. Lowest3[i] = CHOOSE d \in free : Cardinality({e \in free : e < d}) = i - 1
    BY Zenon DEF Lowest3
  <2> QED BY <2>1, <2>2, Zenon
<1>3. Lowest3 \in [1..3 -> free]
  BY <1>2, Zenon DEF Lowest3
<1>4. ASSUME NEW i \in 1..3, NEW j \in 1..3, Lowest3[i] = Lowest3[j] PROVE i = j
  <2>1. i - 1 = j - 1
    BY <1>2, <1>4, Zenon
  <2> QED BY <2>1
<1> QED BY <1>3, <1>4, Zenon DEF Three

(* The head of the new request goes to the ring. *)
LEMMA RequestOffered ==
  ASSUME DiskTypes, DescInv, RequestInv, NEW h \in free, NUM' = NUM, dev_idx' = dev_idx,
         avail' = [avail EXCEPT ![avail_idx % NUM] = h], avail_idx' = (avail_idx + 1) % IDXMOD
  PROVE  /\ Ring(avail, dev_idx, avail_idx)' /\ Heads(avail)' = Heads(avail) \cup {h}
         /\ avail' \in [Desc -> Desc \cup {NoDesc}] /\ avail_idx' \in 0..IDXMOD - 1
         /\ h \notin Heads(avail) /\ h \notin inflight /\ h \notin Heads(used)
<1>1. \A x \in Heads(avail) \cup inflight \cup Heads(used) : x \notin free
  <2>1. \A x \in Heads(avail) \cup inflight \cup Heads(used) : \E q \in Waiting : x = head[q]
    BY Zenon DEF RequestInv
  <2>2. \A q \in Waiting : head[q] \notin free
    BY HeadTaken, Zenon DEF Waiting, Asking
  <2> QED BY <2>1, <2>2, Zenon
<1>2. h \in Desc /\ h # NoDesc /\ h \notin Heads(avail) /\ h \notin inflight /\ h \notin Heads(used)
  BY <1>1, Num, Zenon DEF DiskTypes
<1>3. Cardinality(Filled(avail)) < NUM
  BY <1>2, RoomLeft, Zenon DEF DiskTypes, RequestInv
<1>4. /\ NUM \in Nat \ {0} /\ Laps \in Nat \ {0} /\ IDXMOD \in Nat \ {0} /\ dev_idx \in Int /\ avail_idx \in Int
      /\ NoDesc = Vacant
  <2>1. \A x \in 0..IDXMOD - 1 : x \in Int
    OBVIOUS
  <2>2. NoDesc = Vacant
    BY DEF NoDesc, Vacant
  <2> QED BY <2>1, <2>2, Num, Zenon DEF DiskTypes
<1>5. /\ DOMAIN avail = 0..(NUM - 1) /\ IsRing(NUM, Laps, avail, dev_idx, avail_idx)
      /\ Cardinality(Full(NUM, avail)) < NUM /\ h # Vacant /\ h \notin HeadsOf(NUM, avail)
  <2>1. IsRing(NUM, Laps, avail, dev_idx, avail_idx)
    BY RingIs, Zenon DEF RequestInv
  <2>2. Cardinality(Full(NUM, avail)) < NUM /\ h \notin HeadsOf(NUM, avail)
    BY <1>2, <1>3, RingIs, Zenon
  <2>3. DOMAIN avail = 0..(NUM - 1)
    BY Zenon DEF DiskTypes, Desc
  <2> QED BY <1>2, <1>4, <2>1, <2>2, <2>3, Zenon
<1>6. Puts(NUM, Laps, avail, dev_idx, avail_idx, h, [avail EXCEPT ![avail_idx % NUM] = h])
  BY <1>4, <1>5, PutRing, Zenon
<1>7. Puts(NUM, Laps, avail, dev_idx, avail_idx, h, avail')
  BY <1>6, Zenon
<1>8. IsRing(NUM, Laps, avail', dev_idx, avail_idx') /\ HeadsOf(NUM, avail') = HeadsOf(NUM, avail) \cup {h}
  BY <1>7, Zenon DEF Puts, IDXMOD
<1>9. avail_idx % NUM \in Desc /\ avail_idx' \in 0..IDXMOD - 1
  <2>1. avail_idx % NUM \in 0..(NUM - 1) /\ (avail_idx + 1) % IDXMOD \in 0..(IDXMOD - 1)
    BY <1>4, ModRest, avail_idx + 1 \in Int
  <2> QED BY <2>1, Zenon DEF Desc
<1>10. avail' \in [Desc -> Desc \cup {NoDesc}]
  BY <1>2, <1>9, Zenon DEF DiskTypes
<1>11. Ring(avail, dev_idx, avail_idx)' /\ Heads(avail)' = Heads(avail) \cup {h}
  BY <1>8, RingsNext, RingIs, Zenon
<1> QED BY <1>2, <1>9, <1>10, <1>11, Zenon

LEMMA virtio_disk_rw_Inv ==
  ASSUME IoInv, NEW p \in Procs, virtio_disk_rw(p) PROVE IoInv'
<1>1. /\ Cardinality(free) >= 3 /\ NUM' = NUM /\ dev_idx' = dev_idx
      /\ avail_idx' = (avail_idx + 1) % IDXMOD /\ avail' = [avail EXCEPT ![avail_idx % NUM] = Lowest3[1]]
  BY Zenon DEF virtio_disk_rw
<1>2. Three(Lowest3, free) /\ Cardinality(free) \in Nat
  BY <1>1, Lowest3Free, DescFinite, Zenon DEF IoInv
<1>3. Lowest3[1] \in free
  BY <1>2, OneToThree, Zenon DEF Three
<1>4. AvailPut(Lowest3[1])
  BY <1>1, <1>3, RequestOffered, Zenon DEF IoInv, AvailPut
<1> QED BY <1>2, <1>4, virtio_disk_rw_Step, Zenon

-----------------------------------------------------------------------------
(* The invariant holds at the start. *)
LEMMA EmptyRing ==
  ASSUME NEW r, NUM \in Nat \ {0}, Laps \in Nat \ {0}, \A i \in Desc : r[i] = NoDesc
  PROVE  Ring(r, 0, 0) /\ Filled(r) = {} /\ Heads(r) = {}
<1>1. Filled(r) = {}
  BY Zenon DEF Filled
<1>2. Heads(r) = {}
  BY <1>1, Zenon DEF Heads
<1>3. Cardinality(Filled(r)) = 0
  BY <1>1, FS_EmptySet, Zenon
<1>4. IDXMOD \in Nat \ {0}
  BY DEF IDXMOD
<1>5. 0 = (0 + 0) % IDXMOD /\ {(0 + k) % NUM : k \in 0..(0 - 1)} = {}
  <2>1. (IDXMOD * 0 + 0) % IDXMOD = 0
    BY <1>4, ModUnique, 0 \in Int, 0 \in 0..(IDXMOD - 1)
  <2>2. IDXMOD * 0 + 0 = 0 /\ 0 + 0 = 0
    BY <1>4
  <2>3. 0..(0 - 1) = {}
    OBVIOUS
  <2> QED BY <2>1, <2>2, <2>3
<1> QED BY <1>1, <1>2, <1>3, <1>5, Zenon DEF Ring

LEMMA IoInit == Init => IoInv
<1> SUFFICES ASSUME Init PROVE IoInv
  OBVIOUS
<1>1. NUM \in NUMs /\ NUM \in Nat \ {0} /\ Laps \in Nat \ {0} /\ IDXMOD \in Nat \ {0}
  <2>1. NUM \in NUMs
    BY Zenon DEF Init
  <2>2. NUM \in Nat /\ NUM >= 3 /\ Laps \in Nat \ {0}
    BY <2>1, BlockIoAssumption, Zenon
  <2>3. NUM \in Nat \ {0} /\ IDXMOD \in Nat \ {0}
    BY <2>2 DEF IDXMOD
  <2> QED BY <2>1, <2>2, <2>3, Zenon
<1>2. /\ pc = [q \in Procs |-> "idle"] /\ buf = [q \in Procs |-> NoBuf]
      /\ write = [q \in Procs |-> FALSE] /\ head = [q \in Procs |-> NoDesc]
      /\ platter = [k \in Blocks |-> TRUE] /\ pinned = {} /\ panicked = FALSE
      /\ blockno = [b \in Bufs |-> NoBlock] /\ valid = [b \in Bufs |-> FALSE]
      /\ refcnt = [b \in Bufs |-> 0] /\ locked = [b \in Bufs |-> FALSE]
      /\ current = [b \in Bufs |-> FALSE] /\ disk = [b \in Bufs |-> FALSE]
      /\ lru \in Bijection(1..Cardinality(Bufs), Bufs)
  BY Zenon DEF Init
<1>3. /\ free = Desc /\ chain = [i \in Desc |-> <<>>] /\ info = [i \in Desc |-> NoBuf]
      /\ avail = [i \in Desc |-> NoDesc] /\ used = [i \in Desc |-> NoDesc]
      /\ avail_idx = 0 /\ used_head = 0 /\ used_idx = 0 /\ dev_idx = 0
      /\ inflight = {} /\ irq = FALSE /\ intr = FALSE
  BY Zenon DEF Init, virtio_disk_init
<1>4. /\ \A q \in Procs : pc[q] = "idle" /\ buf[q] = NoBuf /\ head[q] = NoDesc
      /\ \A b \in Bufs : blockno[b] = NoBlock /\ ~valid[b] /\ refcnt[b] = 0
  BY <1>2, Zenon
<1>5. /\ "idle" \in Labels /\ "idle" \notin HasLock /\ "idle" \notin InIo
      /\ "idle" \notin {"asleep on buf", "io done"} /\ "idle" \notin {"have", "written", "release"}
      /\ "idle" # "asleep on lock" /\ "idle" # "asleep on free" /\ "idle" # "asleep on buf"
      /\ "idle" # "written" /\ "idle" # "io done"
  BY DEF Labels, HasLock, InIo
<1>6. Asking = {} /\ Waiting = {}
  BY <1>4, <1>5, Zenon DEF Asking, Waiting
<1>7. BufTypes
  <2>1. lru \in Seq(Bufs)
    <3>1. IsFiniteSet(Bufs)
      BY BlockIoAssumption, Zenon
    <3>2. Cardinality(Bufs) \in Nat
      BY <3>1, FS_CardinalityType, Zenon
    <3>3. lru \in [1..Cardinality(Bufs) -> Bufs]
      BY <1>2, Zenon DEF Bijection, Injection
    <3> QED BY <3>2, <3>3
  <2>2. /\ blockno \in [Bufs -> Blocks \cup {NoBlock}]
        /\ valid \in [Bufs -> BOOLEAN] /\ locked \in [Bufs -> BOOLEAN]
        /\ current \in [Bufs -> BOOLEAN] /\ disk \in [Bufs -> BOOLEAN]
        /\ platter \in [Blocks -> BOOLEAN] /\ pinned \subseteq Blocks
    BY <1>2, Zenon
  <2>3. refcnt \in [Bufs -> Nat]
    BY <1>2
  <2> QED BY <2>1, <2>2, <2>3, Zenon DEF BufTypes
<1>8. ProcTypes
  BY <1>2, <1>5, Zenon DEF ProcTypes
<1>9. DiskTypes
  <2>1. {avail_idx, dev_idx, used_head, used_idx} \subseteq 0..IDXMOD - 1
    BY <1>1, <1>3
  <2> QED BY <1>1, <1>3, <2>1, Zenon DEF DiskTypes
<1>10. BufferInv
  <2>1. \A b \in Bufs : \E i \in DOMAIN lru : lru[i] = b
    <3>1. lru \in [1..Cardinality(Bufs) -> Bufs] /\ \A b \in Bufs : \E i \in 1..Cardinality(Bufs) : lru[i] = b
      BY <1>2, Zenon DEF Bijection, Injection, Surjection
    <3> QED BY <3>1, Zenon
  <2>2. ASSUME NEW b \in Bufs PROVE refcnt[b] = Users(b) + Pins(b)
    <3>1. \A q \in Procs : buf[q] # b
      BY <1>4, BlockIoAssumption, Zenon
    <3>2. Users(b) = 0
      BY <3>1, UsersNat, UsersCounted, Zenon
    <3>3. Pins(b) = 0
      BY <1>2, Zenon DEF Pins
    <3> QED BY <1>4, <3>2, <3>3
  <2>3. IsFiniteSet(pinned) /\ Cardinality(pinned) <= MaxPins
    <3>1. IsFiniteSet(pinned) /\ Cardinality(pinned) = 0 /\ MaxPins \in Nat
      BY <1>2, FS_EmptySet, BlockIoAssumption, Zenon
    <3> QED BY <3>1
  <2> QED BY <1>2, <1>4, <2>1, <2>2, <2>3, Zenon DEF BufferInv
<1>11. LockInv
  BY <1>4, <1>5, Zenon DEF LockInv
<1>12. DescInv
  <2>1. \A d \in Desc : d \in free /\ chain[d] = <<>>
    BY <1>3, Zenon
  <2> QED BY <1>4, <1>5, <1>6, <2>1, Zenon DEF DescInv, Apart
<1>13. RequestInv
  <2>1. /\ Ring(avail, 0, 0) /\ Filled(avail) = {} /\ Heads(avail) = {}
        /\ Ring(used, 0, 0) /\ Filled(used) = {} /\ Heads(used) = {}
    <3>1. (\A i \in Desc : avail[i] = NoDesc) /\ (\A i \in Desc : used[i] = NoDesc)
      BY <1>3, Zenon
    <3> QED BY <1>1, <3>1, EmptyRing, Zenon
  <2>2. Ring(avail, dev_idx, avail_idx) /\ Ring(used, used_idx, used_head)
    BY <1>3, <2>1, Zenon
  <2> QED BY <1>3, <1>6, <2>1, <2>2, Zenon DEF RequestInv
<1>14. DataInv
  <2>1. \A q \in Procs : Sees(q)
    BY <1>4, <1>5, Zenon DEF Sees, Done
  <2>2. \A k \in Blocks : platter[k]
    BY <1>2, Zenon
  <2> QED BY <1>4, <2>1, <2>2, Zenon DEF DataInv
<1> QED BY <1>2, <1>7, <1>8, <1>9, <1>10, <1>11, <1>12, <1>13, <1>14, Zenon DEF IoInv

LEMMA IoNext == IoInv /\ [Next]_vars => IoInv'
<1> SUFFICES ASSUME IoInv, [Next]_vars PROVE IoInv'
  OBVIOUS
<1>1. ASSUME NEW p \in Procs, Step(p) PROVE IoInv'
  BY <1>1, acquiresleep_Inv, bunpin_Inv, releasesleep_Inv, brelse_Inv, alloc3_desc_fails_Inv,
     virtio_disk_rw_Inv, free_chain_Inv, Zenon DEF Step
<1>2. ASSUME NEW p \in Procs, install(p) \/ bwrite(p) \/ bpin(p) PROVE IoInv'
  BY <1>2, install_Inv, bwrite_Inv, bpin_Inv, Zenon
<1>3. ASSUME NEW p \in Procs, NEW k \in Blocks, bget(p, k) PROVE IoInv'
  BY <1>3, bget_Inv, Zenon
<1>4. ASSUME Device PROVE IoInv'
  BY <1>4, DeviceFetch_Inv, DeviceFinish_Inv, Zenon DEF Device
<1>5. ASSUME Interrupt PROVE IoInv'
  BY <1>5, IntrAck_Inv, IntrOne_Inv, IntrEnd_Inv, Zenon DEF Interrupt
<1>6. CASE UNCHANGED vars
  BY <1>6, IoStutters, Zenon
<1> QED BY <1>1, <1>2, <1>3, <1>4, <1>5, <1>6, Zenon DEF Next

-----------------------------------------------------------------------------
(* The invariant of bio.c, sleeplock.c and virtio_disk.c together: of the    *)
(* buffers and their locks, of the descriptors and the two rings, and of     *)
(* what each copy of a block holds.                                          *)
THEOREM IoCorrect == Spec => []IoInv
<1> QED BY IoInit, IoNext, PTL DEF Spec

(* Whoever bread hands a buffer to sees what was last written to the block. *)
THEOREM ReadCorrect == Spec => []ReadsLastWrite
<1>1. IoInv => ReadsLastWrite
  <2> SUFFICES ASSUME IoInv, NEW p \in Procs, pc[p] = "have" PROVE current[buf[p]]
    BY Zenon DEF ReadsLastWrite
  <2>1. pc[p] \in HasLock /\ pc[p] \in {"have", "written", "release"}
    BY DEF HasLock
  <2>2. buf[p] \in Bufs /\ valid[buf[p]]
    BY <2>1, OwnBuffer, Zenon DEF IoInv, DataInv, Sees
  <2> QED BY <2>2, Zenon DEF IoInv, DataInv
<1> QED BY <1>1, IoCorrect, PTL

LEMMA OneChain ==
  ASSUME IoInv, NEW d \in Desc
  PROVE  Cardinality({h \in Desc : d \in Range(chain[h])}) = IF d \in free THEN 0 ELSE 1
<1>1. DescInv /\ Range(<<>>) = {}
  BY DEF IoInv, Range
<1>2. ASSUME NEW h \in Desc, d \in Range(chain[h])
      PROVE  \E q \in Asking, i \in 1..3 : h = head[q] /\ d = chain[head[q]][i]
  <2>1. chain[h] # <<>>
    BY <1>1, <1>2, Zenon
  <2>2. PICK q \in Asking : head[q] = h
    BY <1>1, <2>1, Zenon DEF DescInv
  <2>3. chain[h] \in [1..3 -> Desc \ free]
    BY <1>1, <2>2, Zenon DEF DescInv, Linked
  <2>4. PICK i \in 1..3 : d = chain[h][i]
    BY <1>2, <2>3, Zenon DEF Range
  <2> QED BY <2>2, <2>4, Zenon
<1>3. CASE d \in free
  <2>1. \A h \in Desc : d \notin Range(chain[h])
    <3> SUFFICES ASSUME NEW h \in Desc, d \in Range(chain[h]) PROVE FALSE
      BY Zenon
    <3>1. PICK q \in Asking, i \in 1..3 : h = head[q] /\ d = chain[head[q]][i]
      BY <1>2, Zenon
    <3>2. chain[head[q]][i] \in Desc \ free
      BY <1>1, HeadTaken, Zenon
    <3> QED BY <1>3, <3>1, <3>2, Zenon
  <2>2. {h \in Desc : d \in Range(chain[h])} = {}
    BY <2>1, Zenon
  <2> QED BY <1>3, <2>2, FS_EmptySet, Zenon
<1>4. CASE d \notin free
  <2>1. PICK p \in Asking, i \in 1..3 : d = chain[head[p]][i]
    BY <1>1, <1>4, Zenon DEF DescInv
  <2>2. head[p] \in Desc /\ d \in Range(chain[head[p]])
    <3>1. chain[head[p]] \in [1..3 -> Desc \ free]
      BY <1>1, Zenon DEF DescInv, Linked
    <3> QED BY <1>1, <2>1, <3>1, HeadTaken, Zenon DEF Range
  <2>3. ASSUME NEW h \in Desc, d \in Range(chain[h]) PROVE h = head[p]
    <3>1. PICK q \in Asking, j \in 1..3 : h = head[q] /\ d = chain[head[q]][j]
      BY <1>2, <2>3, Zenon
    <3>2. chain[head[q]][j] = chain[head[p]][i] /\ Apart(Asking, head, chain)
      BY <1>1, <2>1, <3>1, Zenon DEF DescInv
    <3>3. \A x, y \in 1..3 : chain[head[q]][x] = chain[head[p]][y] => q = p /\ x = y
      BY <3>2, Zenon DEF Apart
    <3>4. q = p
      BY <3>2, <3>3, Zenon
    <3> QED BY <3>1, <3>4, Zenon
  <2>4. PICK c : c = head[p]
    BY Zenon
  <2>5. {h \in Desc : d \in Range(chain[h])} = {c}
    BY <2>2, <2>3, <2>4, Zenon
  <2>6. Cardinality({c}) = 1
    BY FS_Singleton, Zenon
  <2> QED BY <1>4, <2>5, <2>6, Zenon
<1> QED BY <1>3, <1>4, Zenon

(* A block is in one buffer, refcnt counts users and pin, a descriptor that *)
(* is not free is in the chain of one request, and no panic is reached.     *)
THEOREM BuffersCorrect == Spec => []BuffersAndDescriptors
<1>1. IoInv => BuffersAndDescriptors
  <2> SUFFICES ASSUME IoInv PROVE BuffersAndDescriptors
    OBVIOUS
  <2>1. ASSUME NEW k \in Blocks PROVE Cardinality(Cached(k)) <= 1
    <3>1. CASE Cached(k) = {}
      <4>1. Cardinality(Cached(k)) = 0
        BY <3>1, FS_EmptySet, Zenon
      <4> QED BY <4>1
    <3>2. CASE Cached(k) # {}
      <4>1. PICK b : b \in Cached(k)
        BY <3>2, Zenon
      <4>2. k # NoBlock
        BY BlockIoAssumption, Zenon
      <4>3. ASSUME NEW x \in Cached(k) PROVE x = b
        <5>1. x \in Bufs /\ b \in Bufs /\ blockno[x] = blockno[b] /\ blockno[x] # NoBlock
          BY <4>1, <4>2, <4>3, Zenon DEF Cached
        <5> QED BY <5>1, Zenon DEF IoInv, BufferInv
      <4>4. Cached(k) = {b}
        BY <4>1, <4>3, Zenon
      <4>5. Cardinality(Cached(k)) = 1
        BY <4>4, FS_Singleton, Zenon
      <4> QED BY <4>5
    <3> QED BY <3>1, <3>2, Zenon
  <2>2. \A b \in Bufs : refcnt[b] = Cardinality({p \in Procs : buf[p] = b})
                                    + (IF blockno[b] \in pinned THEN 1 ELSE 0)
    BY Zenon DEF IoInv, BufferInv, Users, Pins
  <2>3. \A d \in Desc : Cardinality({h \in Desc : d \in Range(chain[h])}) = IF d \in free THEN 0 ELSE 1
    BY OneChain, Zenon
  <2>4. ASSUME NEW h \in Desc, chain[h] # <<>> PROVE h \in {head[p] : p \in Procs} \ {NoDesc}
    <3>1. PICK q \in Asking : head[q] = h
      BY <2>4, Zenon DEF IoInv, DescInv
    <3>2. q \in Procs /\ h # NoDesc
      BY Num, Zenon DEF Asking, IoInv
    <3> QED BY <3>1, <3>2, Zenon
  <2>5. ASSUME NEW p \in Procs, head[p] # NoDesc PROVE head[p] \in Desc /\ chain[head[p]] # <<>>
    <3>1. p \in Asking /\ DescInv
      BY <2>5, Zenon DEF IoInv, DescInv
    <3>2. DOMAIN chain[head[p]] = 1..3
      BY <3>1, Zenon DEF DescInv, Linked
    <3>3. DOMAIN <<>> # 1..3
      OBVIOUS
    <3> QED BY <3>1, <3>2, <3>3, HeadTaken, Zenon
  <2>6. {h \in Desc : chain[h] # <<>>} = {head[p] : p \in Procs} \ {NoDesc}
    BY <2>4, <2>5, ZenonT(40)
  <2>7. ~panicked
    BY Zenon DEF IoInv
  <2> QED BY <2>1, <2>2, <2>3, <2>6, <2>7, Zenon DEF BuffersAndDescriptors
<1> QED BY <1>1, IoCorrect, PTL

(* Nobody sleeps for a lock that is free or for descriptors that are there, *)
(* and whoever sleeps for a transfer has its request with the device or     *)
(* before an interrupt that is still to come or being served.               *)
THEOREM SleepersCorrect == Spec => []SleepersAreNeeded
<1>1. IoInv => SleepersAreNeeded
  <2> SUFFICES ASSUME IoInv, NEW p \in Procs
               PROVE  /\ pc[p] = "asleep on lock" => locked[buf[p]]
                      /\ pc[p] = "asleep on free" => Cardinality(free) < 3
                      /\ pc[p] = "asleep on buf" =>
                           /\ disk[buf[p]]
                           /\ \/ head[p] \in {avail[i] : i \in Desc} \cup inflight
                              \/ head[p] \in {used[i] : i \in Desc} /\ (irq \/ intr)
    BY Zenon DEF SleepersAreNeeded
  <2>1. pc[p] = "asleep on lock" => locked[buf[p]]
    BY Zenon DEF IoInv, LockInv
  <2>2. pc[p] = "asleep on free" => Cardinality(free) < 3
    BY Zenon DEF IoInv, DescInv
  <2>3. ASSUME pc[p] = "asleep on buf"
        PROVE  /\ disk[buf[p]]
               /\ \/ head[p] \in {avail[i] : i \in Desc} \cup inflight
                  \/ head[p] \in {used[i] : i \in Desc} /\ (irq \/ intr)
    <3>1. p \in Waiting
      BY <2>3, Zenon DEF Waiting
    <3>2. disk[buf[p]] /\ head[p] \in Heads(avail) \cup inflight \cup Heads(used)
      BY <3>1, Zenon DEF IoInv, RequestInv
    <3>3. Heads(avail) \subseteq {avail[i] : i \in Desc} /\ Heads(used) \subseteq {used[i] : i \in Desc}
      BY Zenon DEF Heads, Filled
    <3>4. head[p] \in Heads(used) => irq \/ intr
      BY Zenon DEF Heads, IoInv, RequestInv
    <3> QED BY <3>2, <3>3, <3>4, Zenon
  <2> QED BY <2>1, <2>2, <2>3, Zenon
<1> QED BY <1>1, IoCorrect, PTL

==============================================================================
