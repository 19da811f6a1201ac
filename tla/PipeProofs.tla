----------------------------- MODULE PipeProofs -----------------------------
(***************************************************************************)
(* Proofs about Pipe, for any number of processes, any size of the ring    *)
(* and any modulus of the counters that the size divides: the page is      *)
(* freed only when nobody can use it, nobody sleeps through a wakeup, and  *)
(* the ring buffer implements ByteStream.                                  *)
(***************************************************************************)
EXTENDS Pipe, SequenceTheorems, TLAPS

(* Labels at which a process holds pi->lock. *)
Holding == {"write", "write_full", "read_wait", "read_empty", "read_copy"}

(* The number of bytes in the ring. *)
Held == (nwrite + UINT - nread) % UINT

(* pi->lock belongs to the process that is between acquire() and release(). *)
PipeLockInv == \A p \in Procs : pc[p] \in Holding <=> lock = p

(* An end is open as long as a process has its file; the last one to close  *)
(* it goes through pipeclose(), alone.  Whoever is in a call has the file.  *)
EndsInv ==
  /\ freed <=> ~readopen /\ ~writeopen
  /\ ~readopen => readers = {}
  /\ ~writeopen => writers = {}
  /\ \A p \in Procs :
       /\ pc[p] \in InRead => p \in readers
       /\ pc[p] \in InWrite => p \in writers
       /\ pc[p] = "close_read" =>
            readers = {} /\ readopen /\ \A q \in Procs : pc[q] = "close_read" => q = p
       /\ pc[p] = "close_write" =>
            writers = {} /\ writeopen /\ \A q \in Procs : pc[q] = "close_write" => q = p

(* The ring never holds more than it has room for. *)
RingInv == Held <= PIPESIZE

PipeInv == TypeOK /\ PipeLockInv /\ EndsInv /\ RingInv

-----------------------------------------------------------------------------
(* Type correctness. *)

LEMMA InitType == Init => TypeOK
<1> SUFFICES ASSUME Init PROVE TypeOK
  BY Zenon
<1>1. data \in [0..(PIPESIZE - 1) -> Bytes]
  BY Zenon DEF Init
<1>2. nread \in 0..(UINT - 1) /\ nwrite \in 0..(UINT - 1)
  BY PipeAssumption DEF Init
<1>3. pc \in [Procs -> Labels] /\ left \in [Procs -> Nat] /\ killed \in [Procs -> BOOLEAN]
  BY Zenon DEF Init, Labels
<1> QED BY <1>1, <1>2, <1>3, PipeAssumption, Zenon DEF Init, TypeOK

LEMMA TypeStep == TypeOK /\ [Next]_vars => TypeOK'
<1> SUFFICES ASSUME TypeOK, [Next]_vars PROVE TypeOK'
  BY Zenon
<1> USE PipeAssumption
<1>1. ASSUME NEW p \in Procs, WriteCall(p) PROVE TypeOK'
  BY <1>1 DEF WriteCall, LockAt, ring, ends, TypeOK, Labels
<1>2. ASSUME NEW p \in Procs, WriteStep(p) PROVE TypeOK'
  <2>1. CASE WriteAbort(p)
    BY <2>1, Zenon DEF WriteAbort, Return, ReleaseAt, ring, ends, TypeOK, Labels
  <2>2. CASE WriteFull(p)
    BY <2>2, Zenon DEF WriteFull, WakeReaders, ring, ends, TypeOK, Labels
  <2>3. CASE WriteSleep(p)
    BY <2>3, Zenon DEF WriteSleep, ReleaseAt, ring, ends, TypeOK, Labels
  <2>4. CASE WriteByte(p)
    BY <2>4 DEF WriteByte, ends, TypeOK, Labels
  <2>5. CASE WriteDone(p)
    BY <2>5, Zenon DEF WriteDone, Return, ReleaseAt, WakeReaders, ring, ends, TypeOK, Labels
  <2>6. CASE WriteRelock(p)
    BY <2>6, Zenon DEF WriteRelock, LockAt, ring, ends, TypeOK, Labels
  <2> QED BY <1>2, <2>1, <2>2, <2>3, <2>4, <2>5, <2>6, Zenon DEF WriteStep
<1>3. ASSUME NEW p \in Procs, ReadCall(p) PROVE TypeOK'
  BY <1>3 DEF ReadCall, LockAt, ring, ends, TypeOK, Labels
<1>4. ASSUME NEW p \in Procs, ReadStep(p) PROVE TypeOK'
  <2>1. CASE ReadAbort(p)
    BY <2>1, Zenon DEF ReadAbort, Return, ReleaseAt, ring, ends, TypeOK, Labels
  <2>2. CASE ReadEmpty(p)
    BY <2>2, Zenon DEF ReadEmpty, ring, ends, TypeOK, Labels
  <2>3. CASE ReadSleep(p)
    BY <2>3, Zenon DEF ReadSleep, ReleaseAt, ring, ends, TypeOK, Labels
  <2>4. CASE ReadRelock(p)
    BY <2>4, Zenon DEF ReadRelock, LockAt, ring, ends, TypeOK, Labels
  <2>5. CASE ReadReady(p)
    BY <2>5, Zenon DEF ReadReady, ring, ends, TypeOK, Labels
  <2>6. CASE ReadByte(p)
    BY <2>6 DEF ReadByte, ends, TypeOK, Labels
  <2>7. CASE ReadFault(p)
    BY <2>7 DEF ReadFault, Return, ReleaseAt, WakeWriters, ends, TypeOK, Labels
  <2>8. CASE ReadDone(p)
    BY <2>8, Zenon DEF ReadDone, Return, ReleaseAt, WakeWriters, ring, ends, TypeOK, Labels
  <2> QED BY <1>4, <2>1, <2>2, <2>3, <2>4, <2>5, <2>6, <2>7, <2>8, Zenon DEF ReadStep
<1>5. ASSUME NEW p \in Procs, CloseRead(p) \/ CloseWrite(p) PROVE TypeOK'
  BY <1>5, Zenon DEF CloseRead, CloseWrite, ring, TypeOK, Labels
<1>6. ASSUME NEW p \in Procs, pipeclose(p) PROVE TypeOK'
  BY <1>6, Zenon DEF pipeclose, WakeReaders, WakeWriters, ring, TypeOK, Labels
<1>7. ASSUME NEW p \in Procs, kill(p) PROVE TypeOK'
  BY <1>7, Zenon DEF kill, ring, ends, TypeOK, Labels
<1>8. ASSUME NEW p \in Procs, NEW q \in Procs, Fork(p, q) PROVE TypeOK'
  BY <1>8, Zenon DEF Fork, ring, TypeOK, Labels
<1>9. CASE UNCHANGED vars
  BY <1>9, Zenon DEF vars, ring, ends, TypeOK
<1> QED BY <1>1, <1>2, <1>3, <1>4, <1>5, <1>6, <1>7, <1>8, <1>9, Zenon DEF Next

-----------------------------------------------------------------------------
(* Counting modulo UINT. *)

LEMMA ModSmall == ASSUME NEW n \in Nat \ {0}, NEW a \in 0..(n - 1) PROVE a % n = a
  OBVIOUS

LEMMA ModSub == ASSUME NEW n \in Nat \ {0}, NEW a \in n..(2 * n - 1) PROVE a % n = a - n
  OBVIOUS

LEMMA ModRest ==
  ASSUME NEW n \in Nat \ {0}, NEW a \in Int
  PROVE  a = n * (a \div n) + (a % n) /\ (a \div n) \in Int /\ (a % n) \in 0..(n - 1)
  OBVIOUS

LEMMA ModUnique ==
  ASSUME NEW n \in Nat \ {0}, NEW q \in Int, NEW r \in 0..(n - 1) PROVE (n * q + r) % n = r
  OBVIOUS

LEMMA ModAdd ==
  ASSUME NEW n \in Nat \ {0}, NEW a \in Int, NEW k \in Int PROVE (a + n * k) % n = a % n
<1>1. ASSUME NEW q \in Int, NEW r \in 0..(n - 1), a = n * q + r PROVE (a + n * k) % n = a % n
  <2>1. a % n = r
    BY <1>1, ModUnique, Zenon
  <2>2. a + n * k = n * (q + k) + r /\ q + k \in Int
    BY <1>1
  <2>3. (n * (q + k) + r) % n = r
    BY <2>2, ModUnique, Zenon
  <2> QED BY <2>1, <2>2, <2>3, Zenon
<1> QED BY <1>1, ModRest, Zenon

(* The distance of two counters that wrap. *)
LEMMA Distance ==
  ASSUME NEW n \in Nat \ {0}, NEW r \in 0..(n - 1), NEW w \in 0..(n - 1)
  PROVE  (w + n - r) % n = IF w >= r THEN w - r ELSE w + n - r
<1>1. CASE w >= r
  BY <1>1, w + n - r \in n..(2 * n - 1), ModSub
<1>2. CASE ~(w >= r)
  BY <1>2, w + n - r \in 0..(n - 1), ModSmall, Zenon
<1> QED BY <1>1, <1>2, Zenon

LEMMA Successor ==
  ASSUME NEW n \in Nat \ {0}, NEW r \in 0..(n - 1)
  PROVE  /\ (r + 1) % n = IF r + 1 = n THEN 0 ELSE r + 1
         /\ (r + 1) % n \in 0..(n - 1)
  OBVIOUS

(* A byte goes in: the distance of the counters grows by one. *)
LEMMA DistancePut ==
  ASSUME NEW r \in 0..(UINT - 1), NEW w \in 0..(UINT - 1),
         (w + UINT - r) % UINT <= PIPESIZE, w # (r + PIPESIZE) % UINT
  PROVE  /\ (((w + 1) % UINT) + UINT - r) % UINT = ((w + UINT - r) % UINT) + 1
         /\ (w + UINT - r) % UINT < PIPESIZE
<1> DEFINE w1 == (w + 1) % UINT
<1> USE PipeAssumption
<1>1. (w + UINT - r) % UINT = IF w >= r THEN w - r ELSE w + UINT - r
  BY Distance
<1>2. w1 = (IF w + 1 = UINT THEN 0 ELSE w + 1) /\ w1 \in 0..(UINT - 1)
  BY Successor, UINT \in Nat \ {0}, Zenon
<1> HIDE DEF w1
<1>3. (r + PIPESIZE) % UINT = IF r + PIPESIZE < UINT THEN r + PIPESIZE ELSE r + PIPESIZE - UINT
  <2>1. CASE r + PIPESIZE < UINT
    BY <2>1, r + PIPESIZE \in 0..(UINT - 1), ModSmall
  <2>2. CASE ~(r + PIPESIZE < UINT)
    BY <2>2, r + PIPESIZE \in UINT..(2 * UINT - 1), ModSub
  <2> QED BY <2>1, <2>2, Zenon
<1>4. (w + UINT - r) % UINT < PIPESIZE
  BY <1>1, <1>3
<1>5. (w1 + UINT - r) % UINT = IF w1 >= r THEN w1 - r ELSE w1 + UINT - r
  <2>1. \A x \in 0..(UINT - 1) : (x + UINT - r) % UINT = IF x >= r THEN x - r ELSE x + UINT - r
    BY UINT \in Nat \ {0}, Distance, Zenon
  <2> QED BY <1>2, <2>1, Zenon
<1>6. (w1 + UINT - r) % UINT = ((w + UINT - r) % UINT) + 1
  BY <1>1, <1>2, <1>4, <1>5
<1> QED BY <1>4, <1>6, Zenon DEF w1

(* A byte goes out: the distance shrinks by one. *)
LEMMA DistanceGet ==
  ASSUME NEW r \in 0..(UINT - 1), NEW w \in 0..(UINT - 1), r # w
  PROVE  /\ (w + UINT - ((r + 1) % UINT)) % UINT = ((w + UINT - r) % UINT) - 1
         /\ (w + UINT - r) % UINT \in 1..(UINT - 1)
<1> DEFINE r1 == (r + 1) % UINT
<1> USE PipeAssumption
<1>1. (w + UINT - r) % UINT = IF w >= r THEN w - r ELSE w + UINT - r
  BY Distance
<1>2. r1 = (IF r + 1 = UINT THEN 0 ELSE r + 1) /\ r1 \in 0..(UINT - 1)
  BY Successor, UINT \in Nat \ {0}, Zenon
<1> HIDE DEF r1
<1>3. (w + UINT - r1) % UINT = IF w >= r1 THEN w - r1 ELSE w + UINT - r1
  BY <1>2, UINT \in Nat \ {0}, Distance
<1>4. (w + UINT - r1) % UINT = ((w + UINT - r) % UINT) - 1
  BY <1>1, <1>2, <1>3
<1>5. (w + UINT - r) % UINT \in 1..(UINT - 1)
  BY <1>1
<1> QED BY <1>4, <1>5, Zenon DEF r1

(* The counters wrap at a multiple of the size of the ring, so that they    *)
(* name the same place of it before and after.                              *)
LEMMA PlaceOfCounter ==
  ASSUME NEW r \in 0..(UINT - 1), NEW k \in Nat
  PROVE  (((r + 1) % UINT) + k) % PIPESIZE = (r + 1 + k) % PIPESIZE
<1> USE PipeAssumption
<1>1. CASE r + 1 < UINT
  <2>1. (r + 1) % UINT = r + 1
    BY <1>1, Successor, UINT \in Nat \ {0}
  <2> QED BY <2>1, Zenon
<1>2. CASE r + 1 = UINT
  <2>1. (r + 1) % UINT = 0
    BY <1>2, Successor, UINT \in Nat \ {0}, Zenon
  <2>2. PICK m \in Int : UINT = PIPESIZE * m
    <3>1. UINT = PIPESIZE * (UINT \div PIPESIZE) /\ UINT \div PIPESIZE \in Int
      OBVIOUS
    <3> QED BY <3>1, Zenon
  <2>3. (k + PIPESIZE * m) % PIPESIZE = k % PIPESIZE
    BY ModAdd, k \in Int, PIPESIZE \in Nat \ {0}, Zenon
  <2> QED BY <1>2, <2>1, <2>2, <2>3
<1> QED BY <1>1, <1>2

(* Two places of the ring less than its size apart differ. *)
LEMMA PlacesDiffer ==
  ASSUME NEW a \in Nat, NEW b \in Nat, a < b, b < a + PIPESIZE
  PROVE  a % PIPESIZE # b % PIPESIZE
<1> USE PipeAssumption
<1> SUFFICES ASSUME a % PIPESIZE = b % PIPESIZE PROVE FALSE
  BY Zenon
<1>1. PICK q \in Int : b - a = PIPESIZE * q
  <2>1. PICK i \in Int : a = PIPESIZE * i + (a % PIPESIZE)
    <3>1. a = PIPESIZE * (a \div PIPESIZE) + (a % PIPESIZE) /\ a \div PIPESIZE \in Int
      BY ModRest
    <3> QED BY <3>1, Zenon
  <2>2. PICK j \in Int : b = PIPESIZE * j + (b % PIPESIZE)
    <3>1. b = PIPESIZE * (b \div PIPESIZE) + (b % PIPESIZE) /\ b \div PIPESIZE \in Int
      BY ModRest
    <3> QED BY <3>1, Zenon
  <2>3. ASSUME NEW r \in Int, a = PIPESIZE * i + r, b = PIPESIZE * j + r
        PROVE  b - a = PIPESIZE * (j - i)
    BY <2>3
  <2>4. a % PIPESIZE \in Int /\ j - i \in Int
    BY ModRest
  <2> QED BY <2>1, <2>2, <2>3, <2>4, Zenon
<1>2. CASE q <= 0
  BY <1>1, <1>2
<1>3. CASE q >= 1
  <2>1. PIPESIZE * q = PIPESIZE * (q - 1) + PIPESIZE /\ PIPESIZE * (q - 1) >= 0
    BY <1>3
  <2> QED BY <1>1, <2>1
<1> QED BY <1>2, <1>3

-----------------------------------------------------------------------------
(* The invariant. *)

LEMMA HeldType == TypeOK => Held \in 0..(UINT - 1)
  BY PipeAssumption, ModRest DEF TypeOK, Held

LEMMA HeldPut ==
  ASSUME TypeOK, RingInv, ~Full, nwrite' = (nwrite + 1) % UINT, nread' = nread
  PROVE  Held' = Held + 1 /\ Held < PIPESIZE
  BY DistancePut, Zenon DEF TypeOK, RingInv, Full, Held

LEMMA HeldGet ==
  ASSUME TypeOK, ~Empty, nread' = (nread + 1) % UINT, nwrite' = nwrite
  PROVE  Held' = Held - 1 /\ Held \in 1..(UINT - 1)
  BY DistanceGet, Zenon DEF TypeOK, Empty, Held

LEMMA InitInv == Init => PipeInv
<1> SUFFICES ASSUME Init PROVE PipeInv
  BY Zenon
<1>1. PipeLockInv /\ EndsInv
  BY PipeAssumption, Zenon DEF Init, PipeLockInv, EndsInv, Holding, InRead, InWrite
<1>2. RingInv
  BY PipeAssumption, Distance DEF Init, RingInv, Held
<1> QED BY <1>1, <1>2, InitType, Zenon DEF PipeInv

(* Steps of pipewrite(). *)
LEMMA WriteInv ==
  ASSUME PipeInv, NEW p \in Procs, WriteCall(p) \/ WriteStep(p)
  PROVE  PipeLockInv' /\ EndsInv' /\ RingInv'
<1> USE PipeAssumption DEF PipeInv, TypeOK, Labels, PipeLockInv, EndsInv, Holding, InRead, InWrite
<1>1. ASSUME UNCHANGED ring PROVE RingInv'
  BY <1>1, Zenon DEF ring, RingInv, Held
<1>2. CASE WriteCall(p)
  BY <1>1, <1>2 DEF WriteCall, LockAt, ends
<1>3. CASE WriteAbort(p)
  BY <1>1, <1>3 DEF WriteAbort, Return, ReleaseAt, ends
<1>4. CASE WriteFull(p)
  BY <1>1, <1>4, Zenon DEF WriteFull, WakeReaders, ends
<1>5. CASE WriteSleep(p)
  BY <1>1, <1>5 DEF WriteSleep, ReleaseAt, ends
<1>6. CASE WriteByte(p)
  <2>1. PipeLockInv' /\ EndsInv'
    BY <1>6, Zenon DEF WriteByte, ends
  <2>2. RingInv'
    BY <1>6, HeldPut, HeldType, SMTT(30) DEF WriteByte, RingInv
  <2> QED BY <2>1, <2>2, Zenon
<1>7. CASE WriteDone(p)
  BY <1>1, <1>7, Zenon DEF WriteDone, Return, ReleaseAt, WakeReaders, ends
<1>8. CASE WriteRelock(p)
  BY <1>1, <1>8, SMTT(30) DEF WriteRelock, LockAt, ends
<1> QED BY <1>2, <1>3, <1>4, <1>5, <1>6, <1>7, <1>8, Zenon DEF WriteStep

(* Steps of piperead(). *)
LEMMA ReadInv ==
  ASSUME PipeInv, NEW p \in Procs, ReadCall(p) \/ ReadStep(p)
  PROVE  PipeLockInv' /\ EndsInv' /\ RingInv'
<1> USE PipeAssumption DEF PipeInv, TypeOK, Labels, PipeLockInv, EndsInv, Holding, InRead, InWrite
<1>1. ASSUME UNCHANGED ring PROVE RingInv'
  BY <1>1, Zenon DEF ring, RingInv, Held
<1>2. ASSUME ~Empty, nread' = (nread + 1) % UINT, nwrite' = nwrite PROVE RingInv'
  BY <1>2, HeldGet, HeldType DEF RingInv
<1>3. CASE ReadCall(p)
  BY <1>1, <1>3 DEF ReadCall, LockAt, ends
<1>4. CASE ReadAbort(p)
  BY <1>1, <1>4 DEF ReadAbort, Return, ReleaseAt, ends
<1>5. CASE ReadEmpty(p)
  BY <1>1, <1>5 DEF ReadEmpty, ends
<1>6. CASE ReadSleep(p)
  BY <1>1, <1>6 DEF ReadSleep, ReleaseAt, ends
<1>7. CASE ReadRelock(p)
  BY <1>1, <1>7 DEF ReadRelock, LockAt, ends
<1>8. CASE ReadReady(p)
  BY <1>1, <1>8 DEF ReadReady, ends
<1>9. CASE ReadByte(p)
  BY <1>2, <1>9, Zenon DEF ReadByte, ends
<1>10. CASE ReadFault(p)
  BY <1>2, <1>10, Zenon DEF ReadFault, Return, ReleaseAt, WakeWriters, ends
<1>11. CASE ReadDone(p)
  BY <1>1, <1>11, Zenon DEF ReadDone, Return, ReleaseAt, WakeWriters, ends
<1> QED BY <1>3, <1>4, <1>5, <1>6, <1>7, <1>8, <1>9, <1>10, <1>11, Zenon DEF ReadStep

(* The files, fork() and kill(). *)
LEMMA FilesInv ==
  ASSUME PipeInv, NEW p \in Procs
  PROVE  /\ CloseRead(p) => PipeLockInv' /\ EndsInv' /\ RingInv'
         /\ CloseWrite(p) => PipeLockInv' /\ EndsInv' /\ RingInv'
         /\ pipeclose(p) => PipeLockInv' /\ EndsInv' /\ RingInv'
         /\ kill(p) => PipeLockInv' /\ EndsInv' /\ RingInv'
         /\ \A q \in Procs : Fork(p, q) => PipeLockInv' /\ EndsInv' /\ RingInv'
<1> USE PipeAssumption DEF PipeInv, TypeOK, Labels, PipeLockInv, EndsInv, Holding, InRead, InWrite
<1>1. ASSUME UNCHANGED ring PROVE RingInv'
  BY <1>1, Zenon DEF ring, RingInv, Held
<1>2. ASSUME CloseRead(p) PROVE PipeLockInv' /\ EndsInv' /\ RingInv'
  BY <1>1, <1>2 DEF CloseRead
<1>3. ASSUME CloseWrite(p) PROVE PipeLockInv' /\ EndsInv' /\ RingInv'
  BY <1>1, <1>3 DEF CloseWrite
<1>4. ASSUME pipeclose(p) PROVE PipeLockInv' /\ EndsInv' /\ RingInv'
  <2>1. PipeLockInv'
    <3>1. \A q \in Procs : pc[q] \notin Holding /\ lock' = NoProc
      BY <1>4, Zenon DEF pipeclose
    <3>2. \A q \in Procs : pc'[q] \in {"user", "read_wake", "write_wake", pc[q]}
      BY <1>4, Zenon DEF pipeclose, WakeReaders, WakeWriters
    <3> QED BY <3>1, <3>2, Zenon
  <2>2. freed' <=> ~readopen' /\ ~writeopen'
    BY <1>4, Zenon DEF pipeclose
  <2>3. UNCHANGED <<ring, readers, writers>>
    BY <1>4, Zenon DEF pipeclose
  <2>4. ASSUME pc[p] = "close_write" PROVE EndsInv'
    <3>1. writeopen' = FALSE /\ readopen' = readopen
      BY <1>4, <2>4, Zenon DEF pipeclose
    <3>2. \A q \in Procs : pc'[q] = IF q = p THEN "user" ELSE WakeReaders[q]
      BY <1>4, <2>4, Zenon DEF pipeclose, WakeReaders
    <3>3. ASSUME NEW q \in Procs
          PROVE  /\ pc'[q] \in InRead => q \in readers
                 /\ pc'[q] \in InWrite => q \in writers
                 /\ pc'[q] = "close_read" => pc[q] = "close_read"
                 /\ pc'[q] # "close_write"
      BY <2>4, <3>2 DEF WakeReaders
    <3> QED BY <2>2, <2>3, <2>4, <3>1, <3>3
  <2>5. ASSUME pc[p] = "close_read" PROVE EndsInv'
    <3>1. readopen' = FALSE /\ writeopen' = writeopen
      BY <1>4, <2>5, Zenon DEF pipeclose
    <3>2. \A q \in Procs : pc'[q] = IF q = p THEN "user" ELSE WakeWriters[q]
      BY <1>4, <2>5, Zenon DEF pipeclose, WakeWriters
    <3>3. ASSUME NEW q \in Procs
          PROVE  /\ pc'[q] \in InRead => q \in readers
                 /\ pc'[q] \in InWrite => q \in writers
                 /\ pc'[q] = "close_write" => pc[q] = "close_write"
                 /\ pc'[q] # "close_read"
      BY <2>5, <3>2 DEF WakeWriters
    <3> QED BY <2>2, <2>3, <2>5, <3>1, <3>3, Zenon
  <2> QED BY <1>1, <1>4, <2>1, <2>3, <2>4, <2>5, Zenon DEF pipeclose
<1>5. ASSUME kill(p) PROVE PipeLockInv' /\ EndsInv' /\ RingInv'
  BY <1>1, <1>5 DEF kill, ends
<1>6. ASSUME NEW q \in Procs, Fork(p, q) PROVE PipeLockInv' /\ EndsInv' /\ RingInv'
  BY <1>1, <1>6 DEF Fork
<1> QED BY <1>2, <1>3, <1>4, <1>5, <1>6, Zenon

LEMMA InvStep == PipeInv /\ [Next]_vars => PipeInv'
<1> SUFFICES ASSUME PipeInv, [Next]_vars PROVE PipeInv'
  BY Zenon
<1>1. TypeOK'
  BY TypeStep, Zenon DEF PipeInv
<1>2. CASE Next
  BY <1>1, <1>2, WriteInv, ReadInv, FilesInv, Zenon DEF Next, PipeInv
<1>3. CASE UNCHANGED vars
  BY <1>1, <1>3, Zenon DEF vars, ring, ends, PipeInv, PipeLockInv, EndsInv, RingInv, Held
<1> QED BY <1>2, <1>3, Zenon

(* The invariant of the pipe: pi->lock, the open ends and the ring.         *)
THEOREM PipeCorrect == Spec => []PipeInv
  BY InitInv, InvStep, PTL DEF Spec

(* pipeclose(): the page is freed when nobody is inside the pipe or can     *)
(* still get there.                                                         *)
THEOREM FreedCorrect == Spec => []FreedIsUnused
<1>1. PipeInv => FreedIsUnused
  BY Zenon DEF PipeInv, TypeOK, Labels, EndsInv, FreedIsUnused, InRead, InWrite
<1> QED BY <1>1, PipeCorrect, PTL

-----------------------------------------------------------------------------
(* Nobody sleeps through a wakeup. *)

(* A writer sleeps in pipewrite() only while the ring is full and the read  *)
(* end open, or until the reader that is taking bytes out wakes it.         *)
WritersSleepWhenFull ==
  \A p \in Procs :
    pc[p] = "write_sleep" => readopen /\ (Full \/ \E q \in Procs : pc[q] = "read_copy")

(* A reader sleeps in piperead() only while the ring is empty and the write *)
(* end open, or until the writer that is putting bytes in wakes it.  A      *)
(* writer that is killed between two bytes returns without a wakeup, so     *)
(* the bytes it left may have no reader awake.                              *)
ReadersSleepWhenEmpty ==
  \A p \in Procs :
    pc[p] = "read_sleep" =>
      writeopen /\ (Empty \/ \E q \in Procs : pc[q] = "write" \/ killed[q])

(* The test of the loop still holds when sleep() is called: pi->lock was    *)
(* not released in between.                                                 *)
TestedUnderLock ==
  \A p \in Procs :
    /\ pc[p] = "write_full" => Full /\ readopen
    /\ pc[p] = "read_empty" => Empty /\ writeopen

SleepInv == WritersSleepWhenFull /\ ReadersSleepWhenEmpty /\ TestedUnderLock

LEMMA WriteSleepInv ==
  ASSUME PipeInv, SleepInv, NEW p \in Procs, WriteCall(p) \/ WriteStep(p)
  PROVE  SleepInv'
<1> USE DEF PipeInv, TypeOK, PipeLockInv, Holding, SleepInv, WritersSleepWhenFull,
            ReadersSleepWhenEmpty, TestedUnderLock
<1>1. ASSUME UNCHANGED ring PROVE Full' = Full /\ Empty' = Empty
  BY <1>1, Zenon DEF ring, Full, Empty
<1>2. CASE WriteCall(p)
  BY <1>1, <1>2 DEF WriteCall, LockAt, ends
<1>3. CASE WriteAbort(p)
  BY <1>1, <1>3 DEF WriteAbort, Return, ReleaseAt, ends, EndsInv, InRead
<1>4. CASE WriteFull(p)
  BY <1>1, <1>4, Zenon DEF WriteFull, WakeReaders, ends
<1>5. CASE WriteSleep(p)
  BY <1>1, <1>5 DEF WriteSleep, ReleaseAt, ends
<1>6. CASE WriteByte(p)
  BY <1>6, Zenon DEF WriteByte, ends
<1>7. CASE WriteDone(p)
  BY <1>1, <1>7 DEF WriteDone, Return, ReleaseAt, WakeReaders, ends
<1>8. CASE WriteRelock(p)
  BY <1>1, <1>8, SMTT(30) DEF WriteRelock, LockAt, ends
<1> QED BY <1>2, <1>3, <1>4, <1>5, <1>6, <1>7, <1>8, Zenon DEF WriteStep

LEMMA ReadSleepInv ==
  ASSUME PipeInv, SleepInv, NEW p \in Procs, ReadCall(p) \/ ReadStep(p)
  PROVE  SleepInv'
<1> USE DEF PipeInv, TypeOK, PipeLockInv, Holding, SleepInv, WritersSleepWhenFull,
            ReadersSleepWhenEmpty, TestedUnderLock
<1>1. ASSUME UNCHANGED ring PROVE Full' = Full /\ Empty' = Empty
  BY <1>1, Zenon DEF ring, Full, Empty
<1>3. CASE ReadCall(p)
  BY <1>1, <1>3 DEF ReadCall, LockAt, ends
<1>4. CASE ReadAbort(p)
  BY <1>1, <1>4 DEF ReadAbort, Return, ReleaseAt, ends
<1>5. CASE ReadEmpty(p)
  BY <1>1, <1>5 DEF ReadEmpty, ends
<1>6. CASE ReadSleep(p)
  BY <1>1, <1>6 DEF ReadSleep, ReleaseAt, ends
<1>7. CASE ReadRelock(p)
  BY <1>1, <1>7 DEF ReadRelock, LockAt, ends
<1>8. CASE ReadReady(p)
  BY <1>1, <1>8, Zenon DEF ReadReady, ends
<1>9. CASE ReadByte(p)
  BY <1>9, Zenon DEF ReadByte, ends, Empty
<1>10. CASE ReadFault(p)
  BY <1>10, Zenon DEF ReadFault, Return, ReleaseAt, WakeWriters, ends, Empty
<1>11. CASE ReadDone(p)
  BY <1>1, <1>11, SMTT(30) DEF ReadDone, Return, ReleaseAt, WakeWriters, ends
<1> QED BY <1>3, <1>4, <1>5, <1>6, <1>7, <1>8, <1>9, <1>10, <1>11, Zenon DEF ReadStep

LEMMA FilesSleepInv ==
  ASSUME PipeInv, SleepInv, NEW p \in Procs
  PROVE  /\ CloseRead(p) => SleepInv'
         /\ CloseWrite(p) => SleepInv'
         /\ pipeclose(p) => SleepInv'
         /\ kill(p) => SleepInv'
         /\ \A q \in Procs : Fork(p, q) => SleepInv'
<1> USE DEF PipeInv, TypeOK, PipeLockInv, Holding, SleepInv, WritersSleepWhenFull,
            ReadersSleepWhenEmpty, TestedUnderLock
<1>1. ASSUME UNCHANGED ring PROVE Full' = Full /\ Empty' = Empty
  BY <1>1, Zenon DEF ring, Full, Empty
<1>2. ASSUME CloseRead(p) PROVE SleepInv'
  BY <1>1, <1>2 DEF CloseRead
<1>3. ASSUME CloseWrite(p) PROVE SleepInv'
  BY <1>1, <1>3 DEF CloseWrite
<1>4. ASSUME pipeclose(p) PROVE SleepInv'
  <2>1. \A q \in Procs : pc[q] \notin Holding
    BY <1>4, PipeAssumption, Zenon DEF pipeclose
  <2>2. (Full' <=> Full) /\ (Empty' <=> Empty) /\ killed' = killed
    BY <1>4, Zenon DEF pipeclose, ring, Full, Empty
  <2>3. CASE pc[p] = "close_write"
    <3>1. readopen' = readopen /\ pc' = [WakeReaders EXCEPT ![p] = "user"]
      BY <1>4, <2>3, Zenon DEF pipeclose
    <3>2. \A q \in Procs : pc'[q] = IF q = p THEN "user" ELSE WakeReaders[q]
      BY <3>1, Zenon DEF WakeReaders
    <3> QED BY <2>1, <2>2, <3>1, <3>2, Zenon DEF WakeReaders
  <2>4. CASE pc[p] = "close_read"
    <3>1. writeopen' = writeopen /\ pc' = [WakeWriters EXCEPT ![p] = "user"]
      BY <1>4, <2>4, Zenon DEF pipeclose
    <3>2. \A q \in Procs : pc'[q] = IF q = p THEN "user" ELSE WakeWriters[q]
      BY <3>1, Zenon DEF WakeWriters
    <3> QED BY <2>1, <2>2, <3>1, <3>2, Zenon DEF WakeWriters
  <2> QED BY <1>4, <2>3, <2>4, Zenon DEF pipeclose
<1>5. ASSUME kill(p) PROVE SleepInv'
  BY <1>1, <1>5 DEF kill, ends
<1>6. ASSUME NEW q \in Procs, Fork(p, q) PROVE SleepInv'
  BY <1>1, <1>6 DEF Fork
<1> QED BY <1>2, <1>3, <1>4, <1>5, <1>6, Zenon

(* pipewrite() and piperead() lose no wakeup: who sleeps has a reason to,   *)
(* or somebody is at the point of waking it.                                *)
THEOREM NoLostWakeup == Spec => [](WritersSleepWhenFull /\ ReadersSleepWhenEmpty)
<1>1. Init => SleepInv
  BY Zenon DEF Init, SleepInv, WritersSleepWhenFull, ReadersSleepWhenEmpty, TestedUnderLock
<1>2. PipeInv /\ SleepInv /\ [Next]_vars => SleepInv'
  <2> SUFFICES ASSUME PipeInv, SleepInv, [Next]_vars PROVE SleepInv'
    BY Zenon
  <2>1. CASE Next
    BY <2>1, WriteSleepInv, ReadSleepInv, FilesSleepInv, Zenon DEF Next
  <2>2. CASE UNCHANGED vars
    BY <2>2, Zenon DEF vars, ring, ends, SleepInv, WritersSleepWhenFull, ReadersSleepWhenEmpty,
                TestedUnderLock, Full, Empty
  <2> QED BY <2>1, <2>2, Zenon
<1> QED BY <1>1, <1>2, PipeCorrect, PTL DEF Spec, SleepInv

-----------------------------------------------------------------------------
(* The ring buffer implements ByteStream. *)

(* The place of the k-th byte held. *)
LEMMA PlaceType ==
  ASSUME TypeOK, NEW k \in Nat \ {0}
  PROVE  nread + k - 1 \in Nat /\ (nread + k - 1) % PIPESIZE \in 0..(PIPESIZE - 1)
<1>1. nread + k - 1 \in Nat
  BY PipeAssumption DEF TypeOK
<1> HIDE DEF TypeOK
<1>2. \A a \in Nat : a % PIPESIZE \in 0..(PIPESIZE - 1)
  BY PipeAssumption, ModRest
<1> QED BY <1>1, <1>2, Zenon

InFlightFacts ==
  /\ InFlight \in Seq(Bytes) /\ Len(InFlight) = Held
  /\ \A k \in 1..Held : InFlight[k] = data[(nread + k - 1) % PIPESIZE]

LEMMA InFlightType == TypeOK => InFlightFacts
<1> SUFFICES ASSUME TypeOK
             PROVE  /\ InFlight \in Seq(Bytes) /\ Len(InFlight) = Held
                    /\ \A k \in 1..Held : InFlight[k] = data[(nread + k - 1) % PIPESIZE]
  BY Zenon DEF InFlightFacts
<1>1. Held \in Nat
  BY HeldType, PipeAssumption
<1>2. \A k \in 1..Held : (nread + k - 1) % PIPESIZE \in 0..(PIPESIZE - 1)
  BY <1>1, PlaceType
<1>3. InFlight = [k \in 1..Held |-> data[(nread + k - 1) % PIPESIZE]]
  BY Zenon DEF InFlight, Held
<1>4. InFlight \in [1..Held -> Bytes]
  BY <1>2, <1>3, Zenon DEF TypeOK
<1>5. InFlight \in Seq(Bytes) /\ Len(InFlight) = Held
  <2> HIDE DEF InFlight, Held
  <2> QED BY <1>1, <1>4, IsASeq, LenProperties
<1> QED BY <1>3, <1>5, Zenon

(* Where pipewrite() puts the next byte. *)
LEMMA WritePlace ==
  ASSUME TypeOK
  PROVE  nwrite % PIPESIZE = (nread + Held) % PIPESIZE
<1> USE PipeAssumption DEF TypeOK
<1>1. Held = IF nwrite >= nread THEN nwrite - nread ELSE nwrite + UINT - nread
  BY Distance, UINT \in Nat \ {0}, Zenon DEF Held
<1>2. CASE nwrite >= nread
  BY <1>1, <1>2
<1>3. CASE ~(nwrite >= nread)
  <2>1. PICK m \in Int : UINT = PIPESIZE * m
    <3>1. UINT = PIPESIZE * (UINT \div PIPESIZE) /\ UINT \div PIPESIZE \in Int
      OBVIOUS
    <3> QED BY <3>1, Zenon
  <2>2. (nwrite + PIPESIZE * m) % PIPESIZE = nwrite % PIPESIZE
    BY ModAdd, nwrite \in Int, PIPESIZE \in Nat \ {0}, Zenon
  <2>3. nread + Held = nwrite + PIPESIZE * m
    BY <1>1, <1>3, <2>1
  <2> QED BY <2>2, <2>3, Zenon
<1> QED BY <1>2, <1>3, Zenon

LEMMA PutRefines ==
  ASSUME PipeInv, TypeOK', NEW p \in Procs, WriteByte(p)
  PROVE  Stream!Put
<1> USE PipeAssumption
<1>1. TypeOK /\ RingInv
  BY Zenon DEF PipeInv
<1>2. PICK ch \in Bytes : data' = [data EXCEPT ![nwrite % PIPESIZE] = ch]
  BY Zenon DEF WriteByte
<1>3. nread' = nread /\ Held' = Held + 1 /\ Held < PIPESIZE /\ Held \in Nat
  BY <1>1, HeldPut, HeldType DEF WriteByte
<1>4. /\ InFlight' \in Seq(Bytes) /\ Len(InFlight') = Held + 1
      /\ \A k \in 1..(Held + 1) : InFlight'[k] = data'[(nread + k - 1) % PIPESIZE]
  <2>1. /\ InFlight' \in Seq(Bytes) /\ Len(InFlight') = Held'
        /\ \A k \in 1..Held' : InFlight'[k] = data'[(nread' + k - 1) % PIPESIZE]
    <3>1. InFlightFacts'
      BY InFlightType, PTL
    <3> QED BY <3>1, Zenon DEF InFlightFacts
  <2> QED BY <1>3, <2>1, Zenon
<1>5. \A k \in 1..Held : InFlight'[k] = InFlight[k]
  <2> SUFFICES ASSUME NEW k \in 1..Held PROVE InFlight'[k] = InFlight[k]
    BY Zenon
  <2> DEFINE at == (nread + k - 1) % PIPESIZE
  <2>1. at # nwrite % PIPESIZE
    <3>1. nread + k - 1 \in Nat /\ nread + Held \in Nat
      BY <1>1, <1>3 DEF TypeOK
    <3>2. nread + k - 1 < nread + Held /\ nread + Held < (nread + k - 1) + PIPESIZE
      BY <1>1, <1>3 DEF TypeOK
    <3>3. \A a, b \in Nat : a < b /\ b < a + PIPESIZE => a % PIPESIZE # b % PIPESIZE
      BY PlacesDiffer, Zenon
    <3>4. at # (nread + Held) % PIPESIZE
      BY <3>1, <3>2, <3>3, Zenon
    <3> QED BY <1>1, <3>4, WritePlace, Zenon
  <2>2. at \in 0..(PIPESIZE - 1)
    BY <1>1, <1>3, PlaceType
  <2>3. data'[at] = data[at]
    BY <1>1, <1>2, <2>1, <2>2, Zenon DEF TypeOK
  <2> QED BY <1>1, <1>3, <1>4, <2>3, InFlightType DEF InFlightFacts
<1>6. InFlight'[Held + 1] = ch
  <2>1. nwrite % PIPESIZE \in 0..(PIPESIZE - 1)
    BY <1>1, ModRest DEF TypeOK
  <2>2. data'[nwrite % PIPESIZE] = ch
    BY <1>1, <1>2, <2>1, Zenon DEF TypeOK
  <2> QED BY <1>1, <1>3, <1>4, <2>2, WritePlace DEF TypeOK
<1>7. InFlight' = Append(InFlight, ch)
  <2>1. InFlight \in Seq(Bytes) /\ Len(InFlight) = Held
    BY <1>1, InFlightType, Zenon DEF InFlightFacts
  <2> HIDE DEF InFlight
  <2>2. /\ Append(InFlight, ch) \in Seq(Bytes) /\ Len(Append(InFlight, ch)) = Held + 1
        /\ \A k \in 1..Held : Append(InFlight, ch)[k] = InFlight[k]
        /\ Append(InFlight, ch)[Held + 1] = ch
    BY <2>1, AppendProperties
  <2>3. \A k \in 1..(Held + 1) : InFlight'[k] = Append(InFlight, ch)[k]
    BY <1>3, <1>5, <1>6, <2>2
  <2> QED BY <1>4, <2>2, <2>3, SeqEqual, Zenon
<1>8. readopen /\ writeopen /\ UNCHANGED <<readopen, writeopen>>
  BY Zenon DEF WriteByte, ends, PipeInv, EndsInv, InWrite
<1>9. Len(InFlight) < PIPESIZE
  BY <1>1, <1>3, InFlightType, Zenon DEF InFlightFacts
<1> QED BY <1>7, <1>8, <1>9, Zenon DEF Stream!Put

LEMMA GetRefines ==
  ASSUME PipeInv, TypeOK', NEW p \in Procs, ReadByte(p) \/ ReadFault(p)
  PROVE  Stream!Get
<1> USE PipeAssumption
<1>1. TypeOK /\ nread' = (nread + 1) % UINT /\ nwrite' = nwrite /\ data' = data /\ ~Empty
  BY Zenon DEF PipeInv, ReadByte, ReadFault
<1>2. Held' = Held - 1 /\ Held \in Nat /\ Held >= 1
  BY <1>1, HeldGet
<1>3. InFlight \in Seq(Bytes) /\ Len(InFlight) = Held
  BY <1>1, InFlightType, Zenon DEF InFlightFacts
<1>4. /\ InFlight' \in Seq(Bytes) /\ Len(InFlight') = Held - 1
      /\ \A k \in 1..(Held - 1) : InFlight'[k] = data[(nread' + k - 1) % PIPESIZE]
  <2>1. /\ InFlight' \in Seq(Bytes) /\ Len(InFlight') = Held'
        /\ \A k \in 1..Held' : InFlight'[k] = data'[(nread' + k - 1) % PIPESIZE]
    <3>1. InFlightFacts'
      BY InFlightType, PTL
    <3> QED BY <3>1, Zenon DEF InFlightFacts
  <2> QED BY <1>1, <1>2, <2>1, Zenon
<1>5. \A k \in 1..(Held - 1) : InFlight'[k] = InFlight[k + 1]
  <2> SUFFICES ASSUME NEW k \in 1..(Held - 1) PROVE InFlight'[k] = InFlight[k + 1]
    BY Zenon
  <2>1. (((nread + 1) % UINT) + (k - 1)) % PIPESIZE = (nread + 1 + (k - 1)) % PIPESIZE
    <3>1. \A j \in Nat : (((nread + 1) % UINT) + j) % PIPESIZE = (nread + 1 + j) % PIPESIZE
      BY <1>1, PlaceOfCounter, Zenon DEF TypeOK
    <3>2. k - 1 \in Nat
      BY <1>2
    <3> QED BY <3>1, <3>2, Zenon
  <2>2. nread' + k - 1 = ((nread + 1) % UINT) + (k - 1)
    BY <1>1, <1>2, Zenon DEF TypeOK
  <2>3. nread + 1 + (k - 1) = nread + (k + 1) - 1
    BY <1>1, <1>2 DEF TypeOK
  <2>4. InFlight[k + 1] = data[(nread + (k + 1) - 1) % PIPESIZE]
    BY <1>1, <1>2, InFlightType, k + 1 \in 1..Held, Zenon DEF InFlightFacts
  <2> QED BY <1>4, <2>1, <2>2, <2>3, <2>4, Zenon
<1>6. InFlight # <<>>
  BY <1>2, <1>3, EmptySeq
<1>7. InFlight' = Tail(InFlight)
  <2> HIDE DEF InFlight
  <2>1. /\ Tail(InFlight) \in Seq(Bytes) /\ Len(Tail(InFlight)) = Held - 1
        /\ \A k \in 1..(Held - 1) : Tail(InFlight)[k] = InFlight[k + 1]
    BY <1>3, <1>6, HeadTailProperties, Zenon
  <2> QED BY <1>4, <1>5, <2>1, SeqEqual
<1>8. readopen /\ UNCHANGED <<readopen, writeopen>>
  BY Zenon DEF ReadByte, ReadFault, ends, PipeInv, EndsInv, InRead
<1> QED BY <1>6, <1>7, <1>8, Zenon DEF Stream!Get

LEMMA CloseRefines ==
  ASSUME PipeInv, NEW p \in Procs, pipeclose(p)
  PROVE  Stream!CloseRead \/ Stream!CloseWrite
<1>1. UNCHANGED InFlight
  BY Zenon DEF pipeclose, ring, InFlight
<1>2. CASE pc[p] = "close_read"
  BY <1>1, <1>2, Zenon DEF pipeclose, PipeInv, EndsInv, Stream!CloseRead
<1>3. CASE pc[p] = "close_write"
  BY <1>1, <1>3, Zenon DEF pipeclose, PipeInv, EndsInv, Stream!CloseWrite
<1> QED BY <1>2, <1>3, Zenon DEF pipeclose

LEMMA StreamStep == PipeInv /\ TypeOK' /\ [Next]_vars => [Stream!Next]_Stream!vars
<1> SUFFICES ASSUME PipeInv, TypeOK', [Next]_vars PROVE [Stream!Next]_Stream!vars
  BY Zenon
<1>1. ASSUME UNCHANGED <<ring, readopen, writeopen>> PROVE UNCHANGED Stream!vars
  BY <1>1, Zenon DEF ring, InFlight, Stream!vars
<1>2. ASSUME NEW p \in Procs, WriteCall(p) \/ WriteStep(p), ~WriteByte(p)
      PROVE  UNCHANGED <<ring, readopen, writeopen>>
  BY <1>2, Zenon DEF WriteCall, WriteStep, WriteAbort, WriteFull, WriteSleep, WriteDone, WriteRelock, ends
<1>3. ASSUME NEW p \in Procs, ReadCall(p) \/ ReadStep(p), ~ReadByte(p), ~ReadFault(p)
      PROVE  UNCHANGED <<ring, readopen, writeopen>>
  BY <1>3, Zenon DEF ReadCall, ReadStep, ReadAbort, ReadEmpty, ReadSleep, ReadRelock, ReadReady, ReadDone, ends
<1>4. ASSUME NEW p \in Procs, CloseRead(p) \/ CloseWrite(p) \/ kill(p) \/ \E q \in Procs : Fork(p, q)
      PROVE  UNCHANGED <<ring, readopen, writeopen>>
  BY <1>4, Zenon DEF CloseRead, CloseWrite, kill, Fork, ends
<1>5. ASSUME UNCHANGED vars PROVE UNCHANGED <<ring, readopen, writeopen>>
  BY <1>5, Zenon DEF vars, ends
<1> QED BY <1>1, <1>2, <1>3, <1>4, <1>5, PutRefines, GetRefines, CloseRefines, Zenon
        DEF Next, Stream!Next

(* The pipe implements ByteStream: bytes come out in the order they went    *)
(* in, whatever the size of the ring and however often the counters wrap.   *)
THEOREM StreamCorrect == Spec => StreamSpec
<1>1. Init => Stream!Init
  <2> SUFFICES ASSUME Init PROVE Stream!Init
    BY Zenon
  <2>1. TypeOK /\ Held = 0
    BY InitType, PipeAssumption, Distance DEF Init, Held
  <2>2. InFlight = <<>>
    BY <2>1, InFlightType, EmptySeq, Zenon DEF InFlightFacts
  <2> QED BY <2>2, Zenon DEF Init, Stream!Init
<1>2. PipeInv => TypeOK
  BY Zenon DEF PipeInv
<1> QED BY <1>1, <1>2, PipeCorrect, StreamStep, PTL DEF Spec, StreamSpec, Stream!Spec
=============================================================================
