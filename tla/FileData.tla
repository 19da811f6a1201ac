------------------------------ MODULE FileData ------------------------------
(***************************************************************************)
(* What is in a file: the block map of an inode in fs.c (balloc, bfree,    *)
(* bmap, itrunc, readi, writei, with direct and indirect blocks), and the  *)
(* reads and writes of file.c, a transaction for each chunk of a write, by *)
(* processes that share files and their offsets.                           *)
(*                                                                         *)
(* A section under an inode's lock is one step.  Of a block the model      *)
(* keeps the block numbers in it, when it is an indirect block; the bytes  *)
(* of a file are where its block map says.                                 *)
(***************************************************************************)
EXTENDS Integers, FiniteSets, FiniteSetsExt, SequencesExt

CONSTANTS Writers,           \* processes
          Files,             \* open files, shared by all of them
          Inums, NBLOCKS, BPB, IPB,
          BSIZE, NDIRECT, NINDIRECT, MAXOPBLOCKS,
          Lengths,           \* bound: the n of read and write
          MaxChanges         \* bound: calls that write or truncate

ASSUME FileDataAssumption ==
  /\ {BPB, IPB, BSIZE, NDIRECT, NINDIRECT} \subseteq Nat \ {0}
  /\ Inums \subseteq Nat /\ Lengths \subseteq Nat \ {0}
  /\ {NBLOCKS, MAXOPBLOCKS, MaxChanges} \subseteq Nat
  /\ Cardinality(Inums) * (NDIRECT + NINDIRECT + 1) <= NBLOCKS

VARIABLES fs,        \* bitmap, block contents and inodes
          ip, off,   \* of a file
          left,      \* of a process in filewrite: its file and the bytes left
          changes    \* how many calls have written or truncated

datavars == <<fs, ip, off, left, changes>>

BlockNos == 1..NBLOCKS
Zero == [k \in 0..NINDIRECT - 1 |-> 0]
MAXFILE == NDIRECT + NINDIRECT
NoWrite == [f |-> 0, n |-> 0]

DataInit ==
  /\ fs = [used |-> {}, blk |-> [b \in BlockNos |-> Zero],
           ino |-> [i \in Inums |-> [addrs |-> [k \in 0..NDIRECT |-> 0], size |-> 0]]]
  /\ ip \in [Files -> Inums] /\ off = [f \in Files |-> 0]
  /\ left = [p \in Writers |-> NoWrite] /\ changes = 0
---------------------------------------------------------------------------
(* The functions of fs.c work on m: fs, and the blocks given to log_write. *)
Transaction == [used |-> fs.used, blk |-> fs.blk, ino |-> fs.ino, log |-> {}]
log_write(m, b) == [m EXCEPT !.log = @ \cup {b}]
BBLOCK(b) == <<"bitmap", b \div BPB>>
IBLOCK(i) == <<"inodes", i \div IPB>>
iupdate(m, i) == log_write(m, IBLOCK(i))

(* balloc: the first free block, marked and zeroed. *)
FreeBlock(m) == Min(BlockNos \ m.used)
balloc(m) ==
  [m EXCEPT !.used = @ \cup {FreeBlock(m)}, !.blk[FreeBlock(m)] = Zero,
            !.log = @ \cup {BBLOCK(FreeBlock(m)), <<"block", FreeBlock(m)>>}]

(* What a free block holds is overwritten by balloc, and forgotten here. *)
bfree(m, bs) ==
  [m EXCEPT !.used = @ \ bs, !.blk = [b \in BlockNos |-> IF b \in bs THEN Zero ELSE @[b]],
            !.log = @ \cup {BBLOCK(b) : b \in bs}]

(* The block of index bn, 0 if there is none. *)
Addr(m, i, bn) ==
  IF bn < NDIRECT THEN m.ino[i].addrs[bn]
  ELSE IF m.ino[i].addrs[NDIRECT] = 0 THEN 0 ELSE m.blk[m.ino[i].addrs[NDIRECT]][bn - NDIRECT]

(* bmap: allocate what is missing on the way to block bn, the indirect     *)
(* block first.                                                            *)
Direct(m, i, k) == IF m.ino[i].addrs[k] # 0 THEN m
                   ELSE [balloc(m) EXCEPT !.ino[i].addrs[k] = FreeBlock(m)]

Indirect(m, i, k) ==
  IF m.blk[m.ino[i].addrs[NDIRECT]][k] # 0 THEN m
  ELSE log_write([balloc(m) EXCEPT !.blk[m.ino[i].addrs[NDIRECT]][k] = FreeBlock(m)],
                 <<"block", m.ino[i].addrs[NDIRECT]>>)

bmap(m, i, bn) == IF bn < NDIRECT THEN Direct(m, i, bn)
                  ELSE Indirect(Direct(m, i, NDIRECT), i, bn - NDIRECT)

(* The blocks of inode i, and the blocks its map consists of. *)
DataBlocks(m, i) == {Addr(m, i, bn) : bn \in 0..MAXFILE - 1} \ {0}
BlocksOf(m, i) == (DataBlocks(m, i) \cup {m.ino[i].addrs[NDIRECT]}) \ {0}

(* Mutant: the indirect block itself is not freed. *)
itrunc_KeepsIndirect(m, i) ==
  iupdate([bfree(m, DataBlocks(m, i)) EXCEPT !.ino[i] = [addrs |-> [k \in 0..NDIRECT |-> 0], size |-> 0]], i)

itrunc(m, i) ==
  iupdate([bfree(m, BlocksOf(m, i)) EXCEPT !.ino[i] = [addrs |-> [k \in 0..NDIRECT |-> 0], size |-> 0]], i)

(* readi's count: at is the offset, n what is asked for. *)
readi(m, i, at, n) == IF at > m.ino[i].size THEN 0 ELSE Min({n, m.ino[i].size - at})

(* writei one block at a time.  either_copyin fails at piece bad, after    *)
(* bmap; a failed piece is not logged.  The pieces are the blocks from     *)
(* at / BSIZE on.                                                         *)
Pieces(at, n) == (at + n - 1) \div BSIZE - at \div BSIZE + 1
CanWrite(m, i, at, n) == at <= m.ino[i].size /\ at + n <= MAXFILE * BSIZE

Piece(m, i, bn, bad) ==
  IF bad THEN bmap(m, i, bn)
  ELSE log_write(bmap(m, i, bn), <<"block", Addr(bmap(m, i, bn), i, bn)>>)

(* The bytes of the first k pieces. *)
Written(at, n, k) == IF k = Pieces(at, n) THEN n
                      ELSE IF k = 0 THEN 0 ELSE (at \div BSIZE + k) * BSIZE - at

writei(m, i, at, n, bad) ==
  LET first == at \div BSIZE
      done == FoldLeft(LAMBDA x, k : Piece(x, i, first + k - 1, k = bad),
                       m, [k \in 1..Min({bad, Pieces(at, n)}) |-> k])
      end == at + Written(at, n, bad - 1)
  IN iupdate([done EXCEPT !.ino[i].size = Max({@, end})], i)
---------------------------------------------------------------------------
Commit(m) == fs' = [used |-> m.used, blk |-> m.blk, ino |-> m.ino]
Change == changes < MaxChanges /\ changes' = changes + 1

(* open with O_TRUNC, of the inode of f, by whatever file. *)
open_trunc(i) ==
  /\ Change
  /\ Commit(itrunc(Transaction, i))
  /\ UNCHANGED <<ip, off, left>>

fileread(f, n) ==
  /\ off' = [off EXCEPT ![f] = @ + readi(fs, ip[f], @, n)]
  /\ UNCHANGED <<fs, ip, left, changes>>

(* Mutant: a block of the log for each block of the write. *)
MaxWrite_NoSlop == (MAXOPBLOCKS - 1 - 1) * BSIZE

(* filewrite: a loop of transactions of at most MaxWrite bytes. *)
MaxWrite == ((MAXOPBLOCKS - 1 - 1 - 2) \div 2) * BSIZE
Chunk(n) == Min({n, MaxWrite})

filewrite(p, f, n) ==
  /\ left[p] = NoWrite /\ Change
  /\ left' = [left EXCEPT ![p] = [f |-> f, n |-> n]]
  /\ UNCHANGED <<fs, ip, off>>

WriteChunk(p, bad) ==
  LET f == left[p].f
      n1 == Chunk(left[p].n)
      r == Written(off[f], n1, bad - 1)
  IN /\ left[p] # NoWrite /\ bad <= Pieces(off[f], n1) + 1
     /\ \/ /\ CanWrite(fs, ip[f], off[f], n1)
           /\ Commit(writei(Transaction, ip[f], off[f], n1, bad))
           /\ off' = [off EXCEPT ![f] = @ + r]
           /\ left' = [left EXCEPT ![p] = IF r # n1 \/ @.n = n1 THEN NoWrite ELSE [@ EXCEPT !.n = @ - n1]]
        \/ /\ ~CanWrite(fs, ip[f], off[f], n1)
           /\ left' = [left EXCEPT ![p] = NoWrite]
           /\ UNCHANGED <<fs, off>>
     /\ UNCHANGED <<ip, changes>>

DataNext ==
  \/ \E i \in Inums : open_trunc(i)
  \/ \E f \in Files, n \in Lengths : fileread(f, n) \/ \E p \in Writers : filewrite(p, f, n)
  \/ \E p \in Writers, bad \in 1..MAXFILE + 1 : WriteChunk(p, bad)

---------------------------------------------------------------------------
(* BlockMapIsExact: the bitmap marks exactly the blocks that inodes have,  *)
(* no block is in two places, and every block below a file's size is       *)
(* there: also after failed writes and truncation through another file.    *)
BlockMapIsExact ==
  LET Places(i) == {bn \in 0..MAXFILE - 1 : Addr(fs, i, bn) # 0}
  IN /\ fs.used = UNION {BlocksOf(fs, i) : i \in Inums}
     /\ \A i \in Inums :
          /\ Cardinality(DataBlocks(fs, i)) = Cardinality(Places(i))
          /\ fs.ino[i].addrs[NDIRECT] # 0 => fs.ino[i].addrs[NDIRECT] \notin DataBlocks(fs, i)
          /\ \A j \in Inums \ {i} : BlocksOf(fs, i) \cap BlocksOf(fs, j) = {}
          /\ \A bn \in 0..MAXFILE - 1 : bn * BSIZE < fs.ino[i].size => bn \in Places(i)

(* WriteFitsTransaction: a transaction of filewrite or open logs at most   *)
(* MAXOPBLOCKS blocks, what begin_op has reserved for it, wherever the     *)
(* write starts and whatever it has to allocate.                           *)
WriteFitsTransaction ==
  LET Fits(m) == Cardinality(m.log) <= MAXOPBLOCKS
      Write(f, n) == writei(Transaction, ip[f], off[f], n, Pieces(off[f], n) + 1)
  IN /\ \A i \in Inums : Fits(itrunc(Transaction, i))
     /\ \A p \in Writers : left[p] # NoWrite =>
          LET f == left[p].f
              n == Chunk(left[p].n)
          IN CanWrite(fs, ip[f], off[f], n) => Fits(Write(f, n))
=============================================================================
