------------------------------- MODULE Umalloc -------------------------------
(***************************************************************************)
(* user/umalloc.c: malloc() and free() on a circular list of free blocks   *)
(* in address order.  Addresses and sizes are in units of a Header; a      *)
(* block includes its header.  base, in the data segment, is address 0.    *)
(***************************************************************************)
EXTENDS Integers, FiniteSets, FiniteSetsExt

CONSTANTS NALLOC,     \* least number of units that morecore() asks for
          Units,      \* block sizes that malloc() is asked for
          Limit       \* bound: sbrk() fails beyond this address

ASSUME UmallocAssumption == NALLOC \in Nat \ {0} /\ Units \subseteq Nat \ {0} /\ Limit \in Nat

VARIABLES ptr, size,  \* s.ptr and s.size of the headers that were written
          freep,      \* -1 before the first malloc()
          brk,        \* end of the heap
          taken       \* blocks the program has

heapVars == <<ptr, size, freep, brk, taken>>
Heap == [ptr |-> ptr, size |-> size, freep |-> freep, brk |-> brk]
Base == 0

UmallocInit ==
  /\ ptr = [a \in {Base} |-> Base]
  /\ size = [a \in {Base} |-> 0]
  /\ freep = -1
  /\ brk = 1
  /\ taken = {}

(* A header is written at a. *)
Set(f, a, v) == [x \in DOMAIN f \cup {a} |-> IF x = a THEN v ELSE f[x]]

(***************************************************************************)
(* free(): p is the free block, or base, after which bp belongs.           *)
(***************************************************************************)
RECURSIVE Place(_, _, _)
Place(h, p, bp) ==
  LET next == h.ptr[p]
  IN IF (bp > p /\ bp < next) \/ (p >= next /\ (bp > p \/ bp < next)) THEN p ELSE Place(h, next, bp)

(* Mutant: the block is not joined to the one before it. *)
JoinLower_Never(h, p, bp) ==
  [h EXCEPT !.ptr = Set(@, p, bp), !.freep = p]

(* The second half: join to the lower neighbour, or link. *)
JoinLower(h, p, bp) ==
  IF p + h.size[p] = bp
  THEN [h EXCEPT !.size = Set(@, p, h.size[p] + h.size[bp]), !.ptr = Set(@, p, h.ptr[bp]), !.freep = p]
  ELSE [h EXCEPT !.ptr = Set(@, p, bp), !.freep = p]

JoinUpper(h, p, bp) ==
  LET next == h.ptr[p]
  IN IF bp + h.size[bp] = next
     THEN [h EXCEPT !.size = Set(@, bp, h.size[bp] + h.size[next]), !.ptr = Set(@, bp, h.ptr[next])]
     ELSE [h EXCEPT !.ptr = Set(@, bp, next)]

Insert(h, p, bp) == JoinLower(JoinUpper(h, p, bp), p, bp)
freed(h, bp) == Insert(h, Place(h, h.freep, bp), bp)

(***************************************************************************)
(* malloc(): the first block from freep on that is large enough, or more    *)
(* memory from sbrk(), which is freed and looked at in its turn.            *)
(***************************************************************************)
morecore(h, nu) ==
  freed([h EXCEPT !.size = Set(@, h.brk, nu), !.brk = @ + nu], h.brk)

(* Take the block p, or its tail. *)
Carve(h, prevp, p, n) ==
  IF h.size[p] = n
  THEN [heap |-> [h EXCEPT !.ptr = Set(@, prevp, h.ptr[p]), !.freep = prevp], block |-> p]
  ELSE LET q == p + h.size[p] - n
       IN [heap |-> [h EXCEPT !.size = Set(Set(@, p, h.size[p] - n), q, n), !.freep = prevp], block |-> q]

RECURSIVE Search(_, _, _, _)
Search(h, prevp, p, n) ==
  LET nu == IF n < NALLOC THEN NALLOC ELSE n
      m == morecore(h, nu)
  IN IF h.size[p] >= n THEN Carve(h, prevp, p, n)
     ELSE IF p # h.freep THEN Search(h, p, h.ptr[p], n)
     ELSE IF h.brk + nu > Limit THEN [heap |-> h, block |-> 0]
     ELSE Search(m, m.freep, m.ptr[m.freep], n)

RECURSIVE Chain(_, _, _)
Chain(next, p, seen) == IF p \in seen THEN seen ELSE Chain(next, next[p], seen \cup {p})

(* The heap becomes h, with the blocks u in use.  What is not the header of   *)
(* such a block or of one in the list is forgotten: a read of it would fail. *)
HeapIs(h, u) ==
  LET list == Chain(h.ptr, Base, {})
  IN /\ ptr' = [a \in list |-> h.ptr[a]]
     /\ size' = [a \in list \cup u |-> h.size[a]]
     /\ freep' = h.freep /\ brk' = h.brk /\ taken' = u

malloc(n) ==
  LET h == IF freep = -1 THEN [Heap EXCEPT !.freep = Base] ELSE Heap
      r == Search(h, h.freep, h.ptr[h.freep], n)
  IN HeapIs(r.heap, IF r.block = 0 THEN taken ELSE taken \cup {r.block})

ufree(bp) == HeapIs(freed(Heap, bp), taken \ {bp})

UmallocNext == (\E n \in Units : malloc(n)) \/ (\E bp \in taken : ufree(bp))

(***************************************************************************)
(* Properties.                                                             *)
(***************************************************************************)
(* malloc and free: the blocks in use and the blocks of the free list cover   *)
(* the heap without gap or overlap; the list runs once through base and all  *)
(* free blocks in address order, and no two of them are neighbours.          *)
HeapIsExact ==
  LET free_ == Chain(ptr, Base, {}) \ {Base}
      blocks == free_ \cup taken
      units(b) == b..(b + size[b] - 1)
  IN /\ free_ \cap taken = {}
     /\ UNION {units(b) : b \in blocks} = 1..(brk - 1)
     /\ brk - 1 = MapThenSumSet(LAMBDA b : size[b], blocks)
     /\ \A b \in free_ \cup {Base} : ptr[b] = IF \E a \in free_ : a > b THEN Min({a \in free_ : a > b}) ELSE Base
     /\ \A b \in free_ : b + size[b] \notin free_
     /\ freep # -1 => freep \in free_ \cup {Base}
=============================================================================
