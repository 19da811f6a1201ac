-------------------------------- MODULE Bytes --------------------------------
(***************************************************************************)
(* Algorithms on bytes, each run on every small input: memmove() of        *)
(* kernel/string.c and of user/ulib.c; copyin(), copyout() and copyinstr() *)
(* of kernel/vm.c under fetchaddr() and fetchstr() of kernel/syscall.c;    *)
(* skipelem() of kernel/fs.c with strncmp() and strncpy(); printint() of   *)
(* kernel/printf.c and user/printf.c, and atoi() of user/ulib.c.           *)
(***************************************************************************)
EXTENDS Integers, Sequences, FiniteSets, FiniteSetsExt

CONSTANTS BufSize,           \* bytes of memory for memmove()
          PAGE, Pages,       \* bytes of a page and pages of a process
          WORD,              \* sizeof(uint64)
          ADDRESSES,         \* number of addresses: arithmetic is modulo this
          DIRSIZ, MaxPath,   \* size of a name, bound: longest path
          INT_MAX, BASE      \* largest int, and the base it is printed in

VARIABLES job,      \* a function and its arguments
          answer    \* what it returns, <<>> before

bytesVars == <<job, answer>>

Least(a, b) == IF a < b THEN a ELSE b

(***************************************************************************)
(* memmove: n bytes of memory m from s to d.                               *)
(***************************************************************************)
RECURSIVE Forward(_, _, _, _), Backward(_, _, _, _)
Forward(m, d, s, n) ==
  IF n = 0 THEN m ELSE Forward([m EXCEPT ![d] = m[s]], d + 1, s + 1, n - 1)
Backward(m, d, s, n) ==
  IF n = 0 THEN m ELSE Backward([m EXCEPT ![d + n - 1] = m[s + n - 1]], d, s, n - 1)

memmove(m, d, s, n) ==
  IF s < d /\ s + n > d THEN Backward(m, d, s, n) ELSE Forward(m, d, s, n)

umemmove(m, d, s, n) == IF s > d THEN Forward(m, d, s, n) ELSE Backward(m, d, s, n)

(***************************************************************************)
(* Copies between the kernel and user memory.  A page of the process is    *)
(* mapped for the user, for the kernel only (the guard page) or not at     *)
(* all.  A copy is told by the user addresses it touches.                  *)
(***************************************************************************)
Mappings == [0..Pages - 1 -> {"user", "kernel", "none"}]
UserBytes == 0..Pages * PAGE - 1

PGROUNDDOWN(a) == a - (a % PAGE)
UserPage(pt, va) == va \div PAGE \in DOMAIN pt /\ pt[va \div PAGE] = "user"
InPage(va, len) == Least(PAGE - (va - PGROUNDDOWN(va)), len)
Addresses(va, n) == [i \in 1..n |-> va + i - 1]

RECURSIVE copyout(_, _, _, _), copyin(_, _, _, _)
copyout(pt, dstva, len, done) ==
  IF len = 0 THEN [ok |-> TRUE, copied |-> done]
  ELSE IF ~UserPage(pt, PGROUNDDOWN(dstva)) THEN [ok |-> FALSE, copied |-> done]
  ELSE copyout(pt, PGROUNDDOWN(dstva) + PAGE, len - InPage(dstva, len),
               done \o Addresses(dstva, InPage(dstva, len)))

copyin(pt, srcva, len, done) ==
  IF len = 0 THEN [ok |-> TRUE, copied |-> done]
  ELSE IF ~UserPage(pt, PGROUNDDOWN(srcva)) THEN [ok |-> FALSE, copied |-> done]
  ELSE copyin(pt, PGROUNDDOWN(srcva) + PAGE, len - InPage(srcva, len),
              done \o Addresses(srcva, InPage(srcva, len)))

WordFits(addr, sz) == ~(addr >= sz \/ (addr + WORD) % ADDRESSES > sz)

fetchaddr(pt, addr, sz) ==
  IF WordFits(addr, sz) THEN copyin(pt, addr, WORD, <<>>) ELSE [ok |-> FALSE, copied |-> <<>>]

(* The inner loop: bytes of one page, up to the first of the NULs, ends. *)
Scanned(ends, va, n) == LET z == ends \cap (va..va + n - 1)
                        IN IF z = {} THEN n ELSE Min(z) - va + 1

RECURSIVE copyinstr(_, _, _, _, _)
copyinstr(pt, ends, va, max, done) ==
  IF done # <<>> /\ done[Len(done)] \in ends THEN [ok |-> TRUE, copied |-> done]
  ELSE IF max = 0 \/ ~UserPage(pt, PGROUNDDOWN(va)) THEN [ok |-> FALSE, copied |-> done]
  ELSE copyinstr(pt, ends, PGROUNDDOWN(va) + PAGE, max - Scanned(ends, va, InPage(va, max)),
                 done \o Addresses(va, Scanned(ends, va, InPage(va, max))))

(* fetchstr() returns the length. *)
fetchstr(pt, ends, addr, max) ==
  LET r == copyinstr(pt, ends, addr, max, <<>>) IN IF r.ok THEN Len(r.copied) - 1 ELSE -1

(***************************************************************************)
(* Names in a path.  A name is a buffer of DIRSIZ bytes that ends in NUL   *)
(* only if it is shorter; namex() uses one buffer, uninitialized at first, *)
(* for every element.                                                      *)
(***************************************************************************)
Chars == {"a", "b"}
NUL == "0"
Paths == UNION {[1..k -> Chars \cup {"/"}] : k \in 0..MaxPath}
Garbage == [1..DIRSIZ -> {"a", NUL}]

RECURSIVE Slashes(_)
Slashes(p) == IF p # <<>> /\ Head(p) = "/" THEN Slashes(Tail(p)) ELSE p

(* Length of the first element of p. *)
Element(p) == LET ends == {i \in DOMAIN p : p[i] = "/"} IN IF ends = {} THEN Len(p) ELSE Min(ends) - 1

(* Mutant: a short name is not terminated. *)
Named_Open(p, len, name) == [i \in 1..DIRSIZ |-> IF i <= len THEN p[i] ELSE name[i]]

Named(p, len, name) ==
  [i \in 1..DIRSIZ |-> IF i <= len THEN p[i] ELSE IF i = len + 1 THEN NUL ELSE name[i]]

(* The buffers that namex() looks up, one after the other. *)
RECURSIVE skipelem(_, _)
skipelem(path, name) ==
  LET p == Slashes(path)
      new == Named(p, Element(p), name)
  IN IF p = <<>> THEN <<>> ELSE <<new>> \o skipelem(SubSeq(p, Element(p) + 1, Len(p)), new)

(* namecmp() compares with strncmp(), dirlink() stores with strncpy(). *)
RECURSIVE strncmp(_, _, _)
strncmp(p, q, i) ==
  IF i <= DIRSIZ /\ p[i] # NUL /\ p[i] = q[i] THEN strncmp(p, q, i + 1)
  ELSE i > DIRSIZ \/ p[i] = q[i]

strncpy(t) == [i \in 1..DIRSIZ |-> IF \E j \in 1..i - 1 : t[j] = NUL THEN NUL ELSE t[i]]

(***************************************************************************)
(* Integers as text.                                                       *)
(***************************************************************************)
UINT == 2 * (INT_MAX + 1)

RECURSIVE Digits(_)
Digits(x) == IF x < BASE THEN <<x>> ELSE Digits(x \div BASE) \o <<x % BASE>>

MINUS == -1   \* a character that is no digit

printint(xx, sign) ==
  IF sign /\ xx < 0 THEN <<MINUS>> \o Digits((-xx) % UINT) ELSE Digits(xx % UINT)

(* That of user/printf.c. *)
uprintint(xx, sgn) ==
  LET neg == sgn /\ xx < 0
      digits == Digits((IF neg THEN -xx ELSE xx) % UINT)
  IN IF neg THEN <<MINUS>> \o digits ELSE digits

(* A sum beyond INT_MAX wraps around. *)
IntWrap(n) == ((n + INT_MAX + 1) % UINT) - (INT_MAX + 1)

RECURSIVE atoi(_, _)
atoi(s, n) == IF s = <<>> \/ Head(s) = MINUS THEN n ELSE atoi(Tail(s), IntWrap(n * BASE + Head(s)))

(***************************************************************************)
(* Every function on every input.                                          *)
(***************************************************************************)
BytesInit ==
  /\ answer = <<>>
  /\ \/ \E d, s \in 0..BufSize, n \in 0..BufSize :
          d + n <= BufSize /\ s + n <= BufSize /\ job = [f |-> "memmove", d |-> d, s |-> s, n |-> n]
     \/ \E pt \in Mappings, va \in UserBytes, len \in 0..Pages * PAGE :
          job = [f |-> "copy", pt |-> pt, va |-> va, len |-> len]
     \/ \E pt \in Mappings, va \in 0..ADDRESSES - 1, sz \in 0..Pages * PAGE :
          job = [f |-> "fetchaddr", pt |-> pt, va |-> va, sz |-> sz]
     \/ \E pt \in [0..Pages - 1 -> {"user", "none"}], ends \in SUBSET UserBytes, va \in UserBytes, max \in 0..Pages * PAGE :
          job = [f |-> "fetchstr", pt |-> pt, ends |-> ends, va |-> va, max |-> max]
     \/ \E path \in Paths, name \in Garbage : job = [f |-> "skipelem", path |-> path, name |-> name]
     \/ \E xx \in -INT_MAX - 1..INT_MAX, sign \in BOOLEAN : job = [f |-> "printint", xx |-> xx, sign |-> sign]

Fresh == [a \in 0..BufSize |-> a]

Called(f) == job.f = f /\ answer = <<>> /\ UNCHANGED job

Moves == Called("memmove") /\ answer' = <<memmove(Fresh, job.d, job.s, job.n), umemmove(Fresh, job.d, job.s, job.n)>>
Copies == Called("copy") /\ answer' = <<copyin(job.pt, job.va, job.len, <<>>), copyout(job.pt, job.va, job.len, <<>>)>>
FetchesWord == Called("fetchaddr") /\ answer' = <<fetchaddr(job.pt, job.va, job.sz)>>
FetchesString == Called("fetchstr") /\ answer' = <<fetchstr(job.pt, job.ends, job.va, job.max)>>
Walks == Called("skipelem") /\ answer' = <<skipelem(job.path, job.name)>>
Prints == Called("printint") /\ answer' = <<printint(job.xx, job.sign), uprintint(job.xx, job.sign)>>

BytesNext == Moves \/ Copies \/ FetchesWord \/ FetchesString \/ Walks \/ Prints

(***************************************************************************)
(* What they are for.                                                      *)
(***************************************************************************)

(* All bytes move at once. *)
Moved == [a \in 0..BufSize |-> IF a \in job.d..job.d + job.n - 1 THEN job.s + a - job.d ELSE a]

(* The user may use all the bytes from a up to b. *)
Allowed(a, b) == \A x \in a..b - 1 : x \in UserBytes /\ job.pt[x \div PAGE] = "user"

(* A copy touches bytes in order, up to the first page that is not the     *)
(* user's.                                                                 *)
CopiedExactly(r, n) ==
  /\ r.ok <=> Allowed(job.va, job.va + n)
  /\ r.copied = Addresses(job.va, Max({k \in 0..n : Allowed(job.va, job.va + k)}))

(* Elements of the path, cut off at DIRSIZ. *)
Begins == {i \in DOMAIN job.path : job.path[i] # "/" /\ (i = 1 \/ job.path[i - 1] = "/")}
NameAt(i) ==
  LET stops == {j \in i..Len(job.path) : job.path[j] = "/"} \cup {Len(job.path) + 1}
  IN SubSeq(job.path, i, Least(Min(stops) - 1, i + DIRSIZ - 1))
KthBegin(k) == CHOOSE i \in Begins : Cardinality({j \in Begins : j < i}) = k - 1
AsString(name) == SubSeq(name, 1, Min({i \in 1..DIRSIZ : name[i] = NUL} \cup {DIRSIZ + 1}) - 1)

NamesAreExact(names) ==
  /\ Len(names) = Cardinality(Begins)
  /\ \A k \in DOMAIN names : AsString(names[k]) = NameAt(KthBegin(k))
  /\ \A j, k \in DOMAIN names :
       strncmp(strncpy(names[j]), names[k], 1) <=> NameAt(KthBegin(j)) = NameAt(KthBegin(k))

(* Each routine does what its callers take it for, at every boundary:      *)
(* memmove() copies overlapping bytes as if all at once, in the kernel and *)
(* in user programs; copyin() and copyout() copy exactly the bytes asked   *)
(* for across pages and stop at the first that is not the user's, and      *)
(* fetchaddr() does so only for a word that lies below the size, also      *)
(* where the address wraps around; fetchstr() finds the string exactly if  *)
(* it ends in time; a path is split into its elements, and two of them     *)
(* name the same entry exactly if they agree in DIRSIZ bytes, whatever the *)
(* buffer held before; and what printint() prints atoi() reads back,       *)
(* except that it knows no sign.                                           *)
AnswersAreExact ==
  answer # <<>> =>
    CASE job.f = "memmove" -> answer[1] = Moved /\ answer[2] = Moved
      [] job.f = "copy" -> CopiedExactly(answer[1], job.len) /\ CopiedExactly(answer[2], job.len)
      [] job.f = "fetchaddr" ->
           IF job.va + WORD <= job.sz THEN CopiedExactly(answer[1], WORD) ELSE ~answer[1].ok
      [] job.f = "fetchstr" ->
           LET z == Max({k \in 0..job.max : Allowed(job.va, job.va + k)})
               ended == job.ends \cap (job.va..job.va + z - 1)
           IN answer[1] = IF ended = {} THEN -1 ELSE Min(ended) - job.va
      [] job.f = "skipelem" -> NamesAreExact(answer[1])
      [] job.f = "printint" ->
           /\ job.sign /\ job.xx >= 0 => atoi(answer[1], 0) = job.xx
           /\ job.sign /\ job.xx < 0 => /\ atoi(answer[1], 0) = 0
                                       /\ atoi(Tail(answer[1]), 0) = IntWrap(-job.xx)
           /\ ~job.sign => atoi(answer[1], 0) = job.xx
           /\ answer[2] = answer[1]
=============================================================================
