------------------------------ MODULE DataLemmas ------------------------------
(***************************************************************************)
(* Facts about counters that wrap, rings, finite sets of numbers and       *)
(* sequences, which the proofs about the components rest on.               *)
(***************************************************************************)
EXTENDS Integers, Sequences, FiniteSets, SequenceTheorems, FiniteSetTheorems,
        WellFoundedInduction, TLAPS

-----------------------------------------------------------------------------
(* Numbers and sequences. *)

(* A set of numbers that is not empty has a smallest one. *)
LEMMA SmallestExists ==
  ASSUME NEW T, T \subseteq Nat, T # {}
  PROVE  \E x \in T : \A y \in T : x <= y
<1> DEFINE R == OpToRel(<, Nat)
<1>1. IsWellFoundedOn(R, Nat)
  BY NatLessThanWellFounded, Zenon
<1>2. PICK x \in T : \A y \in T : ~(<<y, x>> \in R)
  <2> HIDE DEF R
  <2> QED BY <1>1, WFMin, Zenon
<1>3. ASSUME NEW y \in T PROVE x <= y
  <2>1. x \in Nat /\ y \in Nat /\ <<y, x>> \notin R
    BY <1>2, <1>3, Zenon
  <2>2. y < x => <<y, x>> \in R
    BY <2>1, Zenon DEF OpToRel
  <2>3. ~(y < x)
    BY <2>1, <2>2, Zenon
  <2> HIDE DEF R
  <2> QED BY <2>1, <2>3
<1> QED BY <1>3, Zenon

(* A set of indices that is not empty has a largest one. *)
LEMMA LargestExists ==
  ASSUME NEW n \in Nat, NEW I, I \subseteq 1..n, I # {}
  PROVE  \E x \in I : \A y \in I : x >= y
<1> DEFINE T == {n - i : i \in I}
<1>1. \A i \in I : i \in Nat /\ i <= n /\ n - i \in Nat
  OBVIOUS
<1>2. T \subseteq Nat /\ T # {}
  <2>1. PICK i \in I : TRUE
    BY Zenon
  <2>2. n - i \in T
    BY Zenon
  <2> QED BY <1>1, <2>2, Zenon
<1>3. PICK x \in T : \A y \in T : x <= y
  <2> HIDE DEF T
  <2> QED BY <1>2, SmallestExists, Zenon
<1>4. PICK m \in I : x = n - m
  BY Zenon
<1>5. ASSUME NEW j \in I PROVE m >= j
  <2>1. n - m <= n - j
    BY <1>3, <1>4, Zenon
  <2>2. n \in Int /\ j \in Int /\ m \in Int
    BY <1>1
  <2> QED BY <2>1, <2>2
<1> QED BY <1>4, <1>5, Zenon

(* What is left of a sequence without its element k. *)
Cut(s, k) == SubSeq(s, 1, k - 1) \o SubSeq(s, k + 1, Len(s))

IsCut(S, s, k, c) ==
  /\ c \in Seq(S) /\ Len(c) = Len(s) - 1
  /\ \A j \in 1..(Len(s) - 1) : c[j] = IF j < k THEN s[j] ELSE s[j + 1]

LEMMA CutElements ==
  ASSUME NEW S, NEW s \in Seq(S), NEW k \in 1..Len(s)
  PROVE  IsCut(S, s, k, Cut(s, k))
<1> DEFINE u == SubSeq(s, 1, k - 1)
           v == SubSeq(s, k + 1, Len(s))
<1>1. Len(s) \in Nat /\ k \in Nat /\ 1 <= k /\ k <= Len(s)
  OBVIOUS
<1>2. u \in Seq(S) /\ Len(u) = k - 1 /\ \A j \in 1..(k - 1) : u[j] = s[j]
  BY <1>1, SubSeqProperties
<1>3. v \in Seq(S) /\ Len(v) = Len(s) - k /\ \A j \in 1..(Len(s) - k) : v[j] = s[k + j]
  BY <1>1, SubSeqProperties
<1>4. /\ u \o v \in Seq(S) /\ Len(u \o v) = Len(u) + Len(v)
      /\ \A j \in 1..(Len(u) + Len(v)) :
           (u \o v)[j] = IF j <= Len(u) THEN u[j] ELSE v[j - Len(u)]
  <2> HIDE DEF u, v
  <2> QED BY <1>2, <1>3, ConcatProperties, Zenon
<1>5. Cut(s, k) = u \o v
  BY Zenon DEF Cut
<1>6. Len(u \o v) = Len(s) - 1
  <2> HIDE DEF u, v
  <2>1. /\ Len(u) = k - 1 /\ Len(v) = Len(s) - k
        /\ Len(u \o v) = Len(u) + Len(v)
    BY <1>2, <1>3, <1>4, Zenon
  <2> QED BY <1>1, <2>1
<1>7. ASSUME NEW j \in 1..(Len(s) - 1)
      PROVE  (u \o v)[j] = IF j < k THEN s[j] ELSE s[j + 1]
  <2> HIDE DEF u, v
  <2>1. CASE j < k
    BY <1>1, <1>2, <1>3, <1>4, <2>1
  <2>2. CASE ~(j < k)
    <3>1. j - (k - 1) \in 1..(Len(s) - k) /\ k + (j - (k - 1)) = j + 1
      BY <1>1, <2>2
    <3>2. (u \o v)[j] = v[j - (k - 1)]
      BY <1>1, <1>2, <1>3, <1>4, <2>2
    <3> QED BY <1>3, <2>2, <3>1, <3>2, Zenon
  <2> QED BY <2>1, <2>2, Zenon
<1> QED BY <1>4, <1>5, <1>6, <1>7, Zenon DEF IsCut

(* Moving the entry k of s to the front loses no element. *)
KeepsAll(S, s, m) == m \in Seq(S) /\ \A i \in 1..Len(s) : \E j \in 1..Len(m) : m[j] = s[i]

LEMMA MovedElements ==
  ASSUME NEW S, NEW s \in Seq(S), NEW k \in 1..Len(s)
  PROVE  KeepsAll(S, s, <<s[k]>> \o Cut(s, k))
<1>0. PICK m : m = <<s[k]>> \o Cut(s, k)
  BY Zenon
<1>1. PICK c : c = Cut(s, k)
  BY Zenon
<1>2. IsCut(S, s, k, c)
  BY <1>1, CutElements, Zenon
<1>3. /\ c \in Seq(S) /\ Len(c) = Len(s) - 1
      /\ \A j \in 1..(Len(s) - 1) : c[j] = IF j < k THEN s[j] ELSE s[j + 1]
  BY <1>2, Zenon DEF IsCut
<1>4. Len(s) \in Nat /\ k \in Nat /\ 1 <= k /\ k <= Len(s) /\ s[k] \in S
  OBVIOUS
<1>5. PICK u : u = <<s[k]>>
  BY Zenon
<1>6. u \in Seq(S) /\ Len(u) = 1 /\ u[1] = s[k]
  BY <1>4, <1>5
<1>7. m = u \o c
  BY <1>0, <1>1, <1>5, Zenon
<1>8. /\ m \in Seq(S) /\ Len(m) = Len(u) + Len(c)
      /\ \A j \in 1..(Len(u) + Len(c)) : m[j] = IF j <= Len(u) THEN u[j] ELSE c[j - Len(u)]
  <2>1. /\ u \o c \in Seq(S) /\ Len(u \o c) = Len(u) + Len(c)
        /\ \A j \in 1..(Len(u) + Len(c)) : (u \o c)[j] = IF j <= Len(u) THEN u[j] ELSE c[j - Len(u)]
    BY <1>3, <1>6, ConcatProperties, Zenon
  <2> QED BY <1>7, <2>1, Zenon
<1>9. Len(m) = Len(s) /\ \A j \in 1..Len(s) : m[j] = IF j <= 1 THEN u[j] ELSE c[j - 1]
  <2>1. 1 + (Len(s) - 1) = Len(s)
    BY <1>4
  <2> QED BY <1>3, <1>6, <1>8, <2>1, Zenon
<1>10. ASSUME NEW i \in 1..Len(s) PROVE \E j \in 1..Len(m) : m[j] = s[i]
  <2>1. CASE i = k
    <3>1. 1 \in 1..Len(s) /\ 1 <= 1
      BY <1>4
    <3>2. m[1] = s[i]
      BY <1>6, <1>9, <2>1, <3>1, Zenon
    <3> QED BY <1>9, <3>1, <3>2, Zenon
  <2>2. CASE i < k
    <3>1. PICK j : j = i + 1
      BY Zenon
    <3>2. i \in 1..(Len(s) - 1) /\ j \in 1..Len(s) /\ ~(j <= 1) /\ j - 1 = i
      BY <1>4, <2>2, <3>1
    <3>3. m[j] = s[i]
      BY <1>3, <1>9, <2>2, <3>2, Zenon
    <3> QED BY <1>9, <3>2, <3>3, Zenon
  <2>3. CASE i > k
    <3>1. PICK j : j = i - 1
      BY Zenon
    <3>2. j \in 1..(Len(s) - 1) /\ ~(j < k) /\ j + 1 = i /\ i - 1 = j /\ ~(i <= 1)
      BY <1>4, <2>3, <3>1
    <3>3. m[i] = s[i]
      BY <1>3, <1>9, <3>2, Zenon
    <3> QED BY <1>9, <3>3, Zenon
  <2>4. i = k \/ i < k \/ i > k
    BY <1>4
  <2> QED BY <2>1, <2>2, <2>3, <2>4, Zenon
<1> QED BY <1>0, <1>8, <1>10, Zenon DEF KeepsAll

-----------------------------------------------------------------------------
(* Counters that wrap. *)

LEMMA ModRest ==
  ASSUME NEW n \in Nat \ {0}, NEW a \in Int
  PROVE  a = n * (a \div n) + (a % n) /\ (a \div n) \in Int /\ (a % n) \in 0..(n - 1)
  OBVIOUS

LEMMA ModUnique ==
  ASSUME NEW n \in Nat \ {0}, NEW q \in Int, NEW r \in 0..(n - 1) PROVE (n * q + r) % n = r
  OBVIOUS

LEMMA ModAdd ==
  ASSUME NEW n \in Nat \ {0}, NEW a \in Int, NEW k \in Int PROVE (a + n * k) % n = a % n
<1>1. ASSUME NEW q \in Int, NEW r \in 0..(n - 1), a = n * q + r PROVE (a + n * k) % n = a % n
  <2>1. a % n = r
    BY <1>1, ModUnique, Zenon
  <2>2. a + n * k = n * (q + k) + r /\ q + k \in Int
    BY <1>1
  <2>3. (n * (q + k) + r) % n = r
    BY <2>2, ModUnique, Zenon
  <2> QED BY <2>1, <2>2, <2>3, Zenon
<1> QED BY <1>1, ModRest, Zenon

(* A counter that wraps at a multiple of n names the same entry of a ring   *)
(* of n before and after.                                                   *)
LEMMA Wrapped ==
  ASSUME NEW n \in Nat \ {0}, NEW l \in Nat \ {0}, NEW x \in Int, NEW k \in Int
  PROVE  ((x % (n * l)) + k) % n = (x + k) % n
<1>1. n * l \in Nat \ {0}
  OBVIOUS
<1>2. PICK q \in Int : x = (n * l) * q + (x % (n * l))
  BY <1>1, ModRest, Zenon
<1>3. x % (n * l) \in Int
  BY <1>1, ModRest
<1>4. PICK r \in Int : r = x % (n * l)
  BY <1>3, Zenon
<1>5. x + k = (r + k) + n * (l * q) /\ r + k \in Int /\ l * q \in Int
  <2>1. x = (n * l) * q + r
    BY <1>2, <1>4, Zenon
  <2>2. (n * l) * q = n * (l * q)
    OBVIOUS
  <2> QED BY <2>1, <2>2
<1>6. ((r + k) + n * (l * q)) % n = (r + k) % n
  BY <1>5, ModAdd, Zenon
<1> QED BY <1>4, <1>5, <1>6, Zenon

(* Two entries of a ring less than its size apart differ. *)
LEMMA EntriesDiffer ==
  ASSUME NEW n \in Nat \ {0}, NEW a \in Int, NEW b \in Int, a < b, b < a + n
  PROVE  a % n # b % n
<1> SUFFICES ASSUME a % n = b % n PROVE FALSE
  BY Zenon
<1>1. PICK q \in Int : b - a = n * q
  <2>1. PICK i \in Int : a = n * i + (a % n)
    BY ModRest, Zenon
  <2>2. PICK j \in Int : b = n * j + (b % n)
    BY ModRest, Zenon
  <2>3. ASSUME NEW r \in Int, a = n * i + r, b = n * j + r
        PROVE  b - a = n * (j - i)
    BY <2>3
  <2>4. a % n \in Int /\ j - i \in Int
    BY ModRest
  <2> QED BY <2>1, <2>2, <2>3, <2>4, Zenon
<1>2. CASE q <= 0
  BY <1>1, <1>2
<1>3. CASE q >= 1
  <2>1. n * q = n * (q - 1) + n /\ n * (q - 1) >= 0
    BY <1>3
  <2> QED BY <1>1, <2>1
<1> QED BY <1>2, <1>3

(* A ring r of n entries, between two counters that wrap at n * l: those   *)
(* entries and no others hold something, each something else.              *)
Vacant == -1
Full(n, r) == {i \in 0..(n - 1) : r[i] # Vacant}
Around(n, from, m) == {(from + k) % n : k \in 0..(m - 1)}
IsRing(n, l, r, from, to) ==
  /\ to = (from + Cardinality(Full(n, r))) % (n * l)
  /\ Full(n, r) = Around(n, from, Cardinality(Full(n, r)))
  /\ \A i, j \in Full(n, r) : r[i] = r[j] => i = j
HeadsOf(n, r) == {r[i] : i \in Full(n, r)}

LEMMA FullFinite ==
  ASSUME NEW n \in Nat \ {0}, NEW r
  PROVE  IsFiniteSet(Full(n, r)) /\ Cardinality(Full(n, r)) \in 0..n
<1>1. IsFiniteSet(0..(n - 1)) /\ Cardinality(0..(n - 1)) = n
  BY FS_Interval, 0 \in Int, n - 1 \in Int, ~(0 > n - 1), n - 1 - 0 + 1 = n
<1>2. Full(n, r) \in SUBSET (0..(n - 1))
  BY Zenon DEF Full
<1>3. IsFiniteSet(Full(n, r)) /\ Cardinality(Full(n, r)) <= n
  BY <1>1, <1>2, FS_Subset, Zenon
<1>4. Cardinality(Full(n, r)) \in Nat
  BY <1>3, FS_CardinalityType, Zenon
<1> QED BY <1>3, <1>4

LEMMA AroundPut ==
  ASSUME NEW n \in Nat \ {0}, NEW from \in Int, NEW m \in Nat,
         NEW m1 \in Nat, m1 = m + 1, m1 <= n
  PROVE  /\ (from + m) % n \in 0..(n - 1)
         /\ (from + m) % n \notin Around(n, from, m)
         /\ Around(n, from, m) \cup {(from + m) % n} = Around(n, from, m1)
<1>1. (from + m) % n \in 0..(n - 1)
  BY ModRest, from + m \in Int
<1>2. ASSUME NEW k \in 0..(m - 1) PROVE (from + k) % n # (from + m) % n
  <2>1. from + k \in Int /\ from + m \in Int /\ from + k < from + m /\ from + m < (from + k) + n
    OBVIOUS
  <2> QED BY <2>1, EntriesDiffer, Zenon
<1>3. /\ \A k \in 0..(m1 - 1) : k \in 0..(m - 1) \/ k = m
      /\ \A k \in 0..(m - 1) : k \in 0..(m1 - 1)
      /\ m \in 0..(m1 - 1)
  OBVIOUS
<1>4. Around(n, from, m) \cup {(from + m) % n} = Around(n, from, m1)
  <2>1. ASSUME NEW x \in Around(n, from, m1) PROVE x \in Around(n, from, m) \cup {(from + m) % n}
    <3>1. PICK k \in 0..(m1 - 1) : x = (from + k) % n
      BY Zenon DEF Around
    <3> QED BY <1>3, <3>1, Zenon DEF Around
  <2>2. Around(n, from, m) \subseteq Around(n, from, m1) /\ (from + m) % n \in Around(n, from, m1)
    BY <1>3, Zenon DEF Around
  <2> QED BY <2>1, <2>2, Zenon
<1> QED BY <1>1, <1>2, <1>4, Zenon DEF Around

(* Without its first entry, the rest starts one later. *)
Shifted(n, l, from, m, m1) ==
  /\ from % n \in Around(n, from, m1)
  /\ Around(n, from, m1) \ {from % n} = Around(n, (from + 1) % (n * l), m)

LEMMA AroundTake ==
  ASSUME NEW n \in Nat \ {0}, NEW l \in Nat \ {0}, NEW from \in Int, NEW m \in Nat,
         NEW m1 \in Nat, m1 = m + 1, m1 <= n
  PROVE  Shifted(n, l, from, m, m1)
<1>1. \A k \in 0..(m - 1) : (((from + 1) % (n * l)) + k) % n = (from + (k + 1)) % n
  <2>1. ASSUME NEW k \in 0..(m - 1) PROVE (((from + 1) % (n * l)) + k) % n = (from + (k + 1)) % n
    <3>1. (((from + 1) % (n * l)) + k) % n = ((from + 1) + k) % n
      BY from + 1 \in Int, k \in Int, Wrapped
    <3> QED BY <3>1, (from + 1) + k = from + (k + 1)
  <2> QED BY <2>1, Zenon
<1>2. ASSUME NEW k \in 0..(m - 1) PROVE (from + (k + 1)) % n # (from + 0) % n
  <2>1. from + 0 \in Int /\ from + (k + 1) \in Int /\ from + 0 < from + (k + 1)
        /\ from + (k + 1) < (from + 0) + n
    OBVIOUS
  <2> QED BY <2>1, EntriesDiffer, Zenon
<1>3. \A k \in 0..(m1 - 1) : k = 0 \/ \E j \in 0..(m - 1) : k = j + 1
  <2>1. ASSUME NEW k \in 0..(m1 - 1), k # 0 PROVE \E j \in 0..(m - 1) : k = j + 1
    <3>1. k - 1 \in 0..(m - 1) /\ k = (k - 1) + 1
      BY <2>1
    <3> QED BY <3>1, Zenon
  <2> QED BY <2>1, Zenon
<1>4. 0 \in 0..(m1 - 1) /\ \A j \in 0..(m - 1) : j + 1 \in 0..(m1 - 1)
  OBVIOUS
<1>5. Around(n, from, m1) = {(from + 0) % n} \cup {(from + (j + 1)) % n : j \in 0..(m - 1)}
  <2>1. ASSUME NEW x \in Around(n, from, m1)
        PROVE  x = (from + 0) % n \/ \E j \in 0..(m - 1) : x = (from + (j + 1)) % n
    <3>1. PICK k \in 0..(m1 - 1) : x = (from + k) % n
      BY Zenon DEF Around
    <3> QED BY <1>3, <3>1, Zenon
  <2>2. (from + 0) % n \in Around(n, from, m1)
    BY <1>4, Zenon DEF Around
  <2>3. \A j \in 0..(m - 1) : (from + (j + 1)) % n \in Around(n, from, m1)
    BY <1>4, Zenon DEF Around
  <2> QED BY <2>1, <2>2, <2>3, Zenon
<1>6. Around(n, (from + 1) % (n * l), m) = {(from + (j + 1)) % n : j \in 0..(m - 1)}
  BY <1>1, Zenon DEF Around
<1>7. from + 0 = from
  OBVIOUS
<1> QED BY <1>2, <1>5, <1>6, <1>7, Zenon DEF Shifted

LEMMA WrapAdd ==
  ASSUME NEW n \in Nat \ {0}, NEW x \in Int, NEW k \in Int PROVE ((x % n) + k) % n = (x + k) % n
<1>1. n * 1 = n /\ 1 \in Nat \ {0}
  OBVIOUS
<1>2. ((x % (n * 1)) + k) % n = (x + k) % n
  BY <1>1, Wrapped, Zenon
<1> QED BY <1>1, <1>2, Zenon

LEMMA ExceptAt ==
  ASSUME NEW f, NEW S, DOMAIN f = S, NEW d \in S, NEW e
  PROVE  /\ DOMAIN [f EXCEPT ![d] = e] = S
         /\ \A i \in S : [f EXCEPT ![d] = e][i] = IF i = d THEN e ELSE f[i]
  OBVIOUS

(* The producer puts h at the entry its counter names. *)
Puts(n, l, r, from, to, h, s) ==
  /\ IsRing(n, l, s, from, (to + 1) % (n * l))
  /\ HeadsOf(n, s) = HeadsOf(n, r) \cup {h}

LEMMA PutRing ==
  ASSUME NEW n \in Nat \ {0}, NEW l \in Nat \ {0}, NEW from \in Int, NEW to,
         NEW r, DOMAIN r = 0..(n - 1), IsRing(n, l, r, from, to),
         Cardinality(Full(n, r)) < n, NEW h, h # Vacant, h \notin HeadsOf(n, r)
  PROVE  Puts(n, l, r, from, to, h, [r EXCEPT ![to % n] = h])
<1>1. PICK m \in Nat : m = Cardinality(Full(n, r))
  BY FullFinite, \A x \in 0..n : x \in Nat, Zenon
<1>2. PICK m1 \in Nat : m1 = m + 1
  OBVIOUS
<1>3. m1 <= n
  BY <1>1, <1>2
<1>4. PICK t \in 0..(n - 1) : t = (from + m) % n
  BY ModRest, from + m \in Int
<1>5. to % n = t /\ (to + 1) % (n * l) = (from + m1) % (n * l)
  <2>1. PICK x \in Int : x = from + m
    OBVIOUS
  <2>2. n * l \in Nat \ {0}
    OBVIOUS
  <2>3. to = x % (n * l)
    BY <1>1, <2>1, Zenon DEF IsRing
  <2>4. ((x % (n * l)) + 0) % n = (x + 0) % n
    BY Wrapped, 0 \in Int, Zenon
  <2>5. (x % (n * l)) + 0 = x % (n * l) /\ x + 0 = x
    BY <2>2, ModRest
  <2>6. to % n = t
    BY <1>4, <2>1, <2>3, <2>4, <2>5, Zenon
  <2>7. ((x % (n * l)) + 1) % (n * l) = (x + 1) % (n * l)
    BY <2>2, WrapAdd, 1 \in Int, Zenon
  <2>8. x + 1 = from + m1
    BY <1>2, <2>1
  <2> QED BY <2>3, <2>6, <2>7, <2>8, Zenon
<1>6. PICK s : s = [r EXCEPT ![t] = h]
  BY Zenon
<1>7. DOMAIN s = 0..(n - 1) /\ \A i \in 0..(n - 1) : s[i] = IF i = t THEN h ELSE r[i]
  BY <1>6, ExceptAt, Zenon
<1>8. Full(n, r) = Around(n, from, m)
  BY <1>1, Zenon DEF IsRing
<1>9. t \notin Full(n, r) /\ Full(n, r) \cup {t} = Around(n, from, m1)
  <2>1. /\ (from + m) % n \notin Around(n, from, m)
        /\ Around(n, from, m) \cup {(from + m) % n} = Around(n, from, m1)
    BY <1>2, <1>3, AroundPut, Zenon
  <2> QED BY <1>4, <1>8, <2>1, Zenon
<1>10. Full(n, s) = Full(n, r) \cup {t}
  BY <1>7, Zenon DEF Full
<1>11. Cardinality(Full(n, s)) = m1
  <2>1. IsFiniteSet(Full(n, r))
    BY FullFinite, Zenon
  <2>2. Cardinality(Full(n, r) \cup {t}) = Cardinality(Full(n, r)) + 1
    BY <1>9, <2>1, FS_AddElement, Zenon
  <2> QED BY <1>1, <1>2, <1>10, <2>2, Zenon
<1>12. \A i \in Full(n, r) : i \in 0..(n - 1) /\ i # t /\ s[i] = r[i] /\ r[i] # h
  BY <1>7, <1>9, Zenon DEF Full, HeadsOf
<1>13. s[t] = h
  BY <1>7, Zenon
<1>14. \A i, j \in Full(n, s) : s[i] = s[j] => i = j
  BY <1>10, <1>12, <1>13, Zenon DEF IsRing
<1>15. IsRing(n, l, s, from, (to + 1) % (n * l))
  BY <1>5, <1>9, <1>10, <1>11, <1>14, Zenon DEF IsRing
<1>16. HeadsOf(n, s) = HeadsOf(n, r) \cup {h}
  BY <1>10, <1>12, <1>13, Zenon DEF HeadsOf
<1> QED BY <1>5, <1>6, <1>15, <1>16, Zenon DEF Puts

(* The consumer takes the entry its counter names. *)
LEMMA TakeRing ==
  ASSUME NEW n \in Nat \ {0}, NEW l \in Nat \ {0}, NEW from \in Int, NEW to,
         NEW r, DOMAIN r = 0..(n - 1), IsRing(n, l, r, from, to), Full(n, r) # {}
  PROVE  /\ IsRing(n, l, [r EXCEPT ![from % n] = Vacant], (from + 1) % (n * l), to)
         /\ r[from % n] \in HeadsOf(n, r) /\ from % n \in 0..(n - 1)
         /\ HeadsOf(n, [r EXCEPT ![from % n] = Vacant]) = HeadsOf(n, r) \ {r[from % n]}
         /\ Full(n, [r EXCEPT ![from % n] = Vacant]) \subseteq Full(n, r)
<1>1. PICK m1 \in Nat : m1 = Cardinality(Full(n, r)) /\ m1 <= n /\ m1 # 0
  <2>1. IsFiniteSet(Full(n, r)) /\ Cardinality(Full(n, r)) \in 0..n
    BY FullFinite, Zenon
  <2>2. Cardinality(Full(n, r)) # 0
    BY <2>1, FS_EmptySet, Zenon
  <2>3. \A x \in 0..n : x \in Nat /\ x <= n
    OBVIOUS
  <2> QED BY <2>1, <2>2, <2>3, Zenon
<1>2. PICK m \in Nat : m1 = m + 1
  BY <1>1, m1 - 1 \in Nat, m1 = (m1 - 1) + 1
<1>3. PICK t \in 0..(n - 1) : t = from % n
  BY ModRest
<1>4. to = (((from + 1) % (n * l)) + m) % (n * l)
  <2>1. n * l \in Nat \ {0} /\ from + 1 \in Int /\ m \in Int
    OBVIOUS
  <2>2. (((from + 1) % (n * l)) + m) % (n * l) = ((from + 1) + m) % (n * l)
    BY <2>1, WrapAdd, Zenon
  <2>3. (from + 1) + m = from + m1
    BY <1>2
  <2>4. to = (from + m1) % (n * l)
    BY <1>1, Zenon DEF IsRing
  <2> QED BY <2>2, <2>3, <2>4, Zenon
<1>5. PICK s : s = [r EXCEPT ![t] = Vacant]
  BY Zenon
<1>6. DOMAIN s = 0..(n - 1) /\ \A i \in 0..(n - 1) : s[i] = IF i = t THEN Vacant ELSE r[i]
  BY <1>5, ExceptAt, Zenon
<1>7. Full(n, r) = Around(n, from, m1)
  BY <1>1, Zenon DEF IsRing
<1>8. t \in Full(n, r) /\ Full(n, r) \ {t} = Around(n, (from + 1) % (n * l), m)
  <2>0. m1 = m + 1 /\ m1 <= n
    BY <1>1, <1>2
  <2>1. Shifted(n, l, from, m, m1)
    BY <2>0, AroundTake, Zenon
  <2> QED BY <1>3, <1>7, <2>1, Zenon DEF Shifted
<1>9. Full(n, s) = Full(n, r) \ {t}
  BY <1>6, Zenon DEF Full
<1>10. Cardinality(Full(n, s)) = m
  <2>1. IsFiniteSet(Full(n, r))
    BY FullFinite, Zenon
  <2>2. Cardinality(Full(n, r) \ {t}) = Cardinality(Full(n, r)) - 1
    BY <1>8, <2>1, FS_RemoveElement, Zenon
  <2>3. m1 - 1 = m
    BY <1>2
  <2> QED BY <1>1, <1>9, <2>2, <2>3, Zenon
<1>11. \A i \in Full(n, s) : i \in Full(n, r) /\ i # t /\ s[i] = r[i]
  BY <1>6, <1>9, Zenon DEF Full
<1>12. \A i, j \in Full(n, r) : r[i] = r[j] => i = j
  BY Zenon DEF IsRing
<1>13. \A i, j \in Full(n, s) : s[i] = s[j] => i = j
  BY <1>11, <1>12, Zenon
<1>14. IsRing(n, l, s, (from + 1) % (n * l), to)
  BY <1>4, <1>8, <1>9, <1>10, <1>13, Zenon DEF IsRing
<1>15. HeadsOf(n, s) = HeadsOf(n, r) \ {r[t]}
  <2>1. ASSUME NEW x \in HeadsOf(n, s) PROVE x \in HeadsOf(n, r) /\ x # r[t]
    <3>1. PICK i \in Full(n, s) : x = s[i]
      BY Zenon DEF HeadsOf
    <3> QED BY <1>8, <1>11, <1>12, <3>1, Zenon DEF HeadsOf
  <2>2. ASSUME NEW x \in HeadsOf(n, r), x # r[t] PROVE x \in HeadsOf(n, s)
    <3>1. PICK i \in Full(n, r) : x = r[i]
      BY Zenon DEF HeadsOf
    <3>2. i \in Full(n, s)
      BY <1>9, <2>2, <3>1, Zenon
    <3> QED BY <1>11, <3>1, <3>2, Zenon DEF HeadsOf
  <2> QED BY <2>1, <2>2, Zenon
<1>16. r[t] \in HeadsOf(n, r)
  BY <1>8, Zenon DEF HeadsOf
<1> QED BY <1>3, <1>5, <1>9, <1>14, <1>15, <1>16, Zenon

(* The counters of a ring that is empty are equal. *)
LEMMA EmptyIsEqual ==
  ASSUME NEW n \in Nat \ {0}, NEW l \in Nat \ {0}, NEW from \in 0..(n * l - 1), NEW to, NEW r,
         IsRing(n, l, r, from, to), Full(n, r) = {}
  PROVE  to = from
<1>1. Cardinality(Full(n, r)) = 0
  BY FS_EmptySet, Zenon
<1>2. to = (from + 0) % (n * l)
  BY <1>1, Zenon DEF IsRing
<1>3. PICK s \in Nat \ {0} : s = n * l
  OBVIOUS
<1>4. (from + 0) % s = from
  BY <1>3
<1> QED BY <1>2, <1>3, <1>4, Zenon

(* A ring that is not full is empty when its counters are equal. *)
LEMMA EqualIsEmpty ==
  ASSUME NEW n \in Nat \ {0}, NEW l \in Nat \ {0}, NEW from \in 0..(n * l - 1), NEW r,
         IsRing(n, l, r, from, from), Cardinality(Full(n, r)) < n
  PROVE  Full(n, r) = {}
<1>1. PICK m \in Nat : m = Cardinality(Full(n, r))
  BY FullFinite, \A x \in 0..n : x \in Nat, Zenon
<1>2. IsFiniteSet(Full(n, r))
  BY FullFinite, Zenon
<1>3. PICK s \in Nat \ {0} : s = n * l
  OBVIOUS
<1>4. from \in Int /\ from % s = from
  BY <1>3
<1>5. from = (from + m) % s
  BY <1>1, <1>3, Zenon DEF IsRing
<1>6. ASSUME m # 0 PROVE FALSE
  <2>1. n <= s
    BY <1>3
  <2>2. from + m \in Int /\ from < from + m /\ from + m < from + s
    BY <1>1, <1>4, <1>6, <2>1
  <2>3. from % s # (from + m) % s
    BY <1>4, <2>2, EntriesDiffer, Zenon
  <2> QED BY <1>4, <1>5, <2>3, Zenon
<1>7. m = 0 => Full(n, r) = {}
  BY <1>1, <1>2, FS_EmptySet, Zenon
<1> QED BY <1>6, <1>7, Zenon

-----------------------------------------------------------------------------
(* Counting. *)

(* Of three or more numbers there are three lowest. *)
LEMMA LowestThree ==
  ASSUME NEW F, F \subseteq Nat, IsFiniteSet(F), Cardinality(F) >= 3
  PROVE  \A i \in 1..3 : \E d \in F : Cardinality({e \in F : e < d}) = i - 1
<1>0. PICK n \in Nat : n = Cardinality(F) /\ n >= 3
  BY FS_CardinalityType, Zenon
<1>1. PICK a \in F : \A y \in F : a <= y
  <2>1. F # {}
    BY <1>0, FS_EmptySet
  <2> QED BY <2>1, SmallestExists, Zenon
<1>2. IsFiniteSet(F \ {a}) /\ Cardinality(F \ {a}) = n - 1
  BY <1>0, <1>1, FS_RemoveElement, Zenon
<1>3. PICK b \in F \ {a} : \A y \in F \ {a} : b <= y
  <2>1. F \ {a} # {}
    BY <1>0, <1>2, FS_EmptySet
  <2>2. F \ {a} \subseteq Nat
    BY Zenon
  <2> QED BY <2>1, <2>2, SmallestExists, Zenon
<1>4. IsFiniteSet((F \ {a}) \ {b}) /\ Cardinality((F \ {a}) \ {b}) = (n - 1) - 1
  BY <1>2, <1>3, FS_RemoveElement, Zenon
<1>5. PICK c \in (F \ {a}) \ {b} : \A y \in (F \ {a}) \ {b} : c <= y
  <2>1. (F \ {a}) \ {b} # {}
    BY <1>0, <1>4, FS_EmptySet
  <2>2. (F \ {a}) \ {b} \subseteq Nat
    BY Zenon
  <2> QED BY <2>1, <2>2, SmallestExists, Zenon
<1>6. a \in Nat /\ b \in Nat /\ c \in Nat /\ a # b /\ a # c /\ b # c
  BY <1>1, <1>3, <1>5, Zenon
<1>7. a < b /\ b < c /\ a < c
  <2>1. a <= b /\ b <= c
    BY <1>1, <1>3, <1>5, Zenon
  <2> QED BY <1>6, <2>1
<1>8. \A e \in F : e \in Nat
  BY Zenon
<1>9. {e \in F : e < a} = {}
  <2>1. ASSUME NEW e \in F, e < a PROVE FALSE
    <3>1. a <= e /\ e \in Nat
      BY <1>1, <1>8, Zenon
    <3> QED BY <1>6, <2>1, <3>1
  <2> QED BY <2>1, Zenon
<1>10. {e \in F : e < b} = {a}
  <2>1. ASSUME NEW e \in F, e < b, e # a PROVE FALSE
    <3>1. b <= e /\ e \in Nat
      BY <1>3, <1>8, <2>1, Zenon
    <3> QED BY <1>6, <2>1, <3>1
  <2> QED BY <1>1, <1>7, <2>1, Zenon
<1>11. {e \in F : e < c} = {a} \cup {b}
  <2>1. ASSUME NEW e \in F, e < c, e # a, e # b PROVE FALSE
    <3>1. c <= e /\ e \in Nat
      BY <1>5, <1>8, <2>1, Zenon
    <3> QED BY <1>6, <2>1, <3>1
  <2> QED BY <1>1, <1>3, <1>7, <2>1, Zenon
<1>12. Cardinality({}) = 0 /\ Cardinality({a}) = 1 /\ IsFiniteSet({a})
  BY FS_EmptySet, FS_Singleton, Zenon
<1>13. Cardinality({a} \cup {b}) = 2
  <2>1. Cardinality({a} \cup {b}) = Cardinality({a}) + 1
    BY <1>6, <1>12, FS_AddElement, Zenon
  <2> QED BY <1>12, <2>1
<1>14. ASSUME NEW i \in 1..3 PROVE \E d \in F : Cardinality({e \in F : e < d}) = i - 1
  <2>1. i = 1 \/ i = 2 \/ i = 3
    BY <1>14
  <2>2. CASE i = 1
    <3>1. i - 1 = 0
      BY <2>2
    <3> QED BY <1>1, <1>9, <1>12, <3>1, Zenon
  <2>3. CASE i = 2
    <3>1. i - 1 = 1
      BY <2>3
    <3> QED BY <1>3, <1>10, <1>12, <3>1, Zenon
  <2>4. CASE i = 3
    <3>1. i - 1 = 2
      BY <2>4
    <3> QED BY <1>5, <1>11, <1>13, <3>1, Zenon
  <2> QED BY <2>1, <2>2, <2>3, <2>4, Zenon
<1> QED BY <1>14, Zenon

(* How many of P the function f sends to b. *)
Count(P, f, b) == Cardinality({q \in P : f[q] = b})

(* g sends p to b instead of a. *)
Sends(P, f, p, a, b, g) ==
  a # b /\ f[p] = a /\ \A q \in P : g[q] = IF q = p THEN b ELSE f[q]

OneMoved(P, f, a, b, g) ==
  /\ Count(P, g, a) = Count(P, f, a) - 1
  /\ Count(P, g, b) = Count(P, f, b) + 1
  /\ \A c : c # a /\ c # b => Count(P, g, c) = Count(P, f, c)

LEMMA CountMoves ==
  ASSUME NEW P, IsFiniteSet(P), NEW f, NEW p \in P, NEW a, NEW b, NEW g, Sends(P, f, p, a, b, g)
  PROVE  OneMoved(P, f, a, b, g)
<1>1. a # b /\ f[p] = a /\ \A q \in P : g[q] = IF q = p THEN b ELSE f[q]
  BY Zenon DEF Sends
<1>2. {q \in P : g[q] = a} = {q \in P : f[q] = a} \ {p}
  BY <1>1, Zenon
<1>3. {q \in P : g[q] = b} = {q \in P : f[q] = b} \cup {p}
  BY <1>1, Zenon
<1>4. \A c : c # a /\ c # b => {q \in P : g[q] = c} = {q \in P : f[q] = c}
  BY <1>1, Zenon
<1>5. \A c : {q \in P : f[q] = c} \in SUBSET P
  BY Zenon
<1>6. \A c : IsFiniteSet({q \in P : f[q] = c})
  BY <1>5, FS_Subset, Zenon
<1>7. p \in {q \in P : f[q] = a} /\ p \notin {q \in P : f[q] = b}
  BY <1>1, Zenon
<1>8. Count(P, g, a) = Count(P, f, a) - 1
  <2>1. Cardinality({q \in P : f[q] = a} \ {p}) = Cardinality({q \in P : f[q] = a}) - 1
    <3>1. PICK A : A = {q \in P : f[q] = a}
      BY Zenon
    <3>2. IsFiniteSet(A) /\ p \in A
      BY <1>6, <1>7, <3>1, Zenon
    <3>3. Cardinality(A \ {p}) = Cardinality(A) - 1
      BY <3>2, FS_RemoveElement, Zenon
    <3> QED BY <3>1, <3>3, Zenon
  <2> QED BY <1>2, <2>1, Zenon DEF Count
<1>9. Count(P, g, b) = Count(P, f, b) + 1
  <2>1. Cardinality({q \in P : f[q] = b} \cup {p}) = Cardinality({q \in P : f[q] = b}) + 1
    <3>1. PICK A : A = {q \in P : f[q] = b}
      BY Zenon
    <3>2. IsFiniteSet(A) /\ p \notin A
      BY <1>6, <1>7, <3>1, Zenon
    <3>3. Cardinality(A \cup {p}) = Cardinality(A) + 1
      BY <3>2, FS_AddElement, Zenon
    <3> QED BY <3>1, <3>3, Zenon
  <2> QED BY <1>3, <2>1, Zenon DEF Count
<1>10. \A c : c # a /\ c # b => Count(P, g, c) = Count(P, f, c)
  BY <1>4, Zenon DEF Count
<1> QED BY <1>8, <1>9, <1>10, Zenon DEF OneMoved

LEMMA CountNat ==
  ASSUME NEW P, IsFiniteSet(P), NEW f, NEW b
  PROVE  Count(P, f, b) \in Nat /\ (Count(P, f, b) = 0 <=> \A q \in P : f[q] # b)
<1>1. {q \in P : f[q] = b} \in SUBSET P
  BY Zenon
<1>2. IsFiniteSet({q \in P : f[q] = b})
  BY <1>1, FS_Subset, Zenon
<1>3. Count(P, f, b) = 0 <=> {q \in P : f[q] = b} = {}
  BY <1>2, FS_EmptySet, Zenon DEF Count
<1>4. {q \in P : f[q] = b} = {} <=> \A q \in P : f[q] # b
  BY Zenon
<1> QED BY <1>2, <1>3, <1>4, FS_CardinalityType, Zenon DEF Count

(* B is covered by what f reaches from P without p, and by what g sends,    *)
(* each to another one, into K.                                             *)
Covers(P, p, K, B, f, g) ==
  /\ \A b \in B : (\E q \in P \ {p} : f[q] = b) \/ g[b] \in K
  /\ \A b, c \in B : g[b] = g[c] /\ g[b] \in K => b = c

LEMMA CoverBound ==
  ASSUME NEW P, IsFiniteSet(P), NEW p \in P, NEW K, IsFiniteSet(K), NEW B, IsFiniteSet(B), NEW f, NEW g,
         Covers(P, p, K, B, f, g)
  PROVE  Cardinality(B) < Cardinality(P) + Cardinality(K)
<1>1. PICK C : C = {b \in B : g[b] \in K}
  BY Zenon
<1>2. PICK D : D = {b \in B : \E q \in P \ {p} : f[q] = b}
  BY Zenon
<1>3. IsFiniteSet(P \ {p}) /\ Cardinality(P \ {p}) = Cardinality(P) - 1
  BY FS_RemoveElement, Zenon
<1>4. PICK Q : Q = {q \in P \ {p} : f[q] \in D}
  BY Zenon
<1>5. Q \in SUBSET (P \ {p})
  BY <1>4, Zenon
<1>6. IsFiniteSet(Q) /\ Cardinality(Q) <= Cardinality(P \ {p})
  BY <1>3, <1>5, FS_Subset, Zenon
<1>7. IsFiniteSet(D) /\ Cardinality(D) <= Cardinality(Q)
  <2>1. [q \in Q |-> f[q]] \in Surjection(Q, D)
    <3>1. [q \in Q |-> f[q]] \in [Q -> D]
      BY <1>4, Zenon
    <3>2. \A d \in D : \E q \in Q : [x \in Q |-> f[x]][q] = d
      BY <1>2, <1>4, Zenon
    <3> QED BY <3>1, <3>2, Zenon DEF Surjection
  <2> QED BY <1>6, <2>1, FS_Surjection, Zenon
<1>8. IsFiniteSet(C) /\ Cardinality(C) <= Cardinality(K)
  <2>1. [c \in C |-> g[c]] \in Injection(C, K)
    <3>1. [c \in C |-> g[c]] \in [C -> K]
      BY <1>1, Zenon
    <3>2. \A c, d \in C : [x \in C |-> g[x]][c] = [x \in C |-> g[x]][d] => c = d
      BY <1>1, Zenon DEF Covers
    <3> QED BY <3>1, <3>2, Zenon DEF Injection, IsInjective
  <2> QED BY <2>1, FS_Injection, Zenon
<1>9. B = C \cup D
  BY <1>1, <1>2, Zenon DEF Covers
<1>10. IsFiniteSet(C \cap D) /\ Cardinality(B) = Cardinality(C) + Cardinality(D) - Cardinality(C \cap D)
  BY <1>7, <1>8, <1>9, FS_Union, FS_Intersection, Zenon
<1>11. /\ Cardinality(C) \in Nat /\ Cardinality(D) \in Nat /\ Cardinality(C \cap D) \in Nat
       /\ Cardinality(P) \in Nat /\ Cardinality(K) \in Nat /\ Cardinality(Q) \in Nat
       /\ Cardinality(B) \in Nat
  BY <1>6, <1>7, <1>8, <1>10, FS_CardinalityType, Zenon
<1>12. Cardinality(D) <= Cardinality(P) - 1
  BY <1>3, <1>6, <1>7, <1>11
<1> QED BY <1>8, <1>10, <1>11, <1>12

===============================================================================
