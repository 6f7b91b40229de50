---------------------------- MODULE BbPoolProofs ----------------------------
(***************************************************************************)
(* What the operations of the code pool do, for a pool of any size: the    *)
(* list of holes stays in order, and the pages taken are those that were   *)
(* taken plus or minus exactly the range the operation is about.           *)
(***************************************************************************)
EXTENDS BbPool, InductionLemmas, SequenceTheorems

\* The list of holes in terms of its pages.
PagesIn(h) == UNION {PagesOf(h[i]) : i \in DOMAIN h}

LEMMA PagesInIsHolePages ==
    ASSUME NEW p PROVE HolePages(p) = PagesIn(p.holes)
BY DEF HolePages, PagesIn

LEMMA RangesFacts ==
    ASSUME NEW r \in Ranges
    PROVE  r.lo \in 0..Limit /\ r.hi \in 0..Limit /\ r.lo \in Int /\ r.hi \in Int
BY PoolAssumption DEF Ranges

LEMMA HolesTyped ==
    ASSUME NEW h \in Seq(Ranges)
    PROVE  /\ Len(h) \in Nat
           /\ DOMAIN h = 1..Len(h)
           /\ \A j \in 1..Len(h) : h[j] \in Ranges /\ h[j].lo \in Int /\ h[j].hi \in Int
<1>1. Len(h) \in Nat /\ DOMAIN h = 1..Len(h)
  OBVIOUS
<1>2. \A j \in 1..Len(h) : h[j] \in Ranges
  BY <1>1, ElementOfSeq
<1> QED BY <1>1, <1>2, RangesFacts
-----------------------------------------------------------------------------
(* The binary search. *)

IsHalving(f, m, h, lo) ==
    f = [n \in 0..m |-> IF n = 0 THEN [a |-> 1, b |-> Len(h) + 1]
                        ELSE Halve(h, lo, f[n - 1])]

LEMMA HalvingExists ==
    ASSUME NEW h, NEW lo
    PROVE  \A m \in Nat : \E f : IsHalving(f, m, h, lo)
<1> DEFINE T == {m \in Nat : \E f : IsHalving(f, m, h, lo)}
           Step(f, n) == IF n = 0 THEN [a |-> 1, b |-> Len(h) + 1]
                         ELSE Halve(h, lo, f[n - 1])
<1>1. 0 \in T
  <2> DEFINE f == [n \in 0..0 |-> [a |-> 1, b |-> Len(h) + 1]]
  <2>1. IsHalving(f, 0, h, lo)
    BY DEF IsHalving
  <2> QED BY <2>1
<1>2. ASSUME NEW m \in Nat, m \in T PROVE m + 1 \in T
  <2>1. PICK f : IsHalving(f, m, h, lo)
    BY <1>2
  <2> DEFINE g == [n \in 0..(m + 1) |-> IF n <= m THEN f[n] ELSE Step(f, n)]
  <2>2. \A n \in 0..(m + 1) : g[n] = Step(g, n)
    <3> SUFFICES ASSUME NEW n \in 0..(m + 1) PROVE g[n] = Step(g, n)
      OBVIOUS
    <3>1. n # 0 => g[n - 1] = f[n - 1]
      OBVIOUS
    <3>2. Step(g, n) = Step(f, n)
      BY <3>1
    <3>3. n <= m => f[n] = Step(f, n)
      BY <2>1 DEF IsHalving
    <3> QED BY <3>2, <3>3
  <2>3. IsHalving(g, m + 1, h, lo)
    BY <2>2 DEF IsHalving
  <2> HIDE DEF g
  <2> QED BY <2>3
<1>3. Nat \subseteq T
  <2> HIDE DEF T
  <2> QED BY <1>1, <1>2, SetInduction
<1> QED BY <1>3

(* hole_find returns the index of the first hole at or above an address,   *)
(* one past the end if there is none: the holes before it start below.     *)
LEMMA HoleFindFacts ==
    ASSUME NEW h \in Seq(Ranges), NEW top \in Int, InOrder(h, top), NEW lo \in Int
    PROVE  /\ HoleFind(h, lo) \in 1..(Len(h) + 1)
           /\ \A j \in DOMAIN h : j < HoleFind(h, lo) <=> h[j].lo < lo
<1> DEFINE N == Len(h)
           w == CHOOSE f : IsHalving(f, N, h, lo)
           Narrow(ab, n) ==
             /\ ab.a \in 1..(N + 1) /\ ab.b \in 1..(N + 1) /\ ab.a <= ab.b
             /\ \A j \in 1..N : j < ab.a => h[j].lo < lo
             /\ \A j \in 1..N : ab.b <= j => lo <= h[j].lo
             /\ ab.b - ab.a <= N - n
           T == {n \in Nat : n <= N =>
                   w[n] \in [a : Nat, b : Nat] /\ Narrow(w[n], n)}
<1>0. N \in Nat /\ DOMAIN h = 1..N /\ \A j \in 1..N : h[j].lo \in Int /\ h[j].hi \in Int
  BY HolesTyped
<1>1. HoleFind(h, lo) = w[N].a
  BY DEF HoleFind, IsHalving
<1>2. w = [n \in 0..N |-> IF n = 0 THEN [a |-> 1, b |-> N + 1]
                          ELSE Halve(h, lo, w[n - 1])]
  <2>1. \E f : IsHalving(f, N, h, lo)
    BY <1>0, HalvingExists
  <2> QED BY <2>1 DEF IsHalving
<1> HIDE DEF w
<1>3. 0 \in T
  <2>1. w[0] = [a |-> 1, b |-> N + 1]
    BY <1>0, <1>2
  <2> QED BY <1>0, <2>1
<1>4. ASSUME NEW n \in Nat, n \in T, n + 1 <= N
      PROVE  w[n + 1] \in [a : Nat, b : Nat] /\ Narrow(w[n + 1], n + 1)
  <2> DEFINE ab == w[n]
             m == (ab.a + ab.b) \div 2
  <2>1. ab \in [a : Nat, b : Nat] /\ Narrow(ab, n)
    BY <1>0, <1>4
  <2>2. w[n + 1] = Halve(h, lo, ab)
    BY <1>0, <1>2, <1>4
  <2> HIDE DEF ab
  <2>3. CASE ab.a >= ab.b
    BY <1>0, <1>4, <2>1, <2>2, <2>3 DEF Halve
  <2>4. CASE ab.a < ab.b
    <3>1. m \in Nat /\ ab.a <= m /\ m < ab.b /\ m \in 1..N
      BY <1>0, <2>1, <2>4
    <3>2. \A i, j \in 1..N : i < j => h[i].lo < h[j].lo
      BY <1>0 DEF InOrder
    <3>3. CASE h[m].lo < lo
      <4>1. w[n + 1] = [a |-> m + 1, b |-> ab.b]
        BY <1>0, <2>1, <2>2, <2>4, <3>3 DEF Halve
      <4>2. \A j \in 1..N : j < m + 1 => h[j].lo < lo
        BY <1>0, <3>1, <3>2, <3>3
      <4>3. w[n + 1].a = m + 1 /\ w[n + 1].b = ab.b
        BY <4>1
      <4>4. ab.b - (m + 1) <= N - (n + 1) /\ m + 1 <= ab.b /\ ab.a \in Nat /\ ab.b \in Nat
        BY <1>0, <2>1, <3>1
      <4> HIDE DEF m
      <4> QED BY <1>0, <2>1, <3>1, <4>1, <4>2, <4>3, <4>4
    <3>4. CASE ~(h[m].lo < lo)
      <4>1. w[n + 1] = [a |-> ab.a, b |-> m]
        BY <1>0, <2>1, <2>2, <2>4, <3>4 DEF Halve
      <4>2. \A j \in 1..N : m <= j => lo <= h[j].lo
        BY <1>0, <3>1, <3>2, <3>4
      <4>3. w[n + 1].a = ab.a /\ w[n + 1].b = m
        BY <4>1
      <4>4. m - ab.a <= N - (n + 1) /\ ab.a \in Nat /\ ab.b \in Nat
        BY <1>0, <2>1, <3>1
      <4> HIDE DEF m
      <4> QED BY <1>0, <2>1, <3>1, <4>1, <4>2, <4>3, <4>4
    <3> QED BY <3>3, <3>4
  <2> QED BY <1>0, <2>1, <2>3, <2>4
<1>5. Nat \subseteq T
  <2>1. ASSUME NEW n \in Nat, n \in T PROVE n + 1 \in T
    <3>1. CASE n + 1 <= N
      <4>1. w[n + 1] \in [a : Nat, b : Nat] /\ Narrow(w[n + 1], n + 1)
        BY <1>4, <2>1, <3>1
      <4> HIDE DEF Narrow
      <4> QED BY <4>1
    <3>2. CASE ~(n + 1 <= N)
      BY <3>2
    <3> QED BY <3>1, <3>2
  <2> HIDE DEF T
  <2> QED BY <1>3, <2>1, SetInduction
<1>6. w[N] \in [a : Nat, b : Nat] /\ Narrow(w[N], N)
  BY <1>0, <1>5
<1> QED BY <1>0, <1>1, <1>6
-----------------------------------------------------------------------------
(* The list operations. *)

LEMMA RangeIsOne ==
    ASSUME NEW lo \in 0..Limit, NEW hi \in 0..Limit
    PROVE  [lo |-> lo, hi |-> hi] \in Ranges
BY DEF Ranges

LEMMA SubSeqFacts ==
    ASSUME NEW h \in Seq(Ranges), NEW m \in 1..(Len(h) + 1), NEW n \in 0..Len(h),
           m <= n + 1
    PROVE  /\ SubSeq(h, m, n) \in Seq(Ranges)
           /\ Len(SubSeq(h, m, n)) = n - m + 1
           /\ \A j \in 1..(n - m + 1) : SubSeq(h, m, n)[j] = h[m + j - 1]
<1>1. Len(h) \in Nat /\ \A j \in 1..Len(h) : h[j] \in Ranges
  BY HolesTyped
<1>2. m \in Int /\ n \in Int /\ \A j \in m..n : j \in 1..Len(h)
  BY <1>1
<1>3. \A j \in m..n : h[j] \in Ranges
  BY <1>1, <1>2
<1>4. /\ SubSeq(h, m, n) \in Seq(Ranges)
      /\ Len(SubSeq(h, m, n)) = IF m <= n THEN n - m + 1 ELSE 0
      /\ \A j \in 1..(n - m + 1) : SubSeq(h, m, n)[j] = h[m + j - 1]
  BY <1>2, <1>3, SubSeqProperties
<1>5. ~(m <= n) => n - m + 1 = 0
  BY <1>2
<1> QED BY <1>4, <1>5

LEMMA EraseFacts ==
    ASSUME NEW h \in Seq(Ranges), NEW i \in 1..Len(h)
    PROVE  /\ HoleErase(h, i, 1) \in Seq(Ranges)
           /\ Len(HoleErase(h, i, 1)) = Len(h) - 1
           /\ \A j \in 1..(Len(h) - 1) :
                HoleErase(h, i, 1)[j] = IF j < i THEN h[j] ELSE h[j + 1]
<1> DEFINE N == Len(h)
           s == SubSeq(h, 1, i - 1)
           t == SubSeq(h, i + 1, N)
<1>0. N \in Nat /\ i \in 1..N
  BY HolesTyped
<1>1. s \in Seq(Ranges) /\ Len(s) = i - 1 /\ \A j \in 1..(i - 1) : s[j] = h[j]
  <2>1. 1 \in 1..(N + 1) /\ i - 1 \in 0..N /\ 1 <= (i - 1) + 1
    BY <1>0
  <2>2. /\ s \in Seq(Ranges) /\ Len(s) = (i - 1) - 1 + 1
        /\ \A j \in 1..((i - 1) - 1 + 1) : s[j] = h[1 + j - 1]
    BY <2>1, SubSeqFacts
  <2> HIDE DEF s
  <2> QED BY <1>0, <2>2
<1>2. t \in Seq(Ranges) /\ Len(t) = N - i /\ \A j \in 1..(N - i) : t[j] = h[i + j]
  <2>1. i + 1 \in 1..(N + 1) /\ N \in 0..N /\ i + 1 <= N + 1
    BY <1>0
  <2>2. /\ t \in Seq(Ranges) /\ Len(t) = N - (i + 1) + 1
        /\ \A j \in 1..(N - (i + 1) + 1) : t[j] = h[(i + 1) + j - 1]
    BY <2>1, SubSeqFacts
  <2> HIDE DEF t, N
  <2> QED BY <1>0, <2>2
<1>3. HoleErase(h, i, 1) = s \o t
  BY DEF HoleErase
<1> HIDE DEF s, t, N
<1>4. /\ s \o t \in Seq(Ranges)
      /\ Len(s \o t) = Len(s) + Len(t)
      /\ \A j \in 1..(Len(s) + Len(t)) :
           (s \o t)[j] = IF j <= Len(s) THEN s[j] ELSE t[j - Len(s)]
  BY <1>1, <1>2, ConcatProperties
<1>5. Len(s \o t) = N - 1
  BY <1>0, <1>1, <1>2, <1>4
<1>6. \A j \in 1..(N - 1) : (s \o t)[j] = IF j < i THEN h[j] ELSE h[j + 1]
  <2> SUFFICES ASSUME NEW j \in 1..(N - 1)
               PROVE  (s \o t)[j] = IF j < i THEN h[j] ELSE h[j + 1]
    OBVIOUS
  <2>1. j \in 1..(Len(s) + Len(t))
    BY <1>0, <1>1, <1>2
  <2>2. CASE j < i
    BY <1>0, <1>1, <1>4, <2>1, <2>2
  <2>3. CASE j >= i
    <3>1. ~(j <= i - 1) /\ j - (i - 1) \in 1..(N - i) /\ i + (j - (i - 1)) = j + 1
      BY <1>0, <2>3
    <3>2. (s \o t)[j] = t[j - (i - 1)]
      BY <1>1, <1>4, <2>1, <3>1
    <3> QED BY <1>0, <1>2, <2>3, <3>1, <3>2
  <2>4. j < i \/ j >= i
    BY <1>0
  <2> QED BY <2>2, <2>3, <2>4, Zenon
<1> QED BY <1>3, <1>4, <1>5, <1>6 DEF N

LEMMA InsertFacts ==
    ASSUME NEW h \in Seq(Ranges), NEW i \in 1..(Len(h) + 1),
           NEW lo \in 0..Limit, NEW hi \in 0..Limit
    PROVE  /\ HoleInsert(h, i, lo, hi) \in Seq(Ranges)
           /\ Len(HoleInsert(h, i, lo, hi)) = Len(h) + 1
           /\ \A j \in 1..(Len(h) + 1) :
                HoleInsert(h, i, lo, hi)[j] =
                  IF j < i THEN h[j]
                  ELSE IF j = i THEN [lo |-> lo, hi |-> hi] ELSE h[j - 1]
<1> DEFINE N == Len(h)
           s == SubSeq(h, 1, i - 1)
           t == SubSeq(h, i, N)
           r == [lo |-> lo, hi |-> hi]
           m == <<r>>
           st == s \o m
<1>0. N \in Nat /\ i \in 1..(N + 1)
  BY HolesTyped
<1>1. s \in Seq(Ranges) /\ Len(s) = i - 1 /\ \A j \in 1..(i - 1) : s[j] = h[j]
  <2>1. 1 \in 1..(N + 1) /\ i - 1 \in 0..N /\ 1 <= (i - 1) + 1
    BY <1>0
  <2>2. /\ s \in Seq(Ranges) /\ Len(s) = (i - 1) - 1 + 1
        /\ \A j \in 1..((i - 1) - 1 + 1) : s[j] = h[1 + j - 1]
    BY <2>1, SubSeqFacts
  <2> HIDE DEF s
  <2> QED BY <1>0, <2>2
<1>2. t \in Seq(Ranges) /\ Len(t) = N - i + 1
      /\ \A j \in 1..(N - i + 1) : t[j] = h[i + j - 1]
  <2>1. N \in 0..N /\ i <= N + 1
    BY <1>0
  <2> QED BY <2>1, SubSeqFacts
<1>3. m \in Seq(Ranges) /\ Len(m) = 1 /\ m[1] = r
  BY RangeIsOne
<1>4. HoleInsert(h, i, lo, hi) = st \o t
  BY DEF HoleInsert
<1> HIDE DEF s, t, m, N, r
<1>5. /\ st \in Seq(Ranges)
      /\ Len(st) = i
      /\ \A j \in 1..i : st[j] = IF j < i THEN h[j] ELSE r
  <2>1. /\ st \in Seq(Ranges)
        /\ Len(st) = Len(s) + Len(m)
        /\ \A j \in 1..(Len(s) + Len(m)) :
             st[j] = IF j <= Len(s) THEN s[j] ELSE m[j - Len(s)]
    BY <1>1, <1>3, ConcatProperties
  <2> HIDE DEF st
  <2>2. Len(s) + Len(m) = i
    BY <1>0, <1>1, <1>3
  <2>3. \A j \in 1..i : j < i => j <= i - 1 /\ j \in 1..(i - 1)
    BY <1>0
  <2>4. \A j \in 1..i : ~(j < i) => ~(j <= i - 1) /\ j - (i - 1) = 1
    BY <1>0
  <2> QED BY <1>1, <1>3, <2>1, <2>2, <2>3, <2>4
<1> HIDE DEF st
<1>6. /\ st \o t \in Seq(Ranges)
      /\ Len(st \o t) = Len(st) + Len(t)
      /\ \A j \in 1..(Len(st) + Len(t)) :
           (st \o t)[j] = IF j <= Len(st) THEN st[j] ELSE t[j - Len(st)]
  BY <1>2, <1>5, ConcatProperties
<1>7. Len(st) + Len(t) = N + 1
  BY <1>0, <1>2, <1>5
<1>8. \A j \in 1..(N + 1) :
        (st \o t)[j] = IF j < i THEN h[j] ELSE IF j = i THEN r ELSE h[j - 1]
  <2> SUFFICES ASSUME NEW j \in 1..(N + 1)
               PROVE  (st \o t)[j] = IF j < i THEN h[j]
                                     ELSE IF j = i THEN r ELSE h[j - 1]
    OBVIOUS
  <2>1. CASE j <= i
    <3>1. j \in 1..i /\ (j < i \/ j = i)
      BY <1>0, <2>1
    <3>2. (st \o t)[j] = st[j]
      BY <1>5, <1>6, <1>7, <2>1
    <3> QED BY <1>0, <1>5, <3>1, <3>2
  <2>2. CASE j > i
    <3>1. j - i \in 1..(N - i + 1) /\ i + (j - i) - 1 = j - 1 /\ ~(j <= i)
          /\ ~(j < i) /\ j # i
      BY <1>0, <2>2
    <3>2. (st \o t)[j] = t[j - i]
      BY <1>5, <1>6, <1>7, <3>1
    <3> QED BY <1>2, <3>1, <3>2
  <2>3. j <= i \/ j > i
    BY <1>0
  <2> QED BY <2>1, <2>2, <2>3, Zenon
<1> QED BY <1>4, <1>6, <1>7, <1>8 DEF N, r

(* Erasing a hole leaves the others, in order. *)
LEMMA EraseInOrder ==
    ASSUME NEW h \in Seq(Ranges), NEW top \in Int, InOrder(h, top),
           NEW i \in 1..Len(h)
    PROVE  /\ InOrder(HoleErase(h, i, 1), top)
           /\ PagesIn(HoleErase(h, i, 1)) = PagesIn(h) \ PagesOf(h[i])
<1> DEFINE e == HoleErase(h, i, 1)
           N == Len(h)
<1>1. N \in Nat /\ DOMAIN h = 1..N
      /\ \A j \in 1..N : h[j] \in Ranges /\ h[j].lo \in Int /\ h[j].hi \in Int
  BY HolesTyped
<1>2. DOMAIN e = 1..(N - 1)
      /\ \A j \in 1..(N - 1) : e[j] = IF j < i THEN h[j] ELSE h[j + 1]
  BY EraseFacts, HolesTyped
<1> HIDE DEF e, N
<1>3. i \in 1..N
  BY DEF N
<1>4. InOrder(e, top)
  <2>0. /\ \A x \in 1..N : h[x].lo < h[x].hi /\ h[x].hi <= top
        /\ \A x, y \in 1..N : x < y => h[x].hi < h[y].lo
    BY <1>1 DEF InOrder
  <2> DEFINE at(j) == IF j < i THEN j ELSE j + 1
  <2>1. \A j \in 1..(N - 1) : at(j) \in 1..N /\ e[j] = h[at(j)]
    BY <1>1, <1>2, <1>3
  <2>2. \A j, k \in 1..(N - 1) : j < k => at(j) < at(k)
    BY <1>1, <1>3
  <2> HIDE DEF at
  <2> QED BY <1>2, <2>0, <2>1, <2>2 DEF InOrder
<1>5. \A j \in 1..N : j # i => \E k \in 1..(N - 1) : e[k] = h[j]
  <2> SUFFICES ASSUME NEW j \in 1..N, j # i PROVE \E k \in 1..(N - 1) : e[k] = h[j]
    OBVIOUS
  <2>1. CASE j < i
    BY <1>1, <1>2, <1>3, <2>1
  <2>2. CASE j > i
    <3>1. j - 1 \in 1..(N - 1) /\ ~(j - 1 < i) /\ (j - 1) + 1 = j
      BY <1>1, <1>3, <2>2
    <3> QED BY <1>2, <3>1
  <2> QED BY <1>3, <2>1, <2>2
<1>6. \A k \in 1..(N - 1) : \E j \in 1..N : j # i /\ e[k] = h[j]
  <2> SUFFICES ASSUME NEW k \in 1..(N - 1) PROVE \E j \in 1..N : j # i /\ e[k] = h[j]
    OBVIOUS
  <2>1. CASE k < i
    BY <1>1, <1>2, <1>3, <2>1
  <2>2. CASE k >= i
    <3>1. k + 1 \in 1..N /\ k + 1 # i
      BY <1>1, <1>3, <2>2
    <3> QED BY <1>2, <1>3, <2>2, <3>1
  <2> QED BY <1>3, <2>1, <2>2
<1>7. \A j \in 1..N : j # i => PagesOf(h[j]) \cap PagesOf(h[i]) = {}
  <2>0. \A x, y \in 1..N : x < y => h[x].hi < h[y].lo
    BY <1>1 DEF InOrder
  <2>1. \A x, y \in 1..N : x < y => PagesOf(h[x]) \cap PagesOf(h[y]) = {}
    BY <1>1, <2>0, PoolAssumption DEF PagesOf, Pages
  <2> QED BY <1>1, <1>3, <2>1
<1>8. PagesIn(e) \subseteq PagesIn(h) \ PagesOf(h[i])
  BY <1>1, <1>2, <1>6, <1>7 DEF PagesIn
<1>9. PagesIn(h) \ PagesOf(h[i]) \subseteq PagesIn(e)
  BY <1>1, <1>2, <1>5 DEF PagesIn
<1> QED BY <1>4, <1>8, <1>9 DEF e

(* A hole that touches no other is inserted in its place. *)
LEMMA InsertInOrder ==
    ASSUME NEW h \in Seq(Ranges), NEW top \in Int, InOrder(h, top),
           NEW i \in 1..(Len(h) + 1),
           NEW lo \in 0..Limit, NEW hi \in 0..Limit, lo < hi, hi <= top,
           \A j \in 1..Len(h) : j < i => h[j].hi < lo,
           \A j \in 1..Len(h) : i <= j => hi < h[j].lo
    PROVE  /\ InOrder(HoleInsert(h, i, lo, hi), top)
           /\ PagesIn(HoleInsert(h, i, lo, hi)) =
                PagesIn(h) \cup PagesOf([lo |-> lo, hi |-> hi])
<1> DEFINE e == HoleInsert(h, i, lo, hi)
           r == [lo |-> lo, hi |-> hi]
           N == Len(h)
<1>1. N \in Nat /\ DOMAIN h = 1..N
      /\ \A j \in 1..N : h[j] \in Ranges /\ h[j].lo \in Int /\ h[j].hi \in Int
  BY HolesTyped
<1>2. DOMAIN e = 1..(N + 1)
      /\ \A j \in 1..(N + 1) :
           e[j] = IF j < i THEN h[j] ELSE IF j = i THEN r ELSE h[j - 1]
  BY InsertFacts, HolesTyped
<1>3. i \in 1..(N + 1) /\ lo \in Int /\ hi \in Int /\ r.lo = lo /\ r.hi = hi
  BY PoolAssumption
<1>3a. \A j \in 1..N : (j < i => h[j].hi < lo) /\ (i <= j => hi < h[j].lo)
  OBVIOUS
<1> HIDE DEF e, N, r
<1>4. \A j \in 1..(N + 1) : e[j].lo < e[j].hi /\ e[j].hi <= top
  <2> SUFFICES ASSUME NEW j \in 1..(N + 1) PROVE e[j].lo < e[j].hi /\ e[j].hi <= top
    OBVIOUS
  <2>1. \A k \in 1..N : h[k].lo < h[k].hi /\ h[k].hi <= top
    BY <1>1 DEF InOrder
  <2>2. j < i => j \in 1..N
    BY <1>1, <1>3
  <2>3. j > i => j - 1 \in 1..N
    BY <1>1, <1>3
  <2> QED BY <1>2, <1>3, <2>1, <2>2, <2>3
<1>5. \A j, k \in 1..(N + 1) : j < k => e[j].hi < e[k].lo
  <2> SUFFICES ASSUME NEW j \in 1..(N + 1), NEW k \in 1..(N + 1), j < k
               PROVE  e[j].hi < e[k].lo
    OBVIOUS
  <2>0. \A x, y \in 1..N : x < y => h[x].hi < h[y].lo
    BY <1>1 DEF InOrder
  <2>1. CASE k < i
    <3>1. j \in 1..N /\ k \in 1..N /\ j < i
      BY <1>1, <1>3, <2>1
    <3> QED BY <1>2, <2>0, <2>1, <3>1
  <2>2. CASE k = i
    <3>1. j \in 1..N /\ j < i
      BY <1>1, <1>3, <2>2
    <3> QED BY <1>2, <1>3, <1>3a, <2>2, <3>1
  <2>3. CASE k > i
    <3>1. k - 1 \in 1..N /\ i <= k - 1 /\ e[k] = h[k - 1]
      BY <1>1, <1>2, <1>3, <2>3
    <3>2. CASE j < i
      <4>1. j \in 1..N /\ j < k - 1 /\ e[j] = h[j]
        BY <1>1, <1>2, <1>3, <2>3, <3>2
      <4> QED BY <2>0, <3>1, <4>1
    <3>3. CASE j = i
      <4>1. e[j] = r
        BY <1>2, <3>3
      <4> QED BY <1>3, <1>3a, <3>1, <4>1
    <3>4. CASE j > i
      <4>1. j - 1 \in 1..N /\ j - 1 < k - 1 /\ e[j] = h[j - 1]
        BY <1>1, <1>2, <1>3, <3>4
      <4> QED BY <2>0, <3>1, <4>1
    <3> QED BY <1>3, <3>2, <3>3, <3>4
  <2> QED BY <1>3, <2>1, <2>2, <2>3
<1>6. InOrder(e, top)
  BY <1>2, <1>4, <1>5 DEF InOrder
<1>7. \A j \in 1..N : \E k \in 1..(N + 1) : e[k] = h[j]
  <2> SUFFICES ASSUME NEW j \in 1..N PROVE \E k \in 1..(N + 1) : e[k] = h[j]
    OBVIOUS
  <2>1. CASE j < i
    <3>1. j \in 1..(N + 1)
      BY <1>1
    <3> QED BY <1>2, <2>1, <3>1
  <2>2. CASE j >= i
    <3>1. j + 1 \in 1..(N + 1) /\ ~(j + 1 < i) /\ j + 1 # i /\ (j + 1) - 1 = j
      BY <1>1, <1>3, <2>2
    <3> QED BY <1>2, <3>1
  <2> QED BY <1>3, <2>1, <2>2
<1>8. e[i] = r
  BY <1>2, <1>3
<1>9. \A k \in 1..(N + 1) : e[k] = r \/ \E j \in 1..N : e[k] = h[j]
  <2> SUFFICES ASSUME NEW k \in 1..(N + 1), k # i PROVE \E j \in 1..N : e[k] = h[j]
    BY <1>8
  <2>1. (k < i => k \in 1..N) /\ (k > i => k - 1 \in 1..N)
    BY <1>1, <1>3
  <2> QED BY <1>2, <1>3, <2>1
<1>10. PagesIn(e) = PagesIn(h) \cup PagesOf(r)
  <2>1. PagesIn(e) \subseteq PagesIn(h) \cup PagesOf(r)
    BY <1>1, <1>2, <1>9 DEF PagesIn
  <2>2. PagesIn(h) \cup PagesOf(r) \subseteq PagesIn(e)
    BY <1>1, <1>2, <1>3, <1>7, <1>8 DEF PagesIn
  <2> QED BY <2>1, <2>2
<1> QED BY <1>6, <1>10 DEF e, r
-----------------------------------------------------------------------------
(* Pools. *)

LEMMA PoolTyped ==
    ASSUME NEW p, PoolOk(p)
    PROVE  /\ p.top \in 0..Limit /\ p.top \in Int
           /\ p.holes \in Seq(Ranges)
           /\ InOrder(p.holes, p.top)
           /\ Limit \in Int /\ Limit > 0
BY PoolAssumption DEF PoolOk, Pools

LEMMA FirstPage ==
    ASSUME NEW r \in Ranges, r.lo < r.hi
    PROVE  r.lo \in PagesOf(r) /\ r.hi - 1 \in PagesOf(r)
BY RangesFacts, PoolAssumption DEF PagesOf, Pages

\* Changing the protection of pages changes nothing else.
LEMMA ProtectFacts ==
    ASSUME NEW p \in Pools, NEW lo, NEW hi, NEW m \in Protections
    PROVE  /\ Protect(p, lo, hi, m) \in Pools
           /\ Protect(p, lo, hi, m).top = p.top
           /\ Protect(p, lo, hi, m).holes = p.holes
           /\ Protect(p, lo, hi, m).bombed = p.bombed
           /\ Taken(Protect(p, lo, hi, m)) = Taken(p)
<1> DEFINE q == Protect(p, lo, hi, m)
<1>1. q.top = p.top /\ q.holes = p.holes /\ q.bombed = p.bombed
  BY DEF Protect, Pools
<1>2. q \in Pools
  BY DEF Protect, Pools
<1>3. Taken(q) = Taken(p)
  BY <1>1 DEF Taken, HolePages
<1> QED BY <1>1, <1>2, <1>3

(* What hole_truncate leaves is the part of the list below the mark. *)
LEMMA TruncateFacts ==
    ASSUME NEW h \in Seq(Ranges), NEW top \in 0..Limit, InOrder(h, top),
           NEW mark \in 0..top
    PROVE  /\ HoleTruncate(h, mark) \in Seq(Ranges)
           /\ InOrder(HoleTruncate(h, mark), mark)
           /\ PagesIn(HoleTruncate(h, mark)) = {x \in PagesIn(h) : x < mark}
<1> DEFINE N == Len(h)
           i == HoleFind(h, mark)
           below == SubSeq(h, 1, i - 1)
           t == HoleTruncate(h, mark)
<1>1. /\ N \in Nat /\ DOMAIN h = 1..N
      /\ \A j \in 1..N : h[j] \in Ranges /\ h[j].lo \in Int /\ h[j].hi \in Int
      /\ top \in Int /\ mark \in Int /\ Limit \in Int
  BY HolesTyped, PoolAssumption
<1>2. i \in 1..(N + 1) /\ \A j \in 1..N : j < i <=> h[j].lo < mark
  BY <1>1, HoleFindFacts
<1> HIDE DEF i
<1>3. below \in Seq(Ranges) /\ Len(below) = i - 1 /\ \A j \in 1..(i - 1) : below[j] = h[j]
  <2>1. 1 \in 1..(N + 1) /\ i - 1 \in 0..N /\ 1 <= (i - 1) + 1
    BY <1>1, <1>2
  <2>2. /\ below \in Seq(Ranges) /\ Len(below) = (i - 1) - 1 + 1
        /\ \A j \in 1..((i - 1) - 1 + 1) : below[j] = h[1 + j - 1]
    BY <2>1, SubSeqFacts
  <2> HIDE DEF below
  <2> QED BY <1>1, <1>2, <2>2
<1>4. t = IF i > 1 /\ below[i - 1].hi > mark
          THEN [below EXCEPT ![i - 1].hi = mark] ELSE below
  <2>1. t = CutLast(below, mark)
    BY DEF HoleTruncate, i
  <2>2. below # << >> <=> i > 1
    <3> HIDE DEF below
    <3> QED BY <1>1, <1>2, <1>3
  <2> HIDE DEF below, t
  <2> QED BY <1>3, <2>1, <2>2 DEF CutLast
<1> HIDE DEF below, t, N
<1>5. DOMAIN below = 1..(i - 1)
  BY <1>3
<1>6. /\ \A x \in 1..N : h[x].lo < h[x].hi /\ h[x].hi <= top
      /\ \A x, y \in 1..N : x < y => h[x].hi < h[y].lo
  BY <1>1 DEF InOrder
<1>7. /\ t \in Seq(Ranges) /\ DOMAIN t = 1..(i - 1)
      /\ \A j \in 1..(i - 1) :
           /\ t[j].lo = h[j].lo
           /\ t[j].hi = IF j = i - 1 /\ h[j].hi > mark THEN mark ELSE h[j].hi
  <2>1. CASE i > 1 /\ below[i - 1].hi > mark
    <3> DEFINE last == [below[i - 1] EXCEPT !.hi = mark]
    <3>1. i - 1 \in 1..(i - 1) /\ below[i - 1] \in Ranges
      BY <1>1, <1>2, <1>3, <2>1, ElementOfSeq
    <3>2. last \in Ranges /\ last.lo = below[i - 1].lo /\ last.hi = mark
      BY <1>1, <3>1 DEF Ranges
    <3>3. t = [below EXCEPT ![i - 1] = last]
      BY <1>4, <2>1
    <3> HIDE DEF last
    <3>4. t \in Seq(Ranges) /\ DOMAIN t = 1..(i - 1)
      BY <1>3, <1>5, <3>1, <3>2, <3>3, ExceptSeq
    <3>5. \A j \in 1..(i - 1) : t[j] = IF j = i - 1 THEN last ELSE below[j]
      BY <1>5, <3>3
    <3> QED BY <1>1, <1>2, <1>3, <2>1, <3>1, <3>2, <3>4, <3>5
  <2>2. CASE ~(i > 1 /\ below[i - 1].hi > mark)
    BY <1>1, <1>2, <1>3, <1>4, <1>5, <2>2
  <2> QED BY <2>1, <2>2
<1>8. \A j \in 1..(i - 1) : j \in 1..N /\ h[j].lo < mark
  BY <1>1, <1>2
<1>9. \A j \in 1..(i - 1) : j # i - 1 => h[j].hi < mark
  <2>1. \A j \in 1..(i - 1) : j # i - 1 => j + 1 \in 1..(i - 1) /\ j < j + 1
    BY <1>1, <1>2
  <2> QED BY <1>1, <1>6, <1>8, <2>1
<1>10. \A j \in 1..(i - 1) :
         t[j].hi \in Int /\ t[j].hi <= mark /\ t[j].hi <= h[j].hi /\ t[j].lo < t[j].hi
         /\ (t[j].hi # h[j].hi => t[j].hi = mark)
  BY <1>1, <1>6, <1>7, <1>8, <1>9
<1>11. InOrder(t, mark)
  <2>1. \A x, y \in 1..(i - 1) : x < y => t[x].hi < t[y].lo
    BY <1>1, <1>6, <1>7, <1>8, <1>10
  <2> QED BY <1>7, <1>10, <2>1 DEF InOrder
<1>12. PagesIn(t) = {x \in PagesIn(h) : x < mark}
  <2>1. ASSUME NEW x \in PagesIn(t) PROVE x \in PagesIn(h) /\ x < mark
    <3>1. PICK j \in 1..(i - 1) : x \in PagesOf(t[j])
      BY <1>7 DEF PagesIn
    <3>2. x \in Pages /\ x \in Int /\ t[j].lo <= x /\ x < t[j].hi
      BY <1>1, <3>1 DEF PagesOf, Pages
    <3>3. j \in 1..N /\ x \in PagesOf(h[j]) /\ x < mark
      BY <1>1, <1>7, <1>8, <1>10, <3>2 DEF PagesOf
    <3> QED BY <1>1, <3>3 DEF PagesIn
  <2>2. ASSUME NEW x \in PagesIn(h), x < mark PROVE x \in PagesIn(t)
    <3>1. PICK j \in 1..N : x \in PagesOf(h[j])
      BY <1>1 DEF PagesIn
    <3>2. x \in Pages /\ x \in Int /\ h[j].lo <= x /\ x < h[j].hi
      BY <1>1, <3>1 DEF PagesOf, Pages
    <3>3. j \in 1..(i - 1)
      BY <1>1, <1>2, <2>2, <3>2
    <3>4. x \in PagesOf(t[j])
      BY <1>1, <1>7, <1>10, <2>2, <3>2, <3>3 DEF PagesOf
    <3> QED BY <1>7, <3>3, <3>4 DEF PagesIn
  <2> QED BY <2>1, <2>2
<1> QED BY <1>7, <1>11, <1>12 DEF t

(* Releasing to a mark keeps what was taken below it (bb_pool_release).    *)
THEOREM ReleaseKeepsBelow ==
    ASSUME NEW p, PoolOk(p), NEW mark \in 0..Limit
    PROVE  /\ PoolOk(Release(p, mark))
           /\ Taken(Release(p, mark)) = {x \in Taken(p) : x < mark}
           /\ Release(p, mark).top = IF mark > p.top THEN p.top ELSE mark
<1> DEFINE q == Protect(p, mark, p.top, "rw")
           r == [q EXCEPT !.holes = HoleTruncate(p.holes, mark), !.top = mark]
<1>0. p \in Pools /\ ~p.bombed /\ mark \in Int
  BY DEF PoolOk
<1>1. CASE mark > p.top
  <2>1. \A x \in Taken(p) : x < mark
    BY <1>0, <1>1, PoolTyped, PoolAssumption DEF Taken, Pages
  <2> QED BY <1>1, <2>1 DEF Release
<1>2. CASE ~(mark > p.top)
  <2>1. q \in Pools /\ q.bombed = p.bombed
    BY <1>0, ProtectFacts DEF Protections
  <2>2. mark \in 0..p.top
    BY <1>0, <1>2, PoolTyped
  <2>3. /\ HoleTruncate(p.holes, mark) \in Seq(Ranges)
        /\ InOrder(HoleTruncate(p.holes, mark), mark)
        /\ PagesIn(HoleTruncate(p.holes, mark)) = {x \in PagesIn(p.holes) : x < mark}
    BY <2>2, PoolTyped, TruncateFacts
  <2>4. Release(p, mark) = r
    BY <1>2 DEF Release
  <2> HIDE DEF q
  <2>5. /\ r \in Pools /\ r.top = mark /\ r.bombed = p.bombed
        /\ r.holes = HoleTruncate(p.holes, mark)
    BY <2>1, <2>3 DEF Pools
  <2> HIDE DEF r
  <2>6. PoolOk(r)
    BY <1>0, <2>3, <2>5 DEF PoolOk
  <2>7. Taken(r) = {x \in Taken(p) : x < mark}
    <3>1. HolePages(r) = {x \in HolePages(p) : x < mark}
      BY <2>3, <2>5, PagesInIsHolePages
    <3>2. \A x \in Pages : x < mark => x < p.top
      BY <1>0, <2>2, PoolTyped DEF Pages
    <3> QED BY <2>5, <3>1, <3>2 DEF Taken
  <2> QED BY <1>2, <2>4, <2>5, <2>6, <2>7
<1> QED BY <1>1, <1>2

\* The pages of a range at the watermark.
LEMMA AllocFacts ==
    ASSUME NEW p, PoolOk(p), NEW n \in Nat \ {0}, n <= Free(p)
    PROVE  LET r == [lo |-> p.top, hi |-> p.top + n]
           IN  /\ PoolOk(BbAlloc(p, n).pool)
               /\ r \in Ranges
               /\ BbAlloc(p, n).pool.top = p.top + n
               /\ Taken(BbAlloc(p, n).pool) = Taken(p) \cup PagesOf(r)
               /\ PagesOf(r) \cap Taken(p) = {}
<1> DEFINE q == [p EXCEPT !.top = @ + n]
           r == [lo |-> p.top, hi |-> p.top + n]
<1>1. BbAlloc(p, n).pool = q
  BY DEF BbAlloc
<1>2. p \in Pools /\ p.top + n \in 0..Limit /\ p.top \in 0..Limit /\ p.top \in Int
  BY PoolTyped DEF Free, PoolOk
<1>3. q \in Pools /\ q.top = p.top + n /\ q.holes = p.holes /\ q.bombed = p.bombed
  BY <1>2 DEF Pools
<1>4. r \in Ranges
  BY <1>2, RangeIsOne
<1>5. r.lo = p.top /\ r.hi = p.top + n
  OBVIOUS
<1> HIDE DEF q, r
<1>6. InOrder(q.holes, q.top)
  <2>1. DOMAIN p.holes = 1..Len(p.holes)
        /\ \A j \in 1..Len(p.holes) : p.holes[j].hi \in Int
    BY PoolTyped, HolesTyped
  <2> QED BY <1>2, <1>3, <2>1, PoolTyped DEF InOrder
<1>7. HolePages(q) = HolePages(p)
  BY <1>3 DEF HolePages
<1>8. \A x \in HolePages(p) : x < p.top
  <2>1. DOMAIN p.holes = 1..Len(p.holes)
        /\ \A j \in 1..Len(p.holes) : p.holes[j].hi \in Int
    BY PoolTyped, HolesTyped
  <2> QED BY <1>2, <2>1, PoolTyped DEF HolePages, PagesOf, InOrder, Pages
<1>9. Taken(q) = Taken(p) \cup PagesOf(r)
  BY <1>2, <1>3, <1>5, <1>7, <1>8 DEF Taken, PagesOf, Pages
<1>10. PagesOf(r) \cap Taken(p) = {}
  BY <1>2, <1>5 DEF Taken, PagesOf, Pages
<1> QED BY <1>1, <1>3, <1>4, <1>6, <1>9, <1>10 DEF PoolOk, r

\* The first hole that is big enough is one of the holes.
LEMMA FirstHoleFacts ==
    ASSUME NEW p, PoolOk(p), NEW min \in Nat, BigHoles(p, min) # {}
    PROVE  /\ FirstHole(p, min) \in 1..Len(p.holes)
           /\ Size(p.holes[FirstHole(p, min)]) >= min
<1>1. BigHoles(p, min) \subseteq 1..Len(p.holes) /\ Len(p.holes) \in Nat
  BY PoolTyped, HolesTyped DEF BigHoles
<1>2. \E i \in BigHoles(p, min) : \A j \in BigHoles(p, min) : i <= j
  <2> DEFINE B == BigHoles(p, min)
             T == {n \in Nat : \A i \in B : i <= n => \E k \in B : \A j \in B : k <= j}
  <2>0. B \subseteq Nat \ {0}
    BY <1>1
  <2> HIDE DEF B
  <2>1. 0 \in T
    BY <2>0
  <2>2. ASSUME NEW n \in Nat, n \in T PROVE n + 1 \in T
    <3> SUFFICES ASSUME NEW i \in B, i <= n + 1
                 PROVE  \E k \in B : \A j \in B : k <= j
      OBVIOUS
    <3>1. CASE \E j \in B : j <= n
      BY <2>2, <3>1
    <3>2. CASE \A j \in B : ~(j <= n)
      <4>1. \A j \in B : i <= j
        BY <2>0, <3>2
      <4> QED BY <4>1
    <3> QED BY <3>1, <3>2
  <2>3. Nat \subseteq T
    <3> HIDE DEF T
    <3> QED BY <2>1, <2>2, SetInduction
  <2>4. PICK i \in B : i \in Nat
    BY <2>0 DEF B
  <2>5. i \in T
    BY <2>3, <2>4
  <2>6. i <= i
    BY <2>4
  <2> QED BY <2>5, <2>6 DEF B
<1>3. FirstHole(p, min) \in BigHoles(p, min)
  BY <1>2 DEF FirstHole
<1> QED BY <1>1, <1>3 DEF BigHoles

LEMMA AllocHoleFacts ==
    ASSUME NEW p, PoolOk(p), NEW min \in Nat, BigHoles(p, min) # {}
    PROVE  LET b == BbAllocHole(p, min)
               r == [lo |-> b.buf.lo, hi |-> b.buf.lo + b.buf.cap]
           IN  /\ PoolOk(b.pool)
               /\ b.buf.hole /\ b.buf.lo \in Nat /\ b.buf.cap \in Nat \ {0}
               /\ b.buf.cap >= min
               /\ r \in Ranges
               /\ b.pool.top = p.top
               /\ Taken(b.pool) = Taken(p) \cup PagesOf(r)
               /\ PagesOf(r) \cap Taken(p) = {}
<1> DEFINE i == FirstHole(p, min)
           r == p.holes[i]
           h == HoleErase(p.holes, i, 1)
           q == Protect(p, r.lo, r.hi, "rw")
           b == BbAllocHole(p, min)
<1>1. i \in 1..Len(p.holes) /\ Size(r) >= min
  BY FirstHoleFacts
<1>2. /\ r \in Ranges /\ r.lo < r.hi /\ r.hi <= p.top
      /\ r.lo \in 0..Limit /\ r.hi \in 0..Limit
  <2>1. i \in DOMAIN p.holes /\ r \in Ranges
    BY <1>1, PoolTyped, HolesTyped
  <2> QED BY <2>1, RangesFacts, PoolTyped DEF InOrder
<1>3. /\ h \in Seq(Ranges) /\ InOrder(h, p.top)
      /\ PagesIn(h) = PagesIn(p.holes) \ PagesOf(r)
  BY <1>1, PoolTyped, EraseFacts, EraseInOrder
<1>4. q \in Pools /\ q.top = p.top /\ q.holes = p.holes /\ q.bombed = p.bombed
  BY ProtectFacts DEF PoolOk, Protections
<1>5. /\ b.pool = [q EXCEPT !.holes = h]
      /\ b.buf = [cap |-> Size(r), lo |-> r.lo, hole |-> TRUE]
  BY <1>4 DEF BbAllocHole
<1> HIDE DEF q, h, b
<1>6. b.pool \in Pools /\ b.pool.top = p.top /\ b.pool.holes = h /\ b.pool.bombed = p.bombed
  BY <1>3, <1>4, <1>5 DEF Pools
<1>7. PoolOk(b.pool)
  BY <1>3, <1>6 DEF PoolOk
<1>8. PagesOf(r) \subseteq PagesIn(p.holes)
  BY <1>1, PoolTyped, HolesTyped DEF PagesIn
<1>9. Taken(b.pool) = Taken(p) \cup PagesOf(r)
  <2>1. HolePages(b.pool) = HolePages(p) \ PagesOf(r)
    BY <1>3, <1>6, PagesInIsHolePages
  <2>2. \A x \in PagesOf(r) : x \in Pages /\ x < p.top
    BY <1>2, PoolTyped, RangesFacts DEF PagesOf, Pages
  <2> QED BY <1>6, <2>1, <2>2 DEF Taken
<1>10. PagesOf(r) \cap Taken(p) = {}
  BY <1>8, PagesInIsHolePages DEF Taken
<1>11. b.buf.hole /\ b.buf.lo = r.lo /\ b.buf.cap = r.hi - r.lo
  BY <1>5 DEF Size
<1>12. b.buf.lo + b.buf.cap = r.hi /\ b.buf.cap \in Nat \ {0} /\ b.buf.cap >= min
       /\ b.buf.lo \in Nat
  BY <1>1, <1>2, <1>11, RangesFacts DEF Size
<1>13. [lo |-> r.lo, hi |-> r.hi] = r
  BY <1>2 DEF Ranges
<1> HIDE DEF r
<1> QED BY <1>2, <1>6, <1>7, <1>9, <1>10, <1>11, <1>12, <1>13 DEF b

(* Giving a range back frees exactly its pages, whatever holes it touches, *)
(* and never finds it overlapping one (bb_pool_reclaim).                   *)
THEOREM ReclaimFreesTheRange ==
    ASSUME NEW p, PoolOk(p), NEW f \in Ranges, f.lo < f.hi,
           PagesOf(f) \subseteq Taken(p)
    PROVE  /\ PoolOk(Reclaim(p, f.lo, f.hi))
           /\ Taken(Reclaim(p, f.lo, f.hi)) = Taken(p) \ PagesOf(f)
           /\ Reclaim(p, f.lo, f.hi).top <= p.top
<1> DEFINE lo == f.lo
           hi == f.hi
           h == p.holes
           N == Len(h)
           i == HoleFind(h, lo)
           left == i > 1 /\ h[i - 1].hi = lo
           lo1 == IF left THEN h[i - 1].lo ELSE lo
           h1 == IF left THEN HoleErase(h, i - 1, 1) ELSE h
           i1 == IF left THEN i - 1 ELSE i
           N1 == Len(h1)
           right == i1 <= Len(h1) /\ h1[i1].lo = hi
           hi1 == IF right THEN h1[i1].hi ELSE hi
           h2 == IF right THEN HoleErase(h1, i1, 1) ELSE h1
           N2 == Len(h2)
           q == Reclaim(p, lo, hi)
<1>1. /\ p \in Pools /\ ~p.bombed /\ p.top \in 0..Limit /\ p.top \in Int /\ Limit \in Int
      /\ h \in Seq(Ranges) /\ InOrder(h, p.top)
  BY PoolTyped DEF PoolOk
<1>2. /\ N \in Nat /\ DOMAIN h = 1..N
      /\ \A j \in 1..N : h[j] \in Ranges /\ h[j].lo \in Int /\ h[j].hi \in Int
  BY <1>1, HolesTyped
<1>3. lo \in 0..Limit /\ hi \in 0..Limit /\ lo \in Int /\ hi \in Int /\ lo < hi
  BY RangesFacts
<1>4. i \in 1..(N + 1) /\ \A j \in 1..N : j < i <=> h[j].lo < lo
  <2>1. i \in 1..(N + 1) /\ \A j \in DOMAIN h : j < i <=> h[j].lo < lo
    <3> HIDE DEF lo, h
    <3> QED BY <1>1, <1>3, HoleFindFacts
  <2> QED BY <1>2, <2>1
<1>5. /\ \A x \in 1..N : h[x].lo < h[x].hi /\ h[x].hi <= p.top
      /\ \A x, y \in 1..N : x < y => h[x].hi < h[y].lo
  BY <1>1, <1>2 DEF InOrder
<1>6. hi <= p.top
  BY <1>3, <1>1, FirstPage DEF Taken
<1>7. \A j \in 1..N : PagesOf(h[j]) \cap PagesOf(f) = {}
  BY <1>2 DEF Taken, HolePages
<1>8. /\ \A j \in 1..N : j < i => h[j].hi <= lo
      /\ \A j \in 1..N : i <= j => hi <= h[j].lo
  <2>1. ASSUME NEW j \in 1..N, j < i PROVE h[j].hi <= lo
    <3>1. lo \in PagesOf(f) /\ lo \in Pages
      BY FirstPage DEF PagesOf
    <3>2. lo \notin PagesOf(h[j])
      BY <1>7, <3>1
    <3> QED BY <1>2, <1>3, <1>4, <2>1, <3>1, <3>2 DEF PagesOf
  <2>2. ASSUME NEW j \in 1..N, i <= j PROVE hi <= h[j].lo
    <3>1. h[j].lo \in PagesOf(h[j]) /\ h[j].lo \in Pages
      BY <1>2, <1>5, FirstPage DEF PagesOf
    <3>2. h[j].lo \notin PagesOf(f)
      BY <1>7, <3>1
    <3>3. ~(h[j].lo < lo)
      BY <1>4, <2>2
    <3> QED BY <1>2, <1>3, <3>1, <3>2, <3>3 DEF PagesOf
  <2> QED BY <2>1, <2>2
<1>9. ~Overlaps(h, lo, hi)
  <2>1. i > 1 => i - 1 \in 1..N /\ i - 1 < i
    BY <1>2, <1>4
  <2>2. i <= N => i \in 1..N /\ i <= i
    BY <1>2, <1>4
  <2> QED BY <1>2, <1>3, <1>8, <2>1, <2>2 DEF Overlaps
<1>10. q = IF hi1 = p.top
           THEN [Protect(p, lo1, hi1, "rw") EXCEPT !.holes = h2, !.top = lo1]
           ELSE [p EXCEPT !.holes = HoleInsert(h2, i1, lo1, hi1)]
  <2>1. ~(hi > p.top) /\ ~(hi <= lo)
    BY <1>1, <1>3, <1>6
  <2> DEFINE m0 == [h |-> h, i |-> i, lo |-> lo, hi |-> hi]
             m1 == [h |-> h1, i |-> i1, lo |-> lo1, hi |-> hi]
             m2 == [h |-> h2, i |-> i1, lo |-> lo1, hi |-> hi1]
  <2>2. q = Join(p, JoinAbove(JoinBelow(m0)))
    BY <1>9, <2>1 DEF Reclaim, ReclaimUpTo
  <2>3. JoinBelow(m0) = m1
    <3>1. CASE left
      BY <3>1 DEF JoinBelow
    <3>2. CASE ~left
      BY <3>2 DEF JoinBelow
    <3> QED BY <3>1, <3>2
  <2> HIDE DEF h1, i1, lo1
  <2>4. JoinAbove(m1) = m2
    <3>1. CASE right
      BY <3>1 DEF JoinAbove
    <3>2. CASE ~right
      BY <3>2 DEF JoinAbove
    <3> QED BY <3>1, <3>2
  <2> HIDE DEF h2, hi1
  <2>5. Join(p, m2) = IF hi1 = p.top
           THEN [Protect(p, lo1, hi1, "rw") EXCEPT !.holes = h2, !.top = lo1]
           ELSE [p EXCEPT !.holes = HoleInsert(h2, i1, lo1, hi1)]
    BY DEF Join
  <2> QED BY <2>2, <2>3, <2>4, <2>5
<1> HIDE DEF i, q, N, N1, N2, h2, hi1, right
\* The neighbour below.
<1>11. /\ h1 \in Seq(Ranges) /\ InOrder(h1, p.top)
       /\ i1 \in 1..(Len(h1) + 1)
       /\ lo1 \in 0..Limit /\ lo1 <= lo
       /\ \A j \in 1..Len(h1) : j < i1 => h1[j].hi < lo1
       /\ \A j \in 1..Len(h1) : i1 <= j => hi <= h1[j].lo
       /\ \A x \in Pages : x \in PagesIn(h1) \/ (lo1 <= x /\ x < hi)
                            <=> x \in PagesIn(h) \/ x \in PagesOf(f)
  <2>1. CASE left
    <3>1. i - 1 \in 1..N
      BY <1>2, <1>4, <2>1
    <3>2. /\ h1 = HoleErase(h, i - 1, 1) /\ i1 = i - 1 /\ lo1 = h[i - 1].lo
          /\ h[i - 1].hi = lo
      BY <2>1
    <3> HIDE DEF h1, i1, lo1, left
    <3>3. /\ h1 \in Seq(Ranges) /\ Len(h1) = N - 1
          /\ \A j \in 1..(N - 1) : h1[j] = IF j < i - 1 THEN h[j] ELSE h[j + 1]
          /\ InOrder(h1, p.top)
          /\ PagesIn(h1) = PagesIn(h) \ PagesOf(h[i - 1])
      BY <1>1, <3>1, <3>2, EraseFacts, EraseInOrder DEF N
    <3>4. lo1 \in 0..Limit /\ lo1 < lo
      BY <1>2, <1>5, <3>1, <3>2, RangesFacts
    <3>5. \A j \in 1..(N - 1) : j < i1 => h1[j].hi < lo1
      <4>1. \A j \in 1..(N - 1) : j < i1 => j \in 1..N /\ h1[j] = h[j] /\ j < i - 1
        BY <1>2, <3>2, <3>3
      <4> QED BY <1>5, <3>1, <3>2, <4>1
    <3>6. \A j \in 1..(N - 1) : i1 <= j => hi <= h1[j].lo
      <4>1. \A j \in 1..(N - 1) : i1 <= j => j + 1 \in 1..N /\ h1[j] = h[j + 1] /\ i <= j + 1
        BY <1>2, <1>4, <3>1, <3>2, <3>3
      <4> QED BY <1>8, <4>1
    <3>7. PagesOf(h[i - 1]) \subseteq PagesIn(h)
      BY <1>2, <3>1 DEF PagesIn
    <3>8. \A x \in Pages : lo1 <= x /\ x < hi <=> x \in PagesOf(h[i - 1]) \/ x \in PagesOf(f)
      BY <1>2, <1>3, <3>1, <3>2, <3>4 DEF PagesOf, Pages
    <3>9. \A x \in Pages : x \in PagesIn(h1) \/ (lo1 <= x /\ x < hi)
                             <=> x \in PagesIn(h) \/ x \in PagesOf(f)
      BY <3>3, <3>7, <3>8
    <3>10. i1 \in 1..(Len(h1) + 1)
      BY <1>2, <1>4, <3>1, <3>2, <3>3
    <3> QED BY <1>3, <3>3, <3>4, <3>5, <3>6, <3>9, <3>10
  <2>2. CASE ~left
    <3>1. h1 = h /\ i1 = i /\ lo1 = lo
      BY <2>2
    <3>2. \A j \in 1..N : j < i => h[j].hi < lo
      <4> SUFFICES ASSUME NEW j \in 1..N, j < i PROVE h[j].hi < lo
        OBVIOUS
      <4>0. i > 1 /\ i - 1 \in 1..N /\ (j = i - 1 \/ j < i - 1)
        BY <1>2, <1>4
      <4>1. CASE j = i - 1
        BY <1>2, <1>3, <1>8, <2>2, <4>0, <4>1
      <4>2. CASE j < i - 1
        <5>1. h[j].hi < h[i - 1].lo
          BY <1>5, <4>0, <4>2
        <5>2. h[i - 1].lo < lo /\ h[i - 1].lo \in Int /\ h[j].hi \in Int
          BY <1>2, <1>4, <4>0
        <5> QED BY <1>3, <5>1, <5>2
      <4> QED BY <4>0, <4>1, <4>2
    <3>3. \A x \in Pages : lo <= x /\ x < hi <=> x \in PagesOf(f)
      BY DEF PagesOf
    <3> HIDE DEF h1, i1, lo1, left
    <3> QED BY <1>1, <1>3, <1>4, <1>8, <3>1, <3>2, <3>3 DEF N
  <2> QED BY <2>1, <2>2
<1> HIDE DEF h1, i1, lo1, left
\* The neighbour above.
<1>12. /\ h2 \in Seq(Ranges) /\ InOrder(h2, p.top)
       /\ i1 \in 1..(Len(h2) + 1)
       /\ hi1 \in 0..Limit /\ hi <= hi1 /\ hi1 <= p.top
       /\ \A j \in 1..Len(h2) : j < i1 => h2[j].hi < lo1
       /\ \A j \in 1..Len(h2) : i1 <= j => hi1 < h2[j].lo
       /\ \A x \in Pages : x \in PagesIn(h2) \/ (lo1 <= x /\ x < hi1)
                            <=> x \in PagesIn(h) \/ x \in PagesOf(f)
  <2>0. /\ N1 \in Nat /\ DOMAIN h1 = 1..N1 /\ N1 = Len(h1) /\ i1 \in Nat
        /\ \A j \in 1..N1 : h1[j] \in Ranges /\ h1[j].lo \in Int /\ h1[j].hi \in Int
    BY <1>11, HolesTyped DEF N1
  <2>00. /\ \A x \in 1..N1 : h1[x].lo < h1[x].hi /\ h1[x].hi <= p.top
         /\ \A x, y \in 1..N1 : x < y => h1[x].hi < h1[y].lo
    BY <1>11, <2>0 DEF InOrder
  <2>1. CASE right
    <3>1. i1 \in 1..N1 /\ h1[i1].lo = hi /\ hi1 = h1[i1].hi /\ h2 = HoleErase(h1, i1, 1)
      BY <1>11, <2>0, <2>1 DEF right, hi1, h2
    <3>3. /\ h2 \in Seq(Ranges) /\ Len(h2) = N1 - 1
          /\ \A j \in 1..(N1 - 1) : h2[j] = IF j < i1 THEN h1[j] ELSE h1[j + 1]
          /\ InOrder(h2, p.top)
          /\ PagesIn(h2) = PagesIn(h1) \ PagesOf(h1[i1])
      <4>1. i1 \in 1..Len(h1) /\ h1 \in Seq(Ranges)
        BY <1>11, <2>0, <3>1
      <4>2. /\ HoleErase(h1, i1, 1) \in Seq(Ranges)
            /\ Len(HoleErase(h1, i1, 1)) = Len(h1) - 1
            /\ \A j \in 1..(Len(h1) - 1) :
                 HoleErase(h1, i1, 1)[j] = IF j < i1 THEN h1[j] ELSE h1[j + 1]
        BY <4>1, EraseFacts
      <4>3. /\ InOrder(HoleErase(h1, i1, 1), p.top)
            /\ PagesIn(HoleErase(h1, i1, 1)) = PagesIn(h1) \ PagesOf(h1[i1])
        BY <1>1, <1>11, <4>1, EraseInOrder
      <4> QED BY <2>0, <3>1, <4>2, <4>3
    <3>4. hi1 \in 0..Limit /\ hi < hi1 /\ hi1 <= p.top
      BY <2>0, <2>00, <3>1, RangesFacts
    <3>5. \A j \in 1..(N1 - 1) : j < i1 => h2[j].hi < lo1
      <4>1. \A j \in 1..(N1 - 1) : j < i1 => j \in 1..N1 /\ h2[j] = h1[j]
        BY <2>0, <3>3
      <4> QED BY <1>11, <2>0, <4>1
    <3>6. \A j \in 1..(N1 - 1) : i1 <= j => hi1 < h2[j].lo
      <4>1. \A j \in 1..(N1 - 1) : i1 <= j => j + 1 \in 1..N1 /\ h2[j] = h1[j + 1] /\ i1 < j + 1
        BY <2>0, <3>1, <3>3
      <4> QED BY <2>00, <3>1, <4>1
    <3>7. PagesOf(h1[i1]) \subseteq PagesIn(h1)
      BY <2>0, <3>1 DEF PagesIn
    <3>8. \A x \in Pages : lo1 <= x /\ x < hi1
            <=> (lo1 <= x /\ x < hi) \/ x \in PagesOf(h1[i1])
      BY <1>3, <1>11, <2>0, <3>1, <3>4, PoolAssumption DEF PagesOf, Pages
    <3>9. \A x \in Pages : x \in PagesIn(h2) \/ (lo1 <= x /\ x < hi1)
                             <=> x \in PagesIn(h) \/ x \in PagesOf(f)
      BY <1>11, <3>3, <3>7, <3>8
    <3>10. i1 \in 1..(Len(h2) + 1)
      BY <2>0, <3>1, <3>3
    <3> QED BY <1>3, <3>3, <3>4, <3>5, <3>6, <3>9, <3>10
  <2>2. CASE ~right
    <3>1. h2 = h1 /\ hi1 = hi
      BY <2>2 DEF h2, hi1
    <3>2. \A j \in 1..N1 : i1 <= j => hi < h1[j].lo
      <4> SUFFICES ASSUME NEW j \in 1..N1, i1 <= j PROVE hi < h1[j].lo
        OBVIOUS
      <4>0. i1 \in 1..N1 /\ (j = i1 \/ i1 < j)
        BY <1>11, <2>0
      <4>1. CASE j = i1
        BY <1>3, <1>11, <2>0, <2>2, <4>0, <4>1 DEF right
      <4>2. CASE i1 < j
        <5>1. h1[i1].lo < h1[i1].hi /\ h1[i1].hi < h1[j].lo
          BY <2>00, <4>0, <4>2
        <5>2. hi <= h1[i1].lo
          BY <1>11, <2>0, <4>0
        <5>3. h1[i1].lo \in Int /\ h1[i1].hi \in Int /\ h1[j].lo \in Int
          BY <2>0, <4>0
        <5> QED BY <1>3, <5>1, <5>2, <5>3
      <4> QED BY <4>0, <4>1, <4>2
    <3> QED BY <1>3, <1>6, <1>11, <2>0, <3>1, <3>2
  <2> QED BY <2>1, <2>2
<1>13. lo1 \in Int /\ hi1 \in Int /\ lo1 < hi1
  BY <1>3, <1>11, <1>12
<1>14. \A x \in Pages : x \in PagesIn(h) <=> x \in HolePages(p)
  BY PagesInIsHolePages
<1>15. CASE hi1 = p.top
  <2> DEFINE t == Protect(p, lo1, hi1, "rw")
  <2>1. t \in Pools /\ t.bombed = p.bombed
    BY <1>1, ProtectFacts DEF Protections
  <2>2. q = [t EXCEPT !.holes = h2, !.top = lo1]
    BY <1>10, <1>15
  <2> HIDE DEF t
  <2>3. q \in Pools /\ q.top = lo1 /\ q.holes = h2 /\ ~q.bombed
    BY <1>1, <1>11, <1>12, <2>1, <2>2 DEF Pools
  <2>4. \A j \in 1..Len(h2) : j < i1
    <3>1. \A j \in 1..Len(h2) : h2[j].lo \in Int /\ h2[j].hi \in Int
                                  /\ h2[j].lo < h2[j].hi /\ h2[j].hi <= p.top
      BY <1>12, HolesTyped DEF InOrder
    <3> QED BY <1>1, <1>12, <1>15, <3>1
  <2>5. InOrder(h2, lo1)
    <3>1. DOMAIN h2 = 1..Len(h2) /\ \A j \in 1..Len(h2) : h2[j].hi \in Int
      BY <1>12, HolesTyped
    <3> QED BY <1>12, <1>13, <2>4, <3>1 DEF InOrder
  <2>6. HolePages(q) = PagesIn(h2)
    BY <2>3, PagesInIsHolePages
  <2>7. \A x \in Pages : x < lo1 /\ x \notin PagesIn(h2)
                           <=> x < p.top /\ x \notin PagesIn(h) /\ x \notin PagesOf(f)
    <3>1. \A x \in PagesIn(h2) : x < lo1
      <4>1. DOMAIN h2 = 1..Len(h2)
            /\ \A j \in 1..Len(h2) : h2[j].hi \in Int /\ h2[j].hi <= lo1
        BY <1>12, <2>5, HolesTyped DEF InOrder
      <4> QED BY <1>13, <4>1, PoolAssumption DEF PagesIn, PagesOf, Pages
    <3>2. \A x \in Pages : x \in Int
      BY DEF Pages
    <3> QED BY <1>1, <1>12, <1>13, <1>15, <3>1, <3>2
  <2>8. Taken(q) = Taken(p) \ PagesOf(f)
    BY <1>14, <2>3, <2>6, <2>7 DEF Taken
  <2> QED BY <1>13, <1>15, <2>3, <2>5, <2>8 DEF PoolOk, q
<1>16. CASE hi1 # p.top
  <2> DEFINE h3 == HoleInsert(h2, i1, lo1, hi1)
             r == [lo |-> lo1, hi |-> hi1]
  <2>1. q = [p EXCEPT !.holes = h3]
    BY <1>10, <1>16
  <2>2. h3 \in Seq(Ranges) /\ InOrder(h3, p.top) /\ PagesIn(h3) = PagesIn(h2) \cup PagesOf(r)
    <3>1. lo1 \in 0..Limit /\ hi1 \in 0..Limit /\ i1 \in 1..(Len(h2) + 1)
          /\ h2 \in Seq(Ranges) /\ p.top \in Int
      BY <1>1, <1>11, <1>12
    <3>2. h3 \in Seq(Ranges)
      BY <3>1, InsertFacts
    <3>3. lo1 < hi1 /\ hi1 <= p.top
      BY <1>12, <1>13
    <3>4. InOrder(h3, p.top) /\ PagesIn(h3) = PagesIn(h2) \cup PagesOf(r)
      BY <1>12, <3>1, <3>3, InsertInOrder
    <3> QED BY <3>2, <3>4
  <2> HIDE DEF h3
  <2>3. q \in Pools /\ q.top = p.top /\ q.holes = h3 /\ ~q.bombed
    BY <1>1, <2>1, <2>2 DEF Pools
  <2>4. \A x \in Pages : x \in PagesOf(r) <=> lo1 <= x /\ x < hi1
    BY DEF PagesOf
  <2>5. \A x \in Pages : x \in HolePages(q) <=> x \in HolePages(p) \/ x \in PagesOf(f)
    BY <1>12, <1>14, <2>2, <2>3, <2>4, PagesInIsHolePages
  <2>6. Taken(q) = Taken(p) \ PagesOf(f)
    BY <2>3, <2>5 DEF Taken
  <2> QED BY <1>1, <2>2, <2>3, <2>6 DEF PoolOk, q
<1> QED BY <1>15, <1>16

\* GiveBack is bb_pool_reclaim after the range was put out of bounds.
LEMMA GiveBackFacts ==
    ASSUME NEW p, PoolOk(p), NEW f \in Ranges, PagesOf(f) \subseteq Taken(p)
    PROVE  /\ PoolOk(GiveBack(p, f.lo, f.hi))
           /\ Taken(GiveBack(p, f.lo, f.hi)) = Taken(p) \ PagesOf(f)
<1>1. CASE f.hi <= f.lo
  <2>1. PagesOf(f) = {}
    BY <1>1, RangesFacts DEF PagesOf, Pages
  <2> QED BY <1>1, <2>1 DEF GiveBack
<1>2. CASE ~(f.hi <= f.lo)
  <2> DEFINE q == Protect(p, f.lo, f.hi, "none")
  <2>1. /\ q \in Pools /\ q.top = p.top /\ q.holes = p.holes
        /\ q.bombed = p.bombed /\ Taken(q) = Taken(p)
    BY ProtectFacts DEF PoolOk, Protections
  <2>2. GiveBack(p, f.lo, f.hi) = Reclaim(q, f.lo, f.hi)
    BY <1>2 DEF GiveBack
  <2> HIDE DEF q
  <2>3. PoolOk(q) /\ f.lo < f.hi
    BY <1>2, <2>1, RangesFacts DEF PoolOk
  <2> QED BY <2>1, <2>2, <2>3, ReclaimFreesTheRange
<1> QED BY <1>1, <1>2

\* The pages of a buffer.
BufferRange(b) == [lo |-> b.buf.lo, hi |-> b.buf.lo + b.buf.cap]

\* What a buffer is good for: pages nobody had.
GoodBuffer(p, b) ==
    /\ PoolOk(b.pool)
    /\ b.buf.lo \in Nat /\ b.buf.cap \in Nat \ {0} /\ b.buf.hole \in BOOLEAN
    /\ BufferRange(b) \in Ranges
    /\ Taken(b.pool) = Taken(p) \cup PagesOf(BufferRange(b))
    /\ PagesOf(BufferRange(b)) \cap Taken(p) = {}
    /\ ~b.buf.hole => b.buf.lo = p.top /\ b.pool.top = p.top + b.buf.cap

LEMMA AllocGood ==
    ASSUME NEW p, PoolOk(p), NEW n \in Nat \ {0}, n <= Free(p)
    PROVE  /\ GoodBuffer(p, BbAlloc(p, n))
           /\ BbAlloc(p, n).buf.cap = n /\ ~BbAlloc(p, n).buf.hole
<1>1. /\ BbAlloc(p, n).buf.cap = n /\ BbAlloc(p, n).buf.lo = p.top
      /\ BbAlloc(p, n).buf.hole = FALSE
  BY DEF BbAlloc
<1>2. BufferRange(BbAlloc(p, n)) = [lo |-> p.top, hi |-> p.top + n]
  BY <1>1 DEF BufferRange
<1>3. p.top \in Nat
  BY PoolTyped
<1> DEFINE r == [lo |-> p.top, hi |-> p.top + n]
           b == BbAlloc(p, n)
<1>4. /\ PoolOk(b.pool) /\ r \in Ranges /\ b.pool.top = p.top + n
      /\ Taken(b.pool) = Taken(p) \cup PagesOf(r)
      /\ PagesOf(r) \cap Taken(p) = {}
  BY AllocFacts
<1>5. BufferRange(b) = r
  BY <1>2
<1>6. b.buf.cap = n /\ b.buf.lo = p.top /\ b.buf.hole = FALSE
  BY <1>1
<1> HIDE DEF b, r
<1>7. GoodBuffer(p, b)
  BY <1>3, <1>4, <1>5, <1>6 DEF GoodBuffer
<1> QED BY <1>6, <1>7 DEF b

LEMMA BufferFacts ==
    ASSUME NEW p, PoolOk(p), NEW holesOk \in BOOLEAN, NEW min \in Nat,
           NEW flat \in Nat \ {0}, min <= flat
    PROVE  LET b == Buffer(p, holesOk, min, flat)
           IN  \/ b.buf = NoBuffer /\ b.pool = p
               \/ /\ b.buf # NoBuffer
                  /\ GoodBuffer(p, b) /\ b.buf.cap >= min
                  /\ b.buf.hole => holesOk
<1> DEFINE b == Buffer(p, holesOk, min, flat)
<1>0. Free(p) \in Int
  BY PoolTyped DEF Free
<1>1. CASE holesOk /\ BigHoles(p, min) # {}
  <2>1. b = BbAllocHole(p, min)
    BY <1>1 DEF Buffer
  <2> HIDE DEF b
  <2>2. GoodBuffer(p, b) /\ b.buf.cap >= min /\ b.buf.hole
    BY <1>1, <2>1, AllocHoleFacts DEF GoodBuffer, BufferRange
  <2>3. b.buf # NoBuffer
    BY <2>2 DEF GoodBuffer, NoBuffer
  <2> QED BY <1>1, <2>2, <2>3 DEF b
<1>2. CASE ~(holesOk /\ BigHoles(p, min) # {}) /\ flat <= Free(p)
  <2>1. b = BbAlloc(p, flat)
    BY <1>2 DEF Buffer
  <2> HIDE DEF b
  <2>2. GoodBuffer(p, b) /\ b.buf.cap = flat /\ ~b.buf.hole
    BY <1>2, <2>1, AllocGood
  <2>3. b.buf # NoBuffer
    BY <2>2 DEF GoodBuffer, NoBuffer
  <2> QED BY <2>2, <2>3 DEF b
<1>3. CASE /\ ~(holesOk /\ BigHoles(p, min) # {}) /\ ~(flat <= Free(p))
           /\ Free(p) >= min /\ Free(p) > 0
  <2>1. b = BbAlloc(p, Free(p))
    BY <1>3 DEF Buffer
  <2> HIDE DEF b
  <2>2. Free(p) \in Nat \ {0} /\ Free(p) <= Free(p)
    BY <1>0, <1>3
  <2>3. GoodBuffer(p, b) /\ b.buf.cap = Free(p) /\ ~b.buf.hole
    BY <2>1, <2>2, AllocGood
  <2>4. b.buf # NoBuffer
    BY <2>3 DEF GoodBuffer, NoBuffer
  <2> QED BY <1>3, <2>3, <2>4 DEF b
<1>4. CASE /\ ~(holesOk /\ BigHoles(p, min) # {}) /\ ~(flat <= Free(p))
           /\ ~(Free(p) >= min /\ Free(p) > 0)
  BY <1>4 DEF Buffer
<1> QED BY <1>1, <1>2, <1>3, <1>4

\* An emission that is undone leaves the pages taken as they were.
LEMMA UndoFacts ==
    ASSUME NEW p, PoolOk(p), NEW b, GoodBuffer(p, b)
    PROVE  /\ PoolOk(Undo(b, p.top))
           /\ Taken(Undo(b, p.top)) = Taken(p)
           /\ ~b.buf.hole => Undo(b, p.top).top = p.top
<1> DEFINE r == BufferRange(b)
<1>1. CASE b.buf.hole
  <2>1. r.lo = b.buf.lo /\ r.hi = b.buf.lo + b.buf.cap
    BY DEF BufferRange
  <2>2. Undo(b, p.top) = GiveBack(b.pool, r.lo, r.hi)
    BY <1>1, <2>1 DEF Undo
  <2> HIDE DEF r
  <2>3. /\ PoolOk(GiveBack(b.pool, r.lo, r.hi))
        /\ Taken(GiveBack(b.pool, r.lo, r.hi)) = Taken(b.pool) \ PagesOf(r)
    BY GiveBackFacts DEF GoodBuffer, r
  <2> QED BY <1>1, <2>2, <2>3 DEF GoodBuffer, r
<1>2. CASE ~b.buf.hole
  <2>1. p.top \in 0..Limit /\ p.top \in Int
    BY PoolTyped
  <2>2. /\ PoolOk(Release(b.pool, p.top))
        /\ Taken(Release(b.pool, p.top)) = {x \in Taken(b.pool) : x < p.top}
        /\ Release(b.pool, p.top).top = p.top
    BY <1>2, <2>1, ReleaseKeepsBelow DEF GoodBuffer
  <2>3. \A x \in PagesOf(r) : ~(x < p.top)
    BY <1>2, <2>1 DEF GoodBuffer, BufferRange, PagesOf, Pages
  <2>4. \A x \in Taken(p) : x < p.top
    BY DEF Taken
  <2>5. {x \in Taken(b.pool) : x < p.top} = Taken(p)
    BY <2>3, <2>4 DEF GoodBuffer
  <2> QED BY <1>2, <2>2, <2>5 DEF Undo
<1> QED BY <1>1, <1>2

\* The code an emission hands out.
GoodCode(p, e, holesOk) ==
    /\ PoolOk(e.pool)
    /\ e.code \in Ranges /\ e.code.lo < e.code.hi
    /\ Taken(e.pool) = Taken(p) \cup PagesOf(e.code)
    /\ PagesOf(e.code) \cap Taken(p) = {}
    /\ ~holesOk => e.code.lo = p.top /\ e.pool.top = e.code.hi

LEMMA EmittedFacts ==
    ASSUME NEW p, PoolOk(p), NEW b, GoodBuffer(p, b), NEW n \in Nat \ {0},
           n <= b.buf.cap
    PROVE  GoodCode(p, Emitted(b, n), b.buf.hole)
<1> DEFINE c == [lo |-> b.buf.lo, hi |-> b.buf.lo + n]
           rest == [lo |-> b.buf.lo + n, hi |-> b.buf.lo + b.buf.cap]
           r == BufferRange(b)
           s == Seal(b.pool, b.buf.lo, n)
           e == Emitted(b, n)
<1>1. /\ b.buf.lo \in Nat /\ b.buf.cap \in Nat \ {0} /\ r \in Ranges
      /\ r.lo = b.buf.lo /\ r.hi = b.buf.lo + b.buf.cap /\ r.hi \in 0..Limit
      /\ Limit \in Int
  BY RangesFacts, PoolAssumption DEF GoodBuffer, BufferRange
<1>2. c \in Ranges /\ rest \in Ranges /\ c.lo < c.hi
  <2>1. b.buf.lo \in 0..Limit /\ b.buf.lo + n \in 0..Limit /\ b.buf.lo + b.buf.cap \in 0..Limit
    BY <1>1
  <2> QED BY <1>1, <2>1, RangeIsOne
<1>3. PagesOf(r) = PagesOf(c) \cup PagesOf(rest) /\ PagesOf(c) \cap PagesOf(rest) = {}
  BY <1>1 DEF PagesOf, Pages
<1>4. /\ s \in Pools /\ s.top = b.pool.top /\ s.holes = b.pool.holes
      /\ s.bombed = b.pool.bombed /\ Taken(s) = Taken(b.pool)
  BY ProtectFacts DEF Seal, GoodBuffer, PoolOk, Protections
<1>5. e.code = c
  BY DEF Emitted
<1>6. CASE b.buf.hole
  <2>1. rest.lo = b.buf.lo + n /\ rest.hi = b.buf.lo + b.buf.cap
    OBVIOUS
  <2>2. e.pool = GiveBack(s, rest.lo, rest.hi)
    BY <1>6 DEF Emitted, Keep
  <2> HIDE DEF s, rest, c, r, e
  <2>3. PoolOk(s) /\ Taken(s) = Taken(p) \cup PagesOf(r) /\ PagesOf(r) \cap Taken(p) = {}
    BY <1>4 DEF PoolOk, GoodBuffer, r
  <2>4. /\ PoolOk(GiveBack(s, rest.lo, rest.hi))
        /\ Taken(GiveBack(s, rest.lo, rest.hi)) = Taken(s) \ PagesOf(rest)
    BY <1>2, <1>3, <2>3, GiveBackFacts
  <2>5. Taken(e.pool) = Taken(p) \cup PagesOf(c) /\ PagesOf(c) \cap Taken(p) = {}
    BY <1>3, <2>2, <2>3, <2>4
  <2> QED BY <1>2, <1>5, <1>6, <2>2, <2>4, <2>5 DEF GoodCode, e
<1>7. CASE ~b.buf.hole
  <2> DEFINE t == [s EXCEPT !.top = b.buf.lo + n]
  <2>0. b.buf.lo = p.top /\ b.pool.top = p.top + b.buf.cap
    BY <1>7 DEF GoodBuffer
  <2>1. e.pool = t
    <3>1. b.buf.lo + b.buf.cap = s.top
      BY <1>4, <2>0
    <3> HIDE DEF s
    <3>2. TrimLast(s, b.buf.lo, b.buf.cap, n) = t
      BY <3>1 DEF TrimLast
    <3> QED BY <1>7, <3>2 DEF Emitted, Keep, s
  <2> HIDE DEF s, e
  <2>2. /\ t \in Pools /\ t.top = b.buf.lo + n /\ t.holes = b.pool.holes
        /\ t.bombed = b.pool.bombed
    <3>1. b.buf.lo + n \in 0..Limit
      BY <1>1
    <3> QED BY <1>4, <3>1 DEF Pools
  <2> HIDE DEF t
  \* No hole reaches past the watermark the buffer was taken at.
  <2>3. \A x \in PagesIn(b.pool.holes) : x < p.top
    <3>1. \A x \in PagesIn(b.pool.holes) : x \in Pages /\ x < b.pool.top /\ x \notin Taken(b.pool)
      <4>1. DOMAIN b.pool.holes = 1..Len(b.pool.holes)
            /\ \A j \in 1..Len(b.pool.holes) :
                 b.pool.holes[j].hi \in Int /\ b.pool.holes[j].hi <= b.pool.top
        BY PoolTyped, HolesTyped DEF GoodBuffer, InOrder
      <4>2. b.pool.top \in Int
        BY PoolTyped DEF GoodBuffer
      <4>3. \A x \in PagesIn(b.pool.holes) : x \notin Taken(b.pool)
        BY PagesInIsHolePages DEF Taken
      <4> QED BY <4>1, <4>2, <4>3 DEF PagesIn, PagesOf, Pages
    <3>2. \A x \in Pages : x < b.pool.top /\ ~(x < p.top) => x \in PagesOf(r)
      BY <1>1, <2>0 DEF PagesOf, Pages
    <3> QED BY <3>1, <3>2 DEF GoodBuffer
  <2>4. InOrder(t.holes, t.top)
    <3>1. InOrder(b.pool.holes, b.pool.top) /\ DOMAIN b.pool.holes = 1..Len(b.pool.holes)
          /\ \A j \in 1..Len(b.pool.holes) : b.pool.holes[j] \in Ranges
               /\ b.pool.holes[j].lo \in Int /\ b.pool.holes[j].hi \in Int
      BY PoolTyped, HolesTyped DEF GoodBuffer
    <3>2. \A j \in 1..Len(b.pool.holes) : b.pool.holes[j].hi <= p.top
      <4> SUFFICES ASSUME NEW j \in 1..Len(b.pool.holes)
                   PROVE  b.pool.holes[j].hi <= p.top
        OBVIOUS
      <4>1. b.pool.holes[j].lo < b.pool.holes[j].hi
        BY <3>1 DEF InOrder
      <4>2. b.pool.holes[j].hi - 1 \in PagesOf(b.pool.holes[j])
        BY <3>1, <4>1, FirstPage
      <4>3. b.pool.holes[j].hi - 1 < p.top
        BY <2>3, <3>1, <4>2 DEF PagesIn
      <4>4. b.pool.holes[j].hi \in Int /\ p.top \in Int
        BY <3>1, PoolTyped
      <4> QED BY <4>3, <4>4
    <3>3. p.top <= t.top /\ p.top \in Int /\ t.top \in Int
      BY <1>1, <2>0, <2>2
    <3> QED BY <2>2, <3>1, <3>2, <3>3 DEF InOrder
  <2>5. PoolOk(t)
    BY <2>2, <2>4 DEF PoolOk, GoodBuffer
  <2>6. Taken(t) = Taken(p) \cup PagesOf(c)
    <3>1. HolePages(t) = HolePages(b.pool)
      BY <2>2, PagesInIsHolePages
    <3>2. \A x \in Taken(p) : x < p.top
      BY DEF Taken
    <3>3. \A x \in Pages : x \in Taken(t) <=> x < t.top /\ x \in Taken(b.pool)
      BY <1>1, <2>0, <2>2, <3>1 DEF Taken, Pages
    <3>4. \A x \in Pages : x \in PagesOf(c) <=> p.top <= x /\ x < t.top
      BY <2>0, <2>2 DEF PagesOf
    <3>5. \A x \in Pages : x \in PagesOf(r) <=> p.top <= x /\ x < b.pool.top
      BY <1>1, <2>0 DEF PagesOf
    <3>6. Taken(p) \subseteq Pages /\ PagesOf(c) \subseteq Pages /\ Taken(t) \subseteq Pages
      BY DEF Taken, PagesOf
    <3>7. p.top <= t.top /\ t.top <= b.pool.top /\ p.top \in Int /\ t.top \in Int
          /\ b.pool.top \in Int /\ \A x \in Pages : x \in Int
      BY <1>1, <2>0, <2>2 DEF Pages
    <3>8. Taken(b.pool) = Taken(p) \cup PagesOf(r)
      BY DEF GoodBuffer
    <3> HIDE DEF c, r
    <3>9. \A x \in Pages : x \in Taken(t) <=> x \in Taken(p) \cup PagesOf(c)
      BY <3>2, <3>3, <3>4, <3>5, <3>7, <3>8
    <3> QED BY <3>6, <3>9
  <2>7. PagesOf(c) \cap Taken(p) = {}
    BY <1>3 DEF GoodBuffer
  <2>8. c.lo = p.top /\ t.top = c.hi
    BY <2>0, <2>2
  <2> HIDE DEF c
  <2> QED BY <1>2, <1>5, <2>1, <2>5, <2>6, <2>7, <2>8 DEF GoodCode, e
<1> QED BY <1>6, <1>7

(* An emission either hands out pages nobody had, and takes exactly those, *)
(* or leaves the pages that are taken as they were (emit_chain).           *)
THEOREM EmitTakesItsCode ==
    ASSUME NEW p, PoolOk(p), NEW n \in Nat, NEW holesOk \in BOOLEAN
    PROVE  LET e == EmitChain(p, n, holesOk)
           IN  \/ GoodCode(p, e, holesOk)
               \/ /\ e.code = NoCode /\ PoolOk(e.pool)
                  /\ Taken(e.pool) = Taken(p)
                  /\ ~holesOk => e.pool.top = p.top
<1> DEFINE b1 == Buffer(p, holesOk, 0, FlatCap)
           p1 == Undo(b1, p.top)
           b2 == Buffer(p1, holesOk, n, n + Slack)
           e == EmitChain(p, n, holesOk)
<1>1. \/ b1.buf = NoBuffer /\ b1.pool = p
      \/ b1.buf # NoBuffer /\ GoodBuffer(p, b1) /\ (b1.buf.hole => holesOk)
  <2>1. 0 \in Nat /\ FlatCap \in Nat \ {0} /\ 0 <= FlatCap
    BY PoolAssumption
  <2> QED BY <2>1, BufferFacts
<1>2. e = IF b1.buf = NoBuffer THEN [pool |-> p, code |-> NoCode]
          ELSE IF n = 0 THEN [pool |-> p1, code |-> NoCode]
          ELSE IF n <= b1.buf.cap THEN Emitted(b1, n)
          ELSE IF b2.buf = NoBuffer THEN [pool |-> p1, code |-> NoCode]
          ELSE Emitted(b2, n)
  BY DEF EmitChain, EmitWith, EmitAgain
<1> HIDE DEF b1, b2, p1, e
<1>3. CASE b1.buf = NoBuffer
  BY <1>2, <1>3 DEF e
<1>4. CASE b1.buf # NoBuffer
  <2>1. GoodBuffer(p, b1) /\ (b1.buf.hole => holesOk)
    BY <1>1, <1>4
  <2>2. PoolOk(p1) /\ Taken(p1) = Taken(p) /\ (~b1.buf.hole => p1.top = p.top)
    BY <2>1, UndoFacts DEF p1
  <2>3. CASE n = 0
    BY <1>2, <1>4, <2>1, <2>2, <2>3 DEF e
  <2>4. CASE n # 0 /\ n <= b1.buf.cap
    <3>1. GoodCode(p, Emitted(b1, n), b1.buf.hole)
      BY <2>1, <2>4, EmittedFacts
    <3>2. e = Emitted(b1, n)
      BY <1>2, <1>4, <2>4
    <3> QED BY <2>1, <3>1, <3>2 DEF GoodCode, e
  <2>5. CASE n # 0 /\ ~(n <= b1.buf.cap) /\ b2.buf = NoBuffer
    BY <1>2, <1>4, <2>1, <2>2, <2>5 DEF e
  <2>6. CASE n # 0 /\ ~(n <= b1.buf.cap) /\ b2.buf # NoBuffer
    <3>1. GoodBuffer(p1, b2) /\ b2.buf.cap >= n /\ (b2.buf.hole => holesOk)
      <4>1. n + Slack \in Nat \ {0} /\ n <= n + Slack
        BY <2>6, PoolAssumption
      <4> QED BY <2>2, <2>6, <4>1, BufferFacts DEF b2
    <3>2. n <= b2.buf.cap
      BY <3>1 DEF GoodBuffer
    <3>3. GoodCode(p1, Emitted(b2, n), b2.buf.hole)
      BY <2>2, <2>6, <3>1, <3>2, EmittedFacts
    <3>4. e = Emitted(b2, n)
      BY <1>2, <1>4, <2>6
    <3> QED BY <2>1, <2>2, <3>1, <3>3, <3>4 DEF GoodCode, e
  <2> QED BY <2>3, <2>4, <2>5, <2>6
<1> QED BY <1>3, <1>4
-----------------------------------------------------------------------------
(***************************************************************************)
(* The protection of the pages.  What a page is protected to follows from  *)
(* what it is: writable above the watermark, out of bounds in a hole,      *)
(* executable when somebody has it -- but for the pages W somebody is at   *)
(* work on.                                                                *)
(***************************************************************************)
Guarded(p, W) ==
    \A x \in Pages :
      /\ x >= p.top => p.perm[x] = "rw"
      /\ x \in HolePages(p) => p.perm[x] = "none"
      /\ x \in Taken(p) \ W => p.perm[x] = "rx"

\* A page below the watermark is taken or in a hole, and never both.
LEMMA PageKinds ==
    ASSUME NEW p, PoolOk(p), NEW x \in Pages
    PROVE  /\ x \in Int /\ p.top \in Int
           /\ x \in HolePages(p) <=> x < p.top /\ x \notin Taken(p)
           /\ x \in Taken(p) => x < p.top
<1>1. p.top \in Int /\ x \in Int /\ InOrder(p.holes, p.top) /\ p.holes \in Seq(Ranges)
  BY PoolTyped DEF Pages
<1>2. ASSUME x \in HolePages(p) PROVE x < p.top
  <2>1. PICK j \in DOMAIN p.holes : x \in PagesOf(p.holes[j])
    BY <1>2 DEF HolePages
  <2>2. p.holes[j].hi <= p.top /\ p.holes[j].hi \in Int
    BY <1>1, <2>1, HolesTyped DEF InOrder
  <2>3. x < p.holes[j].hi
    BY <2>1 DEF PagesOf
  <2> QED BY <1>1, <2>2, <2>3
<1> QED BY <1>1, <1>2 DEF Taken

LEMMA ProtectPerm ==
    ASSUME NEW p \in Pools, NEW lo, NEW hi, NEW m
    PROVE  \A x \in Pages : Protect(p, lo, hi, m).perm[x] =
                              IF lo <= x /\ x < hi THEN m ELSE p.perm[x]
BY DEF Protect, Pools

\* Given pages back to the watermark, the pool makes them writable.
LEMMA ReleasePerm ==
    ASSUME NEW p, PoolOk(p), NEW mark \in 0..Limit
    PROVE  \A x \in Pages : Release(p, mark).perm[x] =
             IF mark <= x /\ x < p.top THEN "rw" ELSE p.perm[x]
<1>1. p.top \in Int /\ mark \in Int /\ p \in Pools /\ \A x \in Pages : x \in Int
  BY PoolTyped, PoolAssumption DEF PoolOk, Pages
<1>2. CASE mark > p.top
  <2>1. Release(p, mark) = p
    BY <1>2 DEF Release
  <2> QED BY <1>1, <1>2, <2>1
<1>3. CASE ~(mark > p.top)
  <2> DEFINE q == Protect(p, mark, p.top, "rw")
  <2>1. q \in Pools
    BY <1>1, ProtectFacts DEF Protections
  <2>2. Release(p, mark) = [q EXCEPT !.holes = HoleTruncate(p.holes, mark), !.top = mark]
    BY <1>3 DEF Release
  <2>3. \A x \in Pages : q.perm[x] = IF mark <= x /\ x < p.top THEN "rw" ELSE p.perm[x]
    BY <1>1, ProtectPerm
  <2> HIDE DEF q
  <2>4. Release(p, mark).perm = q.perm
    BY <2>1, <2>2 DEF Pools
  <2> QED BY <2>3, <2>4
<1> QED BY <1>2, <1>3

LEMMA ReleaseGuarded ==
    ASSUME NEW p, PoolOk(p), NEW mark \in 0..Limit, NEW W, Guarded(p, W),
           \A x \in W : ~(x < mark)
    PROVE  Guarded(Release(p, mark), {})
<1> DEFINE q == Release(p, mark)
<1>1. PoolOk(q) /\ Taken(q) = {x \in Taken(p) : x < mark}
      /\ q.top = IF mark > p.top THEN p.top ELSE mark
  BY ReleaseKeepsBelow
<1>2. \A x \in Pages : q.perm[x] = IF mark <= x /\ x < p.top THEN "rw" ELSE p.perm[x]
  BY ReleasePerm
<1> HIDE DEF q
<1>3. mark \in Int /\ p.top \in Int
  BY PoolTyped, PoolAssumption
<1>4. ASSUME NEW x \in Pages
      PROVE  /\ x >= q.top => q.perm[x] = "rw"
             /\ x \in HolePages(q) => q.perm[x] = "none"
             /\ x \in Taken(q) => q.perm[x] = "rx"
  <2>1. /\ x >= p.top => p.perm[x] = "rw"
        /\ x \in HolePages(p) => p.perm[x] = "none"
        /\ x \in Taken(p) /\ x \notin W => p.perm[x] = "rx"
    BY DEF Guarded
  <2>2. /\ x \in Int
        /\ x \in HolePages(p) <=> x < p.top /\ x \notin Taken(p)
        /\ x \in HolePages(q) <=> x < q.top /\ x \notin Taken(q)
        /\ x \in Taken(q) => x < q.top
    BY <1>1, PageKinds
  <2> QED BY <1>1, <1>2, <1>3, <2>1, <2>2
<1>5. Guarded(q, {})
  BY <1>4 DEF Guarded
<1> QED BY <1>5 DEF q

\* Reclaiming a range changes the protection of the pages that come to lie
\* above the watermark, and of no other page.
LEMMA ReclaimPerm ==
    ASSUME NEW p, PoolOk(p), NEW lo \in Int, NEW hi \in Int
    PROVE  LET q == Reclaim(p, lo, hi)
           IN  \A x \in Pages : q.perm[x] =
                 IF q.top <= x /\ x < p.top THEN "rw" ELSE p.perm[x]
<1> DEFINE q == Reclaim(p, lo, hi)
           up == IF hi > p.top THEN p.top ELSE hi
           m == JoinAbove(JoinBelow(
                  [h |-> p.holes, i |-> HoleFind(p.holes, lo), lo |-> lo, hi |-> up]))
<1>1. p.top \in Int /\ p \in Pools /\ \A x \in Pages : x \in Int
  BY PoolTyped DEF PoolOk, Pages
<1>2. \/ q = p
      \/ q = [p EXCEPT !.bombed = TRUE]
      \/ q = Join(p, m)
  BY DEF Reclaim, ReclaimUpTo
<1> HIDE DEF q, m
<1>3. CASE q.top = p.top /\ q.perm = p.perm
  BY <1>1, <1>3 DEF q
<1>4. CASE q = p
  BY <1>3, <1>4
<1>5. CASE q = [p EXCEPT !.bombed = TRUE]
  BY <1>1, <1>3, <1>5 DEF Pools
<1>6. CASE q = Join(p, m)
  <2>1. CASE m.hi = p.top
    <3> DEFINE r == Protect(p, m.lo, m.hi, "rw")
    <3>1. r \in Pools
      BY <1>1, ProtectFacts DEF Protections
    <3>2. \A x \in Pages : r.perm[x] = IF m.lo <= x /\ x < p.top THEN "rw" ELSE p.perm[x]
      BY <1>1, <2>1, ProtectPerm
    <3>3. q = [r EXCEPT !.holes = m.h, !.top = m.lo]
      BY <1>6, <2>1 DEF Join
    <3> HIDE DEF r
    <3>4. q.perm = r.perm /\ q.top = m.lo
      BY <3>1, <3>3 DEF Pools
    <3> QED BY <3>2, <3>4 DEF q
  <2>2. CASE m.hi # p.top
    <3>1. q = [p EXCEPT !.holes = HoleInsert(m.h, m.i, m.lo, m.hi)]
      BY <1>6, <2>2 DEF Join
    <3>2. q.perm = p.perm /\ q.top = p.top
      BY <1>1, <3>1 DEF Pools
    <3> QED BY <1>3, <3>2
  <2> QED BY <2>1, <2>2
<1> QED BY <1>2, <1>4, <1>5, <1>6

LEMMA ReclaimGuarded ==
    ASSUME NEW p, PoolOk(p), NEW f \in Ranges, f.lo < f.hi,
           PagesOf(f) \subseteq Taken(p), Guarded(p, PagesOf(f)),
           \A x \in PagesOf(f) : p.perm[x] = "none"
    PROVE  Guarded(Reclaim(p, f.lo, f.hi), {})
<1> DEFINE q == Reclaim(p, f.lo, f.hi)
<1>1. PoolOk(q) /\ Taken(q) = Taken(p) \ PagesOf(f) /\ q.top <= p.top
  BY ReclaimFreesTheRange
<1>2. \A x \in Pages : q.perm[x] = IF q.top <= x /\ x < p.top THEN "rw" ELSE p.perm[x]
  BY ReclaimPerm, RangesFacts
<1> HIDE DEF q
<1>3. ASSUME NEW x \in Pages
      PROVE  /\ x >= q.top => q.perm[x] = "rw"
             /\ x \in HolePages(q) => q.perm[x] = "none"
             /\ x \in Taken(q) => q.perm[x] = "rx"
  <2>1. /\ x >= p.top => p.perm[x] = "rw"
        /\ x \in HolePages(p) => p.perm[x] = "none"
        /\ x \in Taken(p) /\ x \notin PagesOf(f) => p.perm[x] = "rx"
    BY DEF Guarded
  <2>2. /\ x \in Int /\ p.top \in Int /\ q.top \in Int
        /\ x \in HolePages(p) <=> x < p.top /\ x \notin Taken(p)
        /\ x \in HolePages(q) <=> x < q.top /\ x \notin Taken(q)
        /\ x \in Taken(q) => x < q.top
    BY <1>1, PageKinds
  <2> QED BY <1>1, <1>2, <2>1, <2>2
<1>4. Guarded(q, {})
  BY <1>3 DEF Guarded
<1> QED BY <1>4 DEF q

(* Reclaiming code leaves every page protected to what it now is: the      *)
(* range and the holes it is merged with out of bounds, or writable if     *)
(* they reach the watermark (bb_pool_reclaim).                             *)
THEOREM ReclaimKeepsGuard ==
    ASSUME NEW p, PoolOk(p), NEW f \in Ranges, PagesOf(f) \subseteq Taken(p),
           f.lo < f.hi, NEW W, Guarded(p, W), W \subseteq PagesOf(f)
    PROVE  Guarded(Reclaim(Protect(p, f.lo, f.hi, "none"), f.lo, f.hi), {})
<1> DEFINE q == Protect(p, f.lo, f.hi, "none")
<1>1. /\ q \in Pools /\ q.top = p.top /\ q.holes = p.holes
      /\ q.bombed = p.bombed /\ Taken(q) = Taken(p)
  BY ProtectFacts DEF PoolOk, Protections
<1>2. \A x \in Pages : q.perm[x] = IF f.lo <= x /\ x < f.hi THEN "none" ELSE p.perm[x]
  BY ProtectPerm DEF PoolOk
<1> HIDE DEF q
<1>3. PoolOk(q)
  BY <1>1 DEF PoolOk
<1>4. \A x \in Pages : x \in PagesOf(f) <=> f.lo <= x /\ x < f.hi
  BY DEF PagesOf
<1>5. \A x \in PagesOf(f) : q.perm[x] = "none"
  BY <1>2, <1>4 DEF PagesOf
<1>6. HolePages(q) = HolePages(p)
  BY <1>1, PagesInIsHolePages
<1>7. ASSUME NEW x \in Pages, x \notin PagesOf(f)
      PROVE  /\ x >= q.top => q.perm[x] = "rw"
             /\ x \in HolePages(q) => q.perm[x] = "none"
             /\ x \in Taken(q) => q.perm[x] = "rx"
  BY <1>1, <1>2, <1>4, <1>6, <1>7 DEF Guarded
<1>8. \A x \in PagesOf(f) : x \in Taken(q) /\ x < q.top /\ x \notin HolePages(q)
      /\ x \in Int /\ q.top \in Int
  BY <1>1, <1>3, PageKinds DEF PagesOf
<1>9. Guarded(q, PagesOf(f))
  BY <1>7, <1>8 DEF Guarded
<1>10. Guarded(Reclaim(q, f.lo, f.hi), {})
  BY <1>1, <1>3, <1>5, <1>9, ReclaimGuarded
<1> QED BY <1>10 DEF q

LEMMA GiveBackGuarded ==
    ASSUME NEW p, PoolOk(p), NEW f \in Ranges, PagesOf(f) \subseteq Taken(p),
           NEW W, Guarded(p, W), W \subseteq PagesOf(f)
    PROVE  Guarded(GiveBack(p, f.lo, f.hi), {})
<1>1. CASE f.hi <= f.lo
  <2>1. PagesOf(f) = {}
    BY <1>1, RangesFacts DEF PagesOf, Pages
  <2>2. GiveBack(p, f.lo, f.hi) = p /\ W = {}
    BY <1>1, <2>1 DEF GiveBack
  <2> QED BY <2>2
<1>2. CASE ~(f.hi <= f.lo)
  <2>1. f.lo < f.hi
    BY <1>2, RangesFacts
  <2>2. GiveBack(p, f.lo, f.hi) = Reclaim(Protect(p, f.lo, f.hi, "none"), f.lo, f.hi)
    BY <1>2 DEF GiveBack
  <2> QED BY <2>1, <2>2, ReclaimKeepsGuard
<1> QED BY <1>1, <1>2

\* The pages of a buffer are writable, and the rest are as they should be.
GuardedBuffer(b) ==
    /\ Guarded(b.pool, PagesOf(BufferRange(b)))
    /\ \A x \in PagesOf(BufferRange(b)) : b.pool.perm[x] = "rw"

LEMMA AllocGuarded ==
    ASSUME NEW p, PoolOk(p), Guarded(p, {}), NEW n \in Nat \ {0}, n <= Free(p)
    PROVE  GuardedBuffer(BbAlloc(p, n))
<1> DEFINE b == BbAlloc(p, n)
           r == BufferRange(b)
<1>1. /\ PoolOk(b.pool) /\ b.pool.top = p.top + n
      /\ Taken(b.pool) = Taken(p) \cup PagesOf(r)
      /\ b.pool.perm = p.perm /\ r.lo = p.top /\ r.hi = p.top + n
  <2>1. b.pool = [p EXCEPT !.top = @ + n] /\ r = [lo |-> p.top, hi |-> p.top + n]
    BY DEF BbAlloc, BufferRange
  <2>2. b.pool.perm = p.perm
    BY <2>1 DEF PoolOk, Pools
  <2> QED BY <2>1, <2>2, AllocFacts
<1> HIDE DEF b, r
<1>2. \A x \in Pages : x \in PagesOf(r) <=> r.lo <= x /\ x < r.hi
  BY DEF PagesOf
<1>3. ASSUME NEW x \in Pages
      PROVE  /\ x >= b.pool.top => b.pool.perm[x] = "rw"
             /\ x \in HolePages(b.pool) => b.pool.perm[x] = "none"
             /\ x \in Taken(b.pool) /\ x \notin PagesOf(r) => b.pool.perm[x] = "rx"
             /\ x \in PagesOf(r) => b.pool.perm[x] = "rw"
  <2>1. /\ x \in Int /\ p.top \in Int
        /\ x \in HolePages(p) <=> x < p.top /\ x \notin Taken(p)
        /\ x \in HolePages(b.pool) <=> x < b.pool.top /\ x \notin Taken(b.pool)
    BY <1>1, PageKinds
  <2>2. /\ x >= p.top => p.perm[x] = "rw"
        /\ x \in HolePages(p) => p.perm[x] = "none"
        /\ x \in Taken(p) => p.perm[x] = "rx"
    BY DEF Guarded
  <2> QED BY <1>1, <1>2, <2>1, <2>2
<1>4. GuardedBuffer(b)
  <2>1. \A x \in PagesOf(r) : x \in Pages
    BY DEF PagesOf
  <2> QED BY <1>3, <2>1 DEF GuardedBuffer, Guarded, r
<1> QED BY <1>4 DEF b

LEMMA AllocHoleGuarded ==
    ASSUME NEW p, PoolOk(p), Guarded(p, {}), NEW min \in Nat, BigHoles(p, min) # {}
    PROVE  GuardedBuffer(BbAllocHole(p, min))
<1> DEFINE b == BbAllocHole(p, min)
           r == BufferRange(b)
           o == p.holes[FirstHole(p, min)]
           q == Protect(p, o.lo, o.hi, "rw")
<1>1. /\ PoolOk(b.pool) /\ b.pool.top = p.top
      /\ Taken(b.pool) = Taken(p) \cup PagesOf(r)
      /\ PagesOf(r) \cap Taken(p) = {}
  BY AllocHoleFacts DEF BufferRange
<1>2. r.lo = o.lo /\ r.hi = o.hi
  <2>1. FirstHole(p, min) \in 1..Len(p.holes)
    BY FirstHoleFacts
  <2>2. o.lo \in Int /\ o.hi \in Int
    BY <2>1, PoolTyped, HolesTyped
  <2>3. r = [lo |-> o.lo, hi |-> o.lo + (o.hi - o.lo)]
    BY DEF BufferRange, BbAllocHole, Size
  <2> HIDE DEF r, o
  <2> QED BY <2>2, <2>3
<1>3. b.pool.perm = q.perm
  <2>1. q \in Pools
    BY ProtectFacts DEF PoolOk, Protections
  <2>2. b.pool = [q EXCEPT !.holes = HoleErase(@, FirstHole(p, min), 1)]
    BY DEF BbAllocHole
  <2> HIDE DEF q, b
  <2> QED BY <2>1, <2>2 DEF Pools
<1>4. \A x \in Pages : q.perm[x] = IF o.lo <= x /\ x < o.hi THEN "rw" ELSE p.perm[x]
  BY ProtectPerm DEF PoolOk
<1> HIDE DEF b, r, o, q
<1>5. \A x \in Pages : x \in PagesOf(r) <=> o.lo <= x /\ x < o.hi
  BY <1>2 DEF PagesOf
<1>6. ASSUME NEW x \in Pages
      PROVE  /\ x >= b.pool.top => b.pool.perm[x] = "rw"
             /\ x \in HolePages(b.pool) => b.pool.perm[x] = "none"
             /\ x \in Taken(b.pool) /\ x \notin PagesOf(r) => b.pool.perm[x] = "rx"
             /\ x \in PagesOf(r) => b.pool.perm[x] = "rw"
  <2>1. /\ x \in HolePages(p) <=> x < p.top /\ x \notin Taken(p)
        /\ x \in HolePages(b.pool) <=> x < b.pool.top /\ x \notin Taken(b.pool)
    BY <1>1, PageKinds
  <2>2. /\ x >= p.top => p.perm[x] = "rw"
        /\ x \in HolePages(p) => p.perm[x] = "none"
        /\ x \in Taken(p) => p.perm[x] = "rx"
    BY DEF Guarded
  <2> QED BY <1>1, <1>3, <1>4, <1>5, <2>1, <2>2
<1>7. GuardedBuffer(b)
  <2>1. \A x \in PagesOf(r) : x \in Pages
    BY DEF PagesOf
  <2> QED BY <1>6, <2>1 DEF GuardedBuffer, Guarded, r
<1> QED BY <1>7 DEF b

LEMMA BufferGuarded ==
    ASSUME NEW p, PoolOk(p), Guarded(p, {}), NEW holesOk \in BOOLEAN, NEW min \in Nat,
           NEW flat \in Nat \ {0}, Buffer(p, holesOk, min, flat).buf # NoBuffer
    PROVE  GuardedBuffer(Buffer(p, holesOk, min, flat))
<1> DEFINE b == Buffer(p, holesOk, min, flat)
<1>1. CASE holesOk /\ BigHoles(p, min) # {}
  BY <1>1, AllocHoleGuarded DEF Buffer
<1>2. CASE ~(holesOk /\ BigHoles(p, min) # {}) /\ flat <= Free(p)
  <2>1. b = BbAlloc(p, flat)
    BY <1>2 DEF Buffer
  <2> QED BY <1>2, <2>1, AllocGuarded
<1>3. CASE ~(holesOk /\ BigHoles(p, min) # {}) /\ ~(flat <= Free(p))
  <2>1. Free(p) >= min /\ Free(p) > 0 /\ b = BbAlloc(p, Free(p))
    BY <1>3 DEF Buffer
  <2>2. Free(p) \in Nat \ {0} /\ Free(p) <= Free(p)
    BY <2>1, PoolTyped DEF Free
  <2> QED BY <2>1, <2>2, AllocGuarded
<1> QED BY <1>1, <1>2, <1>3

\* A pass that is undone leaves every page guarded,
LEMMA UndoGuarded ==
    ASSUME NEW p, PoolOk(p), NEW b, GoodBuffer(p, b), GuardedBuffer(b)
    PROVE  Guarded(Undo(b, p.top), {})
<1> DEFINE r == BufferRange(b)
<1>1. CASE b.buf.hole
  <2>1. r.lo = b.buf.lo /\ r.hi = b.buf.lo + b.buf.cap
    BY DEF BufferRange
  <2>2. Undo(b, p.top) = GiveBack(b.pool, r.lo, r.hi)
    BY <1>1, <2>1 DEF Undo
  <2>3. r \in Ranges /\ PagesOf(r) \subseteq Taken(b.pool) /\ PoolOk(b.pool)
        /\ Guarded(b.pool, PagesOf(r))
    BY DEF GoodBuffer, GuardedBuffer
  <2> HIDE DEF r
  <2>4. Guarded(GiveBack(b.pool, r.lo, r.hi), {})
    BY <2>3, GiveBackGuarded
  <2> QED BY <2>2, <2>4
<1>2. CASE ~b.buf.hole
  <2>1. p.top \in 0..Limit /\ p.top \in Int
    BY PoolTyped
  <2>2. \A x \in PagesOf(r) : ~(x < p.top)
    BY <1>2, <2>1 DEF GoodBuffer, BufferRange, PagesOf, Pages
  <2>3. Guarded(Release(b.pool, p.top), {})
    BY <2>1, <2>2, ReleaseGuarded DEF GoodBuffer, GuardedBuffer
  <2> QED BY <1>2, <2>3 DEF Undo
<1> QED BY <1>1, <1>2

\* and so does one that is kept: what the chain did not use is in a hole or
\* above the watermark again.
LEMMA KeepGuarded ==
    ASSUME NEW p, PoolOk(p), NEW b, GoodBuffer(p, b), GuardedBuffer(b),
           NEW n \in Nat \ {0}, n <= b.buf.cap
    PROVE  Guarded(Emitted(b, n).pool, {})
<1> DEFINE rest == [lo |-> b.buf.lo + n, hi |-> b.buf.lo + b.buf.cap]
           r == BufferRange(b)
           s == Seal(b.pool, b.buf.lo, n)
           e == Emitted(b, n)
<1>1. /\ b.buf.lo \in Nat /\ b.buf.cap \in Nat \ {0} /\ r \in Ranges
      /\ r.lo = b.buf.lo /\ r.hi = b.buf.lo + b.buf.cap /\ r.hi \in 0..Limit
      /\ Limit \in Int
  BY RangesFacts, PoolAssumption DEF GoodBuffer, BufferRange
<1>2. rest \in Ranges
  <2>1. b.buf.lo + n \in 0..Limit /\ b.buf.lo + b.buf.cap \in 0..Limit
    BY <1>1
  <2> QED BY <2>1, RangeIsOne
<1>3. PoolOk(b.pool) /\ b.pool \in Pools /\ PagesOf(r) \subseteq Taken(b.pool)
  BY DEF GoodBuffer, PoolOk
<1>4. /\ s \in Pools /\ s.top = b.pool.top /\ s.holes = b.pool.holes
      /\ s.bombed = b.pool.bombed /\ Taken(s) = Taken(b.pool)
  BY <1>3, ProtectFacts DEF Seal, Protections
<1>5. \A x \in Pages : s.perm[x] =
        IF b.buf.lo <= x /\ x < b.buf.lo + n THEN "rx" ELSE b.pool.perm[x]
  BY <1>3, ProtectPerm DEF Seal
<1>6. \A x \in Pages : /\ x \in PagesOf(r) <=> b.buf.lo <= x /\ x < b.buf.lo + b.buf.cap
                       /\ x \in PagesOf(rest) <=> b.buf.lo + n <= x /\ x < b.buf.lo + b.buf.cap
                       /\ x \in Int
  BY <1>1 DEF PagesOf, Pages
<1> HIDE DEF s, r, rest
<1>7. PoolOk(s) /\ HolePages(s) = HolePages(b.pool)
  BY <1>3, <1>4, PagesInIsHolePages DEF PoolOk
<1>8. ASSUME NEW x \in Pages
      PROVE  /\ x >= s.top => s.perm[x] = "rw"
             /\ x \in HolePages(s) => s.perm[x] = "none"
             /\ x \in Taken(s) /\ x \notin PagesOf(rest) => s.perm[x] = "rx"
             /\ x \in PagesOf(rest) => s.perm[x] = "rw" /\ x \in Taken(s)
  <2>1. /\ x >= b.pool.top => b.pool.perm[x] = "rw"
        /\ x \in HolePages(b.pool) => b.pool.perm[x] = "none"
        /\ x \in Taken(b.pool) /\ x \notin PagesOf(r) => b.pool.perm[x] = "rx"
        /\ x \in PagesOf(r) => b.pool.perm[x] = "rw"
    BY DEF GuardedBuffer, Guarded, r
  <2>2. /\ x \in HolePages(b.pool) <=> x < b.pool.top /\ x \notin Taken(b.pool)
        /\ x \in Taken(b.pool) => x < b.pool.top
        /\ b.pool.top \in Int
    BY <1>3, PageKinds
  <2>3. /\ x \in PagesOf(r) <=> b.buf.lo <= x /\ x < b.buf.lo + b.buf.cap
        /\ x \in PagesOf(rest) <=> b.buf.lo + n <= x /\ x < b.buf.lo + b.buf.cap
        /\ x \in Int
    BY <1>6
  <2>4. s.perm[x] = IF b.buf.lo <= x /\ x < b.buf.lo + n THEN "rx" ELSE b.pool.perm[x]
    BY <1>5
  <2>5. x \in PagesOf(r) => x \in Taken(b.pool)
    BY <1>3
  <2>6. CASE b.buf.lo <= x /\ x < b.buf.lo + n
    BY <1>1, <1>4, <1>7, <2>2, <2>3, <2>4, <2>5, <2>6
  <2>7. CASE ~(b.buf.lo <= x /\ x < b.buf.lo + n)
    BY <1>1, <1>4, <1>7, <2>1, <2>2, <2>3, <2>4, <2>5, <2>7
  <2> QED BY <2>6, <2>7
<1>9. Guarded(s, PagesOf(rest))
  BY <1>8 DEF Guarded
<1>10. PagesOf(rest) \subseteq Taken(s)
  BY <1>8 DEF PagesOf
<1>11. CASE b.buf.hole
  <2>1. e.pool = GiveBack(s, rest.lo, rest.hi)
    BY <1>11 DEF Emitted, Keep, s, rest
  <2> HIDE DEF e
  <2>2. Guarded(GiveBack(s, rest.lo, rest.hi), {})
    BY <1>2, <1>7, <1>9, <1>10, GiveBackGuarded
  <2> QED BY <2>1, <2>2 DEF e
<1>12. CASE ~b.buf.hole
  <2>1. s.top = b.buf.lo + b.buf.cap
    BY <1>4, <1>12 DEF GoodBuffer
  <2>2. e.pool = [s EXCEPT !.top = b.buf.lo + n]
    <3>1. TrimLast(s, b.buf.lo, b.buf.cap, n) = [s EXCEPT !.top = b.buf.lo + n]
      BY <2>1 DEF TrimLast
    <3> QED BY <1>12, <3>1 DEF Emitted, Keep, s
  <2>3. PoolOk(e.pool)
    <3>1. GoodCode(p, e, b.buf.hole)
      BY EmittedFacts
    <3> QED BY <3>1 DEF GoodCode
  <2> HIDE DEF e
  <2>4. e.pool.top = b.buf.lo + n /\ e.pool.perm = s.perm /\ e.pool.holes = s.holes
    BY <1>4, <2>2 DEF Pools
  <2>5. HolePages(e.pool) = HolePages(s)
    BY <2>4, PagesInIsHolePages
  <2>6. ASSUME NEW x \in Pages
        PROVE  /\ x >= e.pool.top => e.pool.perm[x] = "rw"
               /\ x \in HolePages(e.pool) => e.pool.perm[x] = "none"
               /\ x \in Taken(e.pool) => e.pool.perm[x] = "rx"
    <3>1. x \in Taken(e.pool) <=> x < e.pool.top /\ x \notin HolePages(e.pool)
      BY DEF Taken
    <3>2. x \in HolePages(s) <=> x < s.top /\ x \notin Taken(s)
      BY <1>7, PageKinds
    <3> QED BY <1>1, <1>6, <1>8, <2>1, <2>4, <2>5, <3>1, <3>2
  <2>7. Guarded(e.pool, {})
    BY <2>6 DEF Guarded
  <2> QED BY <2>7 DEF e
<1> QED BY <1>11, <1>12

(* Whatever becomes of an emission -- a buffer in a hole or above the      *)
(* watermark, a pass undone and repeated, a rest given back -- every page  *)
(* is protected to what it is afterwards (emit_chain, bb_seal).            *)
THEOREM EmitKeepsGuard ==
    ASSUME NEW p, PoolOk(p), Guarded(p, {}), NEW n \in Nat, NEW holesOk \in BOOLEAN
    PROVE  Guarded(EmitChain(p, n, holesOk).pool, {})
<1> DEFINE b1 == Buffer(p, holesOk, 0, FlatCap)
           p1 == Undo(b1, p.top)
           b2 == Buffer(p1, holesOk, n, n + Slack)
           e == EmitChain(p, n, holesOk)
<1>1. b1.buf # NoBuffer => GoodBuffer(p, b1) /\ GuardedBuffer(b1)
  <2>1. 0 \in Nat /\ FlatCap \in Nat \ {0} /\ 0 <= FlatCap
    BY PoolAssumption
  <2>2. \/ b1.buf = NoBuffer /\ b1.pool = p
        \/ b1.buf # NoBuffer /\ GoodBuffer(p, b1) /\ (b1.buf.hole => holesOk)
    BY <2>1, BufferFacts
  <2> QED BY <2>1, <2>2, BufferGuarded
<1>2. e = IF b1.buf = NoBuffer THEN [pool |-> p, code |-> NoCode]
          ELSE IF n = 0 THEN [pool |-> p1, code |-> NoCode]
          ELSE IF n <= b1.buf.cap THEN Emitted(b1, n)
          ELSE IF b2.buf = NoBuffer THEN [pool |-> p1, code |-> NoCode]
          ELSE Emitted(b2, n)
  BY DEF EmitChain, EmitWith, EmitAgain
<1> HIDE DEF b1, b2, p1, e
<1>3. CASE b1.buf = NoBuffer
  BY <1>2, <1>3 DEF e
<1>4. CASE b1.buf # NoBuffer
  <2>1. PoolOk(p1) /\ Guarded(p1, {})
    BY <1>1, <1>4, UndoFacts, UndoGuarded DEF p1
  <2>2. CASE n # 0 /\ n <= b1.buf.cap
    <3>1. Guarded(Emitted(b1, n).pool, {})
      BY <1>1, <1>4, <2>2, KeepGuarded
    <3> QED BY <1>2, <1>4, <2>2, <3>1 DEF e
  <2>3. CASE n # 0 /\ ~(n <= b1.buf.cap) /\ b2.buf # NoBuffer
    <3>1. n + Slack \in Nat \ {0} /\ n <= n + Slack
      BY <2>3, PoolAssumption
    <3>2. GoodBuffer(p1, b2) /\ b2.buf.cap >= n
      BY <2>1, <2>3, <3>1, BufferFacts DEF b2
    <3>3. GuardedBuffer(b2)
      BY <2>1, <2>3, <3>1, BufferGuarded DEF b2
    <3>4. n <= b2.buf.cap
      BY <3>2 DEF GoodBuffer
    <3>5. Guarded(Emitted(b2, n).pool, {})
      BY <2>1, <2>3, <3>2, <3>3, <3>4, KeepGuarded
    <3> QED BY <1>2, <1>4, <2>3, <3>5 DEF e
  <2>4. CASE n = 0 \/ (~(n <= b1.buf.cap) /\ b2.buf = NoBuffer)
    BY <1>2, <1>4, <2>1, <2>4 DEF e
  <2> QED BY <2>2, <2>3, <2>4
<1> QED BY <1>3, <1>4

(* The search of bb_pool_addr_in_hole finds the pages of the holes and no  *)
(* others, whatever the list (hole_find, bb_pool_addr_in_hole).            *)
THEOREM InHoleFindsHoles ==
    ASSUME NEW p, PoolOk(p), NEW x \in Pages
    PROVE  InHole(p, x) <=> x \in HolePages(p)
<1> DEFINE h == p.holes
           i == HoleFind(h, x + 1)
<1>1. /\ p.top \in Int /\ h \in Seq(Ranges) /\ InOrder(h, p.top)
      /\ DOMAIN h = 1..Len(h) /\ Len(h) \in Nat /\ x \in Int
      /\ \A j \in 1..Len(h) : h[j].lo \in Int /\ h[j].hi \in Int
  BY PoolTyped, HolesTyped DEF Pages
<1>2. i \in 1..(Len(h) + 1) /\ \A j \in 1..Len(h) : j < i <=> h[j].lo < x + 1
  <2>1. x + 1 \in Int
    BY <1>1
  <2>2. i \in 1..(Len(h) + 1) /\ \A j \in DOMAIN h : j < i <=> h[j].lo < x + 1
    <3> HIDE DEF h
    <3> QED BY <1>1, <2>1, HoleFindFacts
  <2> QED BY <1>1, <2>2
<1>3. x \in HolePages(p) <=> \E j \in 1..Len(h) : h[j].lo <= x /\ x < h[j].hi
  BY <1>1 DEF HolePages, PagesOf
<1> HIDE DEF i, h
<1>4. ASSUME NEW j \in 1..Len(h), h[j].lo <= x, x < h[j].hi
      PROVE  i > 1 /\ i - 1 = j
  <2>1. j < i
    BY <1>1, <1>2, <1>4
  <2>2. ~(j < i - 1)
    <3> SUFFICES ASSUME j < i - 1 PROVE FALSE
      OBVIOUS
    <3>1. i - 1 \in 1..Len(h) /\ i - 1 < i
      BY <1>1, <1>2
    <3>2. h[i - 1].lo < x + 1
      BY <1>2, <3>1
    <3>3. h[j].hi < h[i - 1].lo
      BY <1>1, <3>1 DEF InOrder
    <3>4. h[j].hi \in Int /\ h[i - 1].lo \in Int
      BY <1>1, <3>1
    <3> QED BY <1>1, <1>4, <3>2, <3>3, <3>4
  <2> QED BY <1>1, <1>2, <2>1, <2>2
<1>5. ASSUME i > 1, h[i - 1].lo <= x, x < h[i - 1].hi
      PROVE  i - 1 \in 1..Len(h)
  BY <1>1, <1>2, <1>5
<1> QED BY <1>3, <1>4, <1>5 DEF InHole, i, h
=============================================================================
