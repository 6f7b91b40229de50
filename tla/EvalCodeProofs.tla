----------------------------- MODULE EvalCodeProofs -----------------------------
(***************************************************************************)
(* EVAL over the code pool, for any number of texts, open EVALs and pages, *)
(* when every code is kept (SCRIP_EVAL_RETAIN unset): no code that is      *)
(* still wanted is given back, and the pages of live code are never handed *)
(* out a second time.                                                      *)
(*                                                                         *)
(* The argument.  The pages taken are at any time exactly those of the     *)
(* live blocks, which are apart (Blocks); each operation of the pool is    *)
(* shown to keep that for the set of blocks it leaves.  An EVAL that gives *)
(* its code back owns it: the code starts at its mark, ends at the         *)
(* watermark, and nobody else reaches it (FramesOwn).                      *)
(***************************************************************************)
EXTENDS EvalCode, BbPoolProofs

LEMMA BlockBelowTop ==
    ASSUME NEW p, NEW L, Blocks(p, L), NEW b \in L
    PROVE  /\ b \in Ranges /\ b.lo \in Int /\ b.hi \in Int /\ b.lo < b.hi
           /\ b.hi <= p.top /\ b # NoCode
<1>1. b \in Ranges /\ b.lo < b.hi /\ PagesOf(b) \subseteq Taken(p)
  BY DEF Blocks
<1>2. b.hi - 1 \in PagesOf(b) /\ b.lo \in Int /\ b.hi \in Int
  BY <1>1, FirstPage, RangesFacts
<1>3. b.hi - 1 < p.top
  BY <1>1, <1>2 DEF Taken
<1>4. p.top \in Int
  BY PoolTyped DEF Blocks
<1> QED BY <1>1, <1>2, <1>3, <1>4 DEF NoCode

\* Code nobody had joins the blocks.
LEMMA BlocksEmit ==
    ASSUME NEW p, NEW L, Blocks(p, L), NEW n \in Nat, NEW holesOk \in BOOLEAN
    PROVE  LET e == EmitChain(p, n, holesOk)
           IN  /\ Blocks(e.pool, L \cup ({e.code} \ {NoCode}))
               /\ e.code \in Ranges
               /\ e.code \notin L
               /\ ~holesOk /\ e.code # NoCode => e.code.lo = p.top /\ e.pool.top = e.code.hi
               /\ ~holesOk /\ e.code = NoCode => e.pool.top = p.top
<1> DEFINE e == EmitChain(p, n, holesOk)
<1>1. \/ GoodCode(p, e, holesOk)
      \/ /\ e.code = NoCode /\ PoolOk(e.pool)
         /\ Taken(e.pool) = Taken(p)
         /\ ~holesOk => e.pool.top = p.top
  BY EmitTakesItsCode DEF Blocks
<1> HIDE DEF e
<1>2. NoCode \in Ranges
  BY PoolAssumption DEF NoCode, Ranges
<1>3. CASE GoodCode(p, e, holesOk)
  <2>1. /\ PoolOk(e.pool) /\ e.code \in Ranges /\ e.code.lo < e.code.hi
        /\ Taken(e.pool) = Taken(p) \cup PagesOf(e.code)
        /\ PagesOf(e.code) \cap Taken(p) = {}
        /\ ~holesOk => e.code.lo = p.top /\ e.pool.top = e.code.hi
    BY <1>3 DEF GoodCode
  <2>2. e.code # NoCode
    BY <2>1 DEF NoCode
  <2>3. e.code.lo \in PagesOf(e.code)
    BY <2>1, FirstPage
  <2>4. \A b \in L : PagesOf(b) \cap PagesOf(e.code) = {}
    BY <2>1 DEF Blocks
  <2>5. e.code \notin L
    BY <2>3, <2>4
  <2>6. Blocks(e.pool, L \cup {e.code})
    <3>1. Taken(e.pool) = UNION {PagesOf(b) : b \in L \cup {e.code}}
      BY <2>1 DEF Blocks
    <3>2. \A b, c \in L \cup {e.code} : b # c => PagesOf(b) \cap PagesOf(c) = {}
      BY <2>4 DEF Blocks
    <3> QED BY <2>1, <3>1, <3>2 DEF Blocks
  <2>7. {e.code} \ {NoCode} = {e.code}
    BY <2>2
  <2> QED BY <2>1, <2>2, <2>5, <2>6, <2>7 DEF e
<1>4. CASE /\ e.code = NoCode /\ PoolOk(e.pool)
           /\ Taken(e.pool) = Taken(p)
           /\ ~holesOk => e.pool.top = p.top
  <2>1. L \cup ({e.code} \ {NoCode}) = L
    BY <1>4
  <2>2. Blocks(e.pool, L)
    BY <1>4 DEF Blocks
  <2>3. NoCode \notin L
    BY BlockBelowTop
  <2> QED BY <1>2, <1>4, <2>1, <2>2, <2>3 DEF e
<1> QED BY <1>1, <1>3, <1>4

\* Blocks above a mark go when the pool is released to it.
LEMMA BlocksRelease ==
    ASSUME NEW p, NEW L, Blocks(p, L), NEW mark \in 0..Limit,
           \A b \in L : b.hi <= mark \/ mark <= b.lo
    PROVE  Blocks(Release(p, mark), {b \in L : b.hi <= mark})
<1> DEFINE K == {b \in L : b.hi <= mark}
<1>1. /\ PoolOk(Release(p, mark))
      /\ Taken(Release(p, mark)) = {x \in Taken(p) : x < mark}
  BY ReleaseKeepsBelow DEF Blocks
<1>2. \A b \in L : \A x \in PagesOf(b) : x \in Int /\ b.lo <= x /\ x < b.hi
  BY DEF PagesOf, Pages
<1>3. \A b \in L : b \in K => \A x \in PagesOf(b) : x < mark
  BY <1>2, BlockBelowTop
<1>4. \A b \in L : b \notin K => \A x \in PagesOf(b) : ~(x < mark)
  BY <1>2, BlockBelowTop
<1>5. {x \in Taken(p) : x < mark} = UNION {PagesOf(b) : b \in K}
  BY <1>3, <1>4 DEF Blocks
<1> QED BY <1>1, <1>5 DEF Blocks

LEMMA LiveBelowFacts ==
    ASSUME Blocks(pool, live), NEW mark \in 0..Limit
    PROVE  LiveBelow(live, mark) = {b \in live : b.hi <= mark}
<1>1. CASE mark > pool.top
  <2>1. \A b \in live : b.hi <= mark
    BY <1>1, BlockBelowTop, PoolTyped DEF Blocks
  <2> QED BY <1>1, <2>1 DEF LiveBelow
<1>2. CASE ~(mark > pool.top)
  BY <1>2 DEF LiveBelow
<1> QED BY <1>1, <1>2

LEMMA BlocksReclaim ==
    ASSUME NEW p, NEW L, Blocks(p, L), NEW f \in L
    PROVE  Blocks(Reclaim(Protect(p, f.lo, f.hi, "none"), f.lo, f.hi), L \ {f})
<1> DEFINE q == Protect(p, f.lo, f.hi, "none")
<1>1. /\ q \in Pools /\ q.top = p.top /\ q.holes = p.holes
      /\ q.bombed = p.bombed /\ Taken(q) = Taken(p)
  BY ProtectFacts DEF Blocks, PoolOk, Protections
<1> HIDE DEF q
<1>2. PoolOk(q)
  BY <1>1 DEF PoolOk, Blocks
<1>3. f \in Ranges /\ f.lo < f.hi /\ PagesOf(f) \subseteq Taken(q)
  BY <1>1 DEF Blocks
<1>4. /\ PoolOk(Reclaim(q, f.lo, f.hi))
      /\ Taken(Reclaim(q, f.lo, f.hi)) = Taken(q) \ PagesOf(f)
  BY <1>2, <1>3, ReclaimFreesTheRange
<1>5. Taken(q) \ PagesOf(f) = UNION {PagesOf(b) : b \in L \ {f}}
  BY <1>1 DEF Blocks
<1>6. Blocks(Reclaim(q, f.lo, f.hi), L \ {f})
  BY <1>4, <1>5 DEF Blocks
<1> QED BY <1>6 DEF q

\* What compiling a text does to the pool.
LEMMA BuildFacts ==
    ASSUME Blocks(pool, live), NEW n \in Nat, NEW thunks \in BOOLEAN
    PROVE  LET b == Build(n, thunks)
           IN  /\ Blocks(b.pool, live \cup ({b.code, b.thunk} \ {NoCode}))
               /\ b.code \in Ranges /\ b.thunk \in Ranges
               /\ b.code \notin live /\ b.thunk \notin live
               /\ b.code # NoCode => b.code.lo = pool.top /\ b.code # b.thunk
               /\ b.thunk # NoCode => b.thunk.lo >= pool.top
               /\ b.ok => b.code # NoCode
               /\ ~thunks => b.thunk = NoCode
               /\ b.ok /\ ~thunks => b.pool.top = b.code.hi
<1> DEFINE c == EmitChain(pool, n, FALSE)
           t == EmitChain(c.pool, 1, FALSE)
           L == live \cup ({c.code} \ {NoCode})
           b == Build(n, thunks)
<1>0. pool.top \in Int
  BY PoolTyped DEF Blocks
<1>1. /\ Blocks(c.pool, L) /\ c.code \in Ranges /\ c.code \notin live
      /\ c.code # NoCode => c.code.lo = pool.top /\ c.pool.top = c.code.hi
      /\ c.code = NoCode => c.pool.top = pool.top
  BY BlocksEmit
<1> HIDE DEF c
<1>2. c.pool.top >= pool.top
  <2>1. c.code # NoCode => c.code.lo < c.code.hi /\ c.code.lo \in Int /\ c.code.hi \in Int
    BY <1>1, BlockBelowTop
  <2> QED BY <1>0, <1>1, <2>1
<1>3. CASE thunks
  <2>1. /\ Blocks(t.pool, L \cup ({t.code} \ {NoCode})) /\ t.code \in Ranges
        /\ t.code \notin L
        /\ t.code # NoCode => t.code.lo = c.pool.top
    <3>1. Blocks(c.pool, L) /\ 1 \in Nat /\ FALSE \in BOOLEAN
      BY <1>1
    <3> HIDE DEF L
    <3> QED BY <3>1, BlocksEmit
  <2>2. b = [pool |-> t.pool, code |-> c.code, thunk |-> t.code,
             ok |-> c.code # NoCode /\ t.code # NoCode]
    BY <1>3 DEF Build, BuildOn, WithThunk, Built, c
  <2> HIDE DEF t, b
  <2>3. L \cup ({t.code} \ {NoCode}) = live \cup ({c.code, t.code} \ {NoCode})
    OBVIOUS
  <2>4. c.code # NoCode => c.code # t.code
    BY <2>1
  <2>5. b.pool = t.pool /\ b.code = c.code /\ b.thunk = t.code /\ (b.ok => c.code # NoCode)
    BY <2>2
  <2>6. Blocks(b.pool, live \cup ({b.code, b.thunk} \ {NoCode}))
    <3> HIDE DEF L
    <3> QED BY <2>1, <2>3, <2>5
  <2>7. b.thunk \notin live
    BY <2>1, <2>5
  <2> HIDE DEF L
  <2> QED BY <1>1, <1>2, <1>3, <2>1, <2>4, <2>5, <2>6, <2>7 DEF b
<1>4. CASE ~thunks
  <2>1. b = [pool |-> c.pool, code |-> c.code, thunk |-> NoCode, ok |-> c.code # NoCode]
    BY <1>4 DEF Build, BuildOn, WithoutThunk, Built, c
  <2> HIDE DEF b
  <2>1a. b.pool = c.pool /\ b.code = c.code /\ b.thunk = NoCode /\ (b.ok => c.code # NoCode)
    BY <2>1
  <2>2. NoCode \in Ranges /\ NoCode \notin live
    BY PoolAssumption, BlockBelowTop DEF NoCode, Ranges
  <2>3. L = live \cup ({c.code, NoCode} \ {NoCode})
    OBVIOUS
  <2>4. Blocks(b.pool, live \cup ({b.code, b.thunk} \ {NoCode}))
    <3> HIDE DEF L
    <3> QED BY <1>1, <2>1a, <2>3
  <2> HIDE DEF L
  <2> QED BY <1>1, <1>4, <2>1a, <2>2, <2>4 DEF b
<1> QED BY <1>3, <1>4

\* What the cache holds after an entry is put in.
LEMMA CachePutFacts ==
    ASSUME NEW c, DOMAIN c \subseteq Texts, \A u \in DOMAIN c : c[u] \in Entries,
           NEW t \in Texts, NEW fn \in Ranges, NEW d \in CachePut(c, t, fn)
    PROVE  /\ DOMAIN d \subseteq Texts
           /\ \A u \in DOMAIN d :
                /\ d[u] \in Entries
                /\ d[u].fn = fn \/ (u \in DOMAIN c /\ d[u].fn = c[u].fn)
           /\ t \notin DOMAIN c \/ fn # NoCode =>
                \A u \in DOMAIN c : c[u].fn # NoCode => u \in DOMAIN d /\ d[u].fn # NoCode
<1> DEFINE P(g) ==
      /\ DOMAIN g \subseteq Texts
      /\ \A u \in DOMAIN g : g[u] \in Entries /\ u \in DOMAIN c /\ g[u] = c[u]
      /\ \A u \in DOMAIN c : c[u].fn # NoCode => u \in DOMAIN g
<1>1. P(c)
  OBVIOUS
<1>2. ASSUME NEW drop \in BOOLEAN PROVE P(Rehashed(c, drop))
  BY DEF Rehashed
<1>3. CASE t \in DOMAIN c
  <2>1. d = IF fn = NoCode THEN c ELSE [c EXCEPT ![t].fn = fn]
    BY <1>3 DEF CachePut
  <2>2. CASE fn = NoCode
    BY <1>3, <2>1, <2>2
  <2>3. CASE fn # NoCode
    <3> DEFINE x == [c[t] EXCEPT !.fn = fn]
    <3>1. c[t] \in Entries
      BY <1>3
    <3>2. x \in Entries /\ x.fn = fn
      BY <3>1 DEF Entries
    <3>3. d = [c EXCEPT ![t] = x]
      BY <2>1, <2>3
    <3> HIDE DEF x
    <3>4. DOMAIN d = DOMAIN c /\ \A u \in DOMAIN c : d[u] = IF u = t THEN x ELSE c[u]
      BY <3>3
    <3> QED BY <2>3, <3>2, <3>4
  <2> QED BY <2>2, <2>3
<1>4. CASE t \notin DOMAIN c
  <2> DEFINE new == [fn |-> fn, fresh |-> TRUE]
             With(g) == [u \in {t} \cup DOMAIN g |-> IF u = t THEN new ELSE g[u]]
  <2>1. d = c \/ \E g \in {c, Rehashed(c, FALSE), Rehashed(c, TRUE)} : d = With(g)
    BY <1>4 DEF CachePut
  <2>2. new \in Entries /\ new.fn = fn
    BY DEF Entries
  <2> HIDE DEF new
  <2>3. CASE d = c
    BY <2>3
  <2>4. CASE \E g \in {c, Rehashed(c, FALSE), Rehashed(c, TRUE)} : d = With(g)
    <3>0. P(c) /\ P(Rehashed(c, FALSE)) /\ P(Rehashed(c, TRUE))
      BY <1>1, <1>2
    <3>1. PICK g : P(g) /\ d = With(g)
      <4> HIDE DEF P, With
      <4> QED BY <2>4, <3>0
    <3>2. DOMAIN d = {t} \cup DOMAIN g
          /\ \A u \in DOMAIN d : d[u] = IF u = t THEN new ELSE g[u]
      BY <3>1
    <3>3. \A u \in DOMAIN c : u # t
      BY <1>4
    <3> QED BY <2>2, <3>1, <3>2, <3>3
  <2> QED BY <2>1, <2>3, <2>4
<1> QED BY <1>3, <1>4
-----------------------------------------------------------------------------
(* The invariant. *)

LEMMA FramesTyped ==
    ASSUME TypeOK
    PROVE  /\ Len(frames) \in Nat /\ DOMAIN frames = 1..Len(frames)
           /\ \A i \in 1..Len(frames) : frames[i] \in Frames
<1>1. frames \in Seq(Frames)
  BY DEF TypeOK
<1> QED BY <1>1, ElementOfSeq

\* Cutting the stack of open EVALs.
LEMMA CutFacts ==
    ASSUME TypeOK, NEW n \in 0..Len(frames)
    PROVE  /\ SubSeq(frames, 1, n) \in Seq(Frames)
           /\ DOMAIN SubSeq(frames, 1, n) = 1..n
           /\ 1..n \subseteq DOMAIN frames
           /\ \A i \in 1..n : SubSeq(frames, 1, n)[i] = frames[i]
<1>1. Len(frames) \in Nat /\ frames \in Seq(Frames) /\ n \in Nat
      /\ DOMAIN frames = 1..Len(frames)
  BY FramesTyped DEF TypeOK
<1>2. \A j \in 1..n : j \in 1..Len(frames) /\ frames[j] \in Frames
  BY <1>1, FramesTyped
<1> DEFINE s == SubSeq(frames, 1, n)
<1>3. /\ s \in Seq(Frames)
      /\ Len(s) = IF 1 <= n THEN n - 1 + 1 ELSE 0
      /\ \A i \in 1..(n - 1 + 1) : s[i] = frames[1 + i - 1]
  BY <1>1, <1>2, SubSeqProperties
<1> HIDE DEF s
<1>4. Len(s) = n /\ DOMAIN s = 1..Len(s)
  BY <1>1, <1>3
<1>5. \A i \in 1..n : 1 + i - 1 = i /\ i \in 1..(n - 1 + 1)
  BY <1>1
<1> QED BY <1>1, <1>2, <1>3, <1>4, <1>5 DEF s

\* Opening one more.
LEMMA PushFacts ==
    ASSUME TypeOK, NEW f \in Frames
    PROVE  /\ Append(frames, f) \in Seq(Frames)
           /\ DOMAIN Append(frames, f) = DOMAIN frames \cup {Len(frames) + 1}
           /\ Len(frames) + 1 \notin DOMAIN frames
           /\ \A i \in DOMAIN frames : Append(frames, f)[i] = frames[i]
           /\ Append(frames, f)[Len(frames) + 1] = f
<1>1. Len(frames) \in Nat /\ frames \in Seq(Frames) /\ DOMAIN frames = 1..Len(frames)
  BY FramesTyped DEF TypeOK
<1> DEFINE s == Append(frames, f)
<1>2. /\ s \in Seq(Frames) /\ Len(s) = Len(frames) + 1
      /\ \A i \in 1..Len(frames) : s[i] = frames[i]
      /\ s[Len(frames) + 1] = f
  BY <1>1, AppendProperties
<1> HIDE DEF s
<1>3. DOMAIN s = 1..(Len(frames) + 1)
  BY <1>2
<1>4. 1..(Len(frames) + 1) = 1..Len(frames) \cup {Len(frames) + 1}
      /\ Len(frames) + 1 \notin 1..Len(frames)
  BY <1>1
<1> QED BY <1>1, <1>2, <1>3, <1>4 DEF s

\* The cache after a landing.
LEMMA CachedAfterPut ==
    ASSUME TypeOK, NEW t \in Texts, NEW fn \in Ranges, cache' \in CachePut(cache, t, fn)
    PROVE  /\ DOMAIN cache' \subseteq Texts
           /\ \A u \in DOMAIN cache' : cache'[u] \in Entries
           /\ CachedCode' \subseteq CachedCode \cup ({fn} \ {NoCode})
<1>1. DOMAIN cache \subseteq Texts /\ \A u \in DOMAIN cache : cache[u] \in Entries
  BY DEF TypeOK
<1>2. /\ DOMAIN cache' \subseteq Texts
      /\ \A u \in DOMAIN cache' :
           /\ cache'[u] \in Entries
           /\ cache'[u].fn = fn \/ (u \in DOMAIN cache /\ cache'[u].fn = cache[u].fn)
  BY <1>1, CachePutFacts
<1> QED BY <1>2 DEF CachedCode

LEMMA InitInv == Init => EvalInv
<1> SUFFICES ASSUME Init PROVE EvalInv
  OBVIOUS
<1> USE PoolAssumption DEF Init
<1>1. EmptyPool \in Pools
  <2>1. [x \in Pages |-> "rw"] \in [Pages -> Protections]
    BY DEF Protections
  <2>2. << >> \in Seq(Ranges) /\ 0 \in 0..Limit
    OBVIOUS
  <2> QED BY <2>1, <2>2 DEF EmptyPool, Pools
<1>2. /\ EmptyPool.top = 0 /\ EmptyPool.holes = << >> /\ EmptyPool.bombed = FALSE
  BY DEF EmptyPool
<1>3. InOrder(<< >>, 0)
  BY DEF InOrder
<1>4. Taken(EmptyPool) = {}
  BY <1>2 DEF Taken, Pages
<1>5. Blocks(pool, live)
  BY <1>1, <1>2, <1>3, <1>4 DEF Blocks, PoolOk
<1>6. DOMAIN frames = {} /\ DOMAIN cache = {} /\ frames \in Seq(Frames)
  OBVIOUS
<1>7. TypeOK
  BY <1>1, <1>6 DEF TypeOK
<1>8. FrameCode = {} /\ CachedCode = {}
  BY <1>6 DEF FrameCode, CachedCode
<1> QED BY <1>5, <1>6, <1>7, <1>8 DEF EvalInv, WantedIsLive, Wanted, FramesOwn, FragsOwn

\* Once the pool, the frames and the cache are shown to be right the types
\* of the rest follow.
LEMMA TypedAgain ==
    ASSUME Blocks(pool', live'), frames' \in Seq(Frames), DOMAIN cache' \subseteq Texts,
           \A u \in DOMAIN cache' : cache'[u] \in Entries, WantedIsLive'
    PROVE  TypeOK'
<1>1. pool' \in Pools /\ live' \subseteq Ranges
  BY DEF Blocks, PoolOk
<1>2. held' \subseteq live' /\ frags' \subseteq live'
  BY DEF WantedIsLive, Wanted
<1> QED BY <1>1, <1>2 DEF TypeOK

LEMMA OpenCachedInv ==
    ASSUME EvalInv, NEW t \in Texts, OpenCached(t)
    PROVE  EvalInv'
<1> DEFINE f == [key |-> t, fn |-> cache[t].fn, mark |-> 0, built |-> 0,
                 made |-> FALSE, keep |-> FALSE, thunks |-> FALSE]
<1>0. TypeOK /\ Blocks(pool, live) /\ WantedIsLive /\ FramesOwn /\ FragsOwn
  BY DEF EvalInv
<1>1. t \in DOMAIN cache /\ cache[t].fn # NoCode /\ cache[t] \in Entries
  BY <1>0 DEF OpenCached, Cached, TypeOK
<1>2. f \in Frames
  <2>1. cache[t].fn \in Ranges /\ 0 \in 0..Limit
    BY <1>1, PoolAssumption DEF Entries
  <2> QED BY <2>1 DEF Frames
<1>3. frames' = Append(frames, f) /\ UNCHANGED <<pool, live, cache, held, frags>>
  BY DEF OpenCached
<1>4. f.fn \in CachedCode /\ f.made = FALSE
  BY <1>1 DEF CachedCode
<1> HIDE DEF f
<1>5. /\ frames' \in Seq(Frames)
      /\ DOMAIN frames' = DOMAIN frames \cup {Len(frames) + 1}
      /\ Len(frames) + 1 \notin DOMAIN frames
      /\ \A i \in DOMAIN frames : frames'[i] = frames[i]
      /\ frames'[Len(frames) + 1] = f
  BY <1>0, <1>2, <1>3, PushFacts
<1>6. FrameCode' = FrameCode \cup {f.fn} /\ CachedCode' = CachedCode
  BY <1>3, <1>5 DEF FrameCode, CachedCode
<1>7. WantedIsLive'
  BY <1>0, <1>3, <1>4, <1>6 DEF WantedIsLive, Wanted
<1>8. FramesOwn'
  BY <1>0, <1>3, <1>4, <1>5, <1>6 DEF FramesOwn
<1>9. FragsOwn'
  BY <1>0, <1>3, <1>4, <1>6 DEF FragsOwn
<1>10. TypeOK'
  BY <1>0, <1>3, <1>5, <1>7, TypedAgain DEF TypeOK
<1> QED BY <1>0, <1>3, <1>7, <1>8, <1>9, <1>10 DEF EvalInv

LEMMA OpenBuiltInv ==
    ASSUME EvalInv, KeepsAll, NEW t \in Texts, NEW n \in 0..MaxChain,
           NEW thunks \in BOOLEAN, OpenBuilt(t, n, thunks)
    PROVE  EvalInv'
<1> DEFINE b == Build(n, thunks)
           f == [key |-> t, fn |-> b.code, mark |-> pool.top, built |-> b.pool.top,
                 made |-> TRUE, keep |-> pool.top < Retain, thunks |-> thunks]
<1>0. TypeOK /\ Blocks(pool, live) /\ WantedIsLive /\ FramesOwn /\ FragsOwn
      /\ n \in Nat
  BY EvalAssumption DEF EvalInv
<1>1. /\ b.ok /\ pool' = b.pool
      /\ live' = live \cup ({b.code, b.thunk} \ {NoCode})
      /\ held' = held \cup ({b.thunk} \ {NoCode})
      /\ frames' = Append(frames, f)
      /\ UNCHANGED <<cache, frags>>
  BY DEF OpenBuilt
<1>2. /\ Blocks(b.pool, live \cup ({b.code, b.thunk} \ {NoCode}))
      /\ b.code \in Ranges /\ b.code \notin live /\ b.thunk \notin live
      /\ b.code # NoCode /\ b.code.lo = pool.top /\ b.code # b.thunk
      /\ ~thunks => b.pool.top = b.code.hi
  BY <1>0, <1>1, BuildFacts
<1> HIDE DEF b
<1>3. f \in Frames
  <2>1. pool.top \in 0..Limit
    BY <1>0, PoolTyped DEF Blocks
  <2>2. b.pool.top \in 0..Limit
    BY <1>2, PoolTyped DEF Blocks
  <2> QED BY <1>2, <2>1, <2>2 DEF Frames
<1>4. /\ f.keep /\ f.fn = b.code /\ f.fn.lo = f.mark
      /\ ~f.thunks => f.built = f.fn.hi
  <2>1. pool.top < Retain
    BY <1>0, PoolTyped, EvalAssumption DEF KeepsAll, Blocks
  <2> QED BY <1>2, <2>1
<1> HIDE DEF f
<1>5. /\ frames' \in Seq(Frames)
      /\ DOMAIN frames' = DOMAIN frames \cup {Len(frames) + 1}
      /\ Len(frames) + 1 \notin DOMAIN frames
      /\ \A i \in DOMAIN frames : frames'[i] = frames[i]
      /\ frames'[Len(frames) + 1] = f
  BY <1>0, <1>1, <1>3, PushFacts
<1>6. FrameCode' = FrameCode \cup {b.code} /\ CachedCode' = CachedCode
  BY <1>1, <1>4, <1>5 DEF FrameCode, CachedCode
<1>7. /\ FrameCode \subseteq live /\ CachedCode \subseteq live
      /\ held \subseteq live /\ frags \subseteq live
  BY <1>0 DEF WantedIsLive, Wanted
<1>8. WantedIsLive'
  BY <1>1, <1>2, <1>6, <1>7 DEF WantedIsLive, Wanted
<1>9. FramesOwn'
  <2>1. \A i \in DOMAIN frames : frames[i].fn \in live /\ frames[i].fn # b.code
                                   /\ frames[i].fn # b.thunk
    BY <1>2, <1>7 DEF FrameCode
  <2>2. b.code \notin CachedCode' \cup held' \cup frags'
    BY <1>1, <1>2, <1>6, <1>7
  <2>3. ASSUME NEW i \in DOMAIN frames, frames[i].made
        PROVE  /\ frames[i].keep /\ frames[i].fn.lo = frames[i].mark
               /\ ~frames[i].thunks => frames[i].built = frames[i].fn.hi
               /\ frames[i].fn \notin CachedCode' \cup held' \cup frags'
               /\ \A j \in DOMAIN frames' : j # i => frames'[j].fn # frames[i].fn
    <3>1. /\ frames[i].keep /\ frames[i].fn.lo = frames[i].mark
          /\ ~frames[i].thunks => frames[i].built = frames[i].fn.hi
          /\ frames[i].fn \notin CachedCode \cup held \cup frags
          /\ \A j \in DOMAIN frames : j # i => frames[j].fn # frames[i].fn
      BY <1>0, <2>3 DEF FramesOwn
    <3>2. frames[i].fn \notin CachedCode' \cup held' \cup frags'
      BY <1>1, <1>6, <2>1, <3>1
    <3>3. \A j \in DOMAIN frames' : j # i => frames'[j].fn # frames[i].fn
      BY <1>4, <1>5, <2>1, <3>1
    <3> QED BY <3>1, <3>2, <3>3
  <2>4. \A j \in DOMAIN frames' : j # Len(frames) + 1 => frames'[j].fn # b.code
    BY <1>5, <2>1
  <2> QED BY <1>4, <1>5, <2>2, <2>3, <2>4 DEF FramesOwn
<1>10. FragsOwn'
  BY <1>0, <1>1, <1>2, <1>6, <1>7 DEF FragsOwn
<1>11. TypeOK'
  BY <1>0, <1>1, <1>2, <1>5, <1>8, TypedAgain DEF TypeOK
<1> QED BY <1>1, <1>2, <1>8, <1>9, <1>10, <1>11 DEF EvalInv

LEMMA OpenFailsInv ==
    ASSUME EvalInv, NEW t \in Texts, NEW n \in 0..MaxChain,
           NEW thunks \in BOOLEAN, OpenFails(t, n, thunks)
    PROVE  EvalInv'
<1> DEFINE b == Build(n, thunks)
           L == live \cup ({b.code, b.thunk} \ {NoCode})
<1>0. TypeOK /\ Blocks(pool, live) /\ WantedIsLive /\ FramesOwn /\ FragsOwn
      /\ n \in Nat
  BY EvalAssumption DEF EvalInv
<1>1. /\ pool' = Release(b.pool, pool.top)
      /\ UNCHANGED <<live, frames, cache, held, frags>>
  BY DEF OpenFails
<1>2. /\ Blocks(b.pool, L)
      /\ b.code # NoCode => b.code.lo = pool.top
      /\ b.thunk # NoCode => b.thunk.lo >= pool.top
  BY <1>0, BuildFacts
<1> HIDE DEF b
<1>3. pool.top \in 0..Limit /\ pool.top \in Int
  BY <1>0, PoolTyped DEF Blocks
<1>4. \A x \in live : x.hi <= pool.top
  BY <1>0, BlockBelowTop
<1>5. \A x \in L : x \notin live => pool.top <= x.lo
  BY <1>2, <1>3
<1> HIDE DEF L
<1>6. \A x \in L : x.lo \in Int /\ x.hi \in Int /\ x.lo < x.hi
  BY <1>2, BlockBelowTop
<1>7. Blocks(Release(b.pool, pool.top), {x \in L : x.hi <= pool.top})
  BY <1>2, <1>3, <1>4, <1>5, BlocksRelease
<1>8. {x \in L : x.hi <= pool.top} = live
  <2>1. live \subseteq L
    BY DEF L
  <2> QED BY <1>3, <1>4, <1>5, <1>6, <2>1
<1>9. Blocks(pool', live')
  BY <1>1, <1>7, <1>8
<1>10. FrameCode' = FrameCode /\ CachedCode' = CachedCode /\ Wanted' = Wanted
  BY <1>1 DEF FrameCode, CachedCode, Wanted
<1>11. WantedIsLive' /\ FramesOwn' /\ FragsOwn'
  BY <1>0, <1>1, <1>10 DEF WantedIsLive, FramesOwn, FragsOwn
<1>12. TypeOK'
  BY <1>0, <1>1, <1>9, <1>11, TypedAgain DEF TypeOK
<1> QED BY <1>9, <1>11, <1>12 DEF EvalInv

\* Giving the code of the innermost EVAL back takes that block and no other.
LEMMA SeenOnceDropsItsOwn ==
    ASSUME EvalInv, NEW f \in Frames, f.fn \in live, f.fn.lo = f.mark,
           pool.top = f.fn.hi
    PROVE  /\ Blocks(Release(pool, f.mark), LiveBelow(live, f.mark))
           /\ LiveBelow(live, f.mark) = live \ {f.fn}
<1>0. Blocks(pool, live) /\ f.mark \in 0..Limit /\ f.mark \in Int
  BY PoolAssumption DEF EvalInv, Frames
<1>1. \A b \in live : b \in Ranges /\ b.lo \in Int /\ b.hi \in Int /\ b.lo < b.hi
                        /\ b.hi <= pool.top
  BY <1>0, BlockBelowTop
<1>2. \A b \in live : b # f.fn => b.hi <= f.mark
  <2> SUFFICES ASSUME NEW b \in live, b # f.fn, ~(b.hi <= f.mark) PROVE FALSE
    BY <1>0, <1>1
  <2>1. b.hi - 1 \in PagesOf(b)
    BY <1>1, FirstPage
  <2>2. f.mark <= b.hi - 1 /\ b.hi - 1 < f.fn.hi
    BY <1>0, <1>1
  <2>3. b.hi - 1 \in PagesOf(f.fn)
    BY <2>1, <2>2 DEF PagesOf
  <2> QED BY <1>0, <2>1, <2>3 DEF Blocks
<1>3. \A b \in live : b.hi <= f.mark \/ f.mark <= b.lo
  BY <1>0, <1>2
<1>4. ~(f.fn.hi <= f.mark)
  BY <1>0, <1>1
<1>5. {b \in live : b.hi <= f.mark} = live \ {f.fn}
  BY <1>2, <1>4
<1>6. LiveBelow(live, f.mark) = {b \in live : b.hi <= f.mark}
  BY <1>0, LiveBelowFacts
<1>7. Blocks(Release(pool, f.mark), {b \in live : b.hi <= f.mark})
  BY <1>0, <1>3, BlocksRelease
<1> QED BY <1>5, <1>6, <1>7

LEMMA LandInv ==
    ASSUME EvalInv, NEW plain \in BOOLEAN, Land(plain)
    PROVE  EvalInv'
<1> DEFINE N == Len(frames)
           f == Top(frames)
<1>0. TypeOK /\ Blocks(pool, live) /\ WantedIsLive /\ FramesOwn /\ FragsOwn
  BY DEF EvalInv
<1>1. /\ frames # << >> /\ Settle(f, plain) /\ frames' = SubSeq(frames, 1, N - 1)
      /\ held' = (IF plain THEN held ELSE held \cup {f.fn})
      /\ UNCHANGED frags
  BY DEF Land, Pop
<1>2. N \in Nat /\ DOMAIN frames = 1..N /\ \A i \in 1..N : frames[i] \in Frames
  BY <1>0, FramesTyped
<1>3. N \in 1..N /\ N - 1 \in 0..N /\ f = frames[N]
  <2>1. N # 0
    BY <1>0, <1>1 DEF TypeOK
  <2> QED BY <1>2, <2>1 DEF Top
<1> HIDE DEF N, f
<1>4. /\ frames' \in Seq(Frames) /\ DOMAIN frames' = 1..(N - 1)
      /\ \A i \in 1..(N - 1) : i \in DOMAIN frames /\ i # N /\ frames'[i] = frames[i]
  <2>1. /\ SubSeq(frames, 1, N - 1) \in Seq(Frames)
        /\ DOMAIN SubSeq(frames, 1, N - 1) = 1..(N - 1)
        /\ 1..(N - 1) \subseteq DOMAIN frames
        /\ \A i \in 1..(N - 1) : SubSeq(frames, 1, N - 1)[i] = frames[i]
    BY <1>0, <1>3, CutFacts DEF N
  <2> QED BY <1>1, <1>2, <2>1
<1>5. f \in Frames /\ f.key \in Texts /\ f.fn \in Ranges /\ f.fn \in FrameCode
  BY <1>2, <1>3 DEF Frames, FrameCode
<1>6. /\ FrameCode \subseteq live /\ CachedCode \subseteq live
      /\ held \subseteq live /\ frags \subseteq live
  BY <1>0 DEF WantedIsLive, Wanted
<1>7. FrameCode' \subseteq FrameCode
  BY <1>4 DEF FrameCode
<1>8. f.made => /\ f.keep /\ f.fn.lo = f.mark
                /\ ~f.thunks => f.built = f.fn.hi
                /\ f.fn \notin CachedCode \cup held \cup frags
                /\ f.fn \notin FrameCode'
  <2>1. f.made => /\ f.keep /\ f.fn.lo = f.mark
                  /\ ~f.thunks => f.built = f.fn.hi
                  /\ f.fn \notin CachedCode \cup held \cup frags
                  /\ \A j \in DOMAIN frames : j # N => frames[j].fn # f.fn
    BY <1>0, <1>2, <1>3 DEF FramesOwn
  <2> QED BY <1>4, <2>1 DEF FrameCode
\* Whatever the landing does to the cache, it adds only the code of the EVAL.
<1>9. ASSUME CachedCode' \subseteq CachedCode \cup {f.fn}
      PROVE  FramesOwn' /\ FragsOwn'
  <2>1. ASSUME NEW i \in 1..(N - 1), frames[i].made
        PROVE  /\ frames[i].keep /\ frames[i].fn.lo = frames[i].mark
               /\ ~frames[i].thunks => frames[i].built = frames[i].fn.hi
               /\ frames[i].fn \notin CachedCode' \cup held' \cup frags'
               /\ \A j \in 1..(N - 1) : j # i => frames[j].fn # frames[i].fn
    <3>1. /\ frames[i].keep /\ frames[i].fn.lo = frames[i].mark
          /\ ~frames[i].thunks => frames[i].built = frames[i].fn.hi
          /\ frames[i].fn \notin CachedCode \cup held \cup frags
          /\ \A j \in DOMAIN frames : j # i => frames[j].fn # frames[i].fn
      BY <1>0, <1>4, <2>1 DEF FramesOwn
    <3>2. f.fn # frames[i].fn
      BY <1>2, <1>3, <1>4, <3>1
    <3> QED BY <1>1, <1>4, <1>9, <3>1, <3>2
  <2>2. FramesOwn'
    BY <1>4, <2>1 DEF FramesOwn
  <2>3. FragsOwn'
    BY <1>0, <1>1, <1>5, <1>7, <1>9 DEF FragsOwn
  <2> QED BY <2>2, <2>3
<1>10. CASE ~f.made
  <2>1. UNCHANGED <<pool, live, cache>>
    BY <1>1, <1>10 DEF Settle
  <2>2. CachedCode' = CachedCode
    BY <2>1 DEF CachedCode
  <2>3. WantedIsLive'
    BY <1>1, <1>5, <1>6, <1>7, <2>1, <2>2 DEF WantedIsLive, Wanted
  <2>4. TypeOK'
    BY <1>0, <1>4, <2>1, <2>3, TypedAgain DEF TypeOK
  <2> QED BY <1>0, <1>9, <2>1, <2>2, <2>3, <2>4 DEF EvalInv
<1>11. CASE f.made /\ SeenOnce(f, plain)
  <2>1. /\ cache' \in CachePut(cache, f.key, NoCode)
        /\ pool' = Release(pool, f.mark)
        /\ live' = LiveBelow(live, f.mark)
    BY <1>1, <1>8, <1>11 DEF Settle
  <2>2. ~f.thunks /\ pool.top = f.built /\ plain
    BY <1>11 DEF SeenOnce
  <2>3. Blocks(pool', live') /\ live' = live \ {f.fn}
    <3>1. f.fn \in live /\ f.fn.lo = f.mark /\ pool.top = f.fn.hi
      BY <1>5, <1>6, <1>8, <1>11, <2>2
    <3> QED BY <1>5, <2>1, <3>1, SeenOnceDropsItsOwn
  <2>4. NoCode \in Ranges
    BY PoolAssumption DEF NoCode, Ranges
  <2>5. /\ DOMAIN cache' \subseteq Texts
        /\ \A u \in DOMAIN cache' : cache'[u] \in Entries
        /\ CachedCode' \subseteq CachedCode
    BY <1>0, <1>5, <2>1, <2>4, CachedAfterPut
  <2>6. held' = held
    BY <1>1, <2>2
  <2>7. WantedIsLive'
    <3>1. /\ FrameCode' \subseteq live' /\ CachedCode' \subseteq live'
          /\ held' \subseteq live' /\ frags' \subseteq live'
      BY <1>1, <1>6, <1>7, <1>8, <1>11, <2>3, <2>5, <2>6
    <3> QED BY <3>1 DEF WantedIsLive, Wanted
  <2>8. TypeOK'
    BY <1>4, <2>3, <2>5, <2>7, TypedAgain
  <2> QED BY <1>9, <2>3, <2>5, <2>7, <2>8 DEF EvalInv
<1>12. CASE f.made /\ ~SeenOnce(f, plain)
  <2>1. cache' \in CachePut(cache, f.key, f.fn) /\ UNCHANGED <<pool, live>>
    BY <1>1, <1>8, <1>12 DEF Settle
  <2>2. /\ DOMAIN cache' \subseteq Texts
        /\ \A u \in DOMAIN cache' : cache'[u] \in Entries
        /\ CachedCode' \subseteq CachedCode \cup {f.fn}
    BY <1>0, <1>5, <2>1, CachedAfterPut
  <2>3. WantedIsLive'
    <3>1. /\ FrameCode' \subseteq live /\ CachedCode' \subseteq live
          /\ held' \subseteq live /\ frags' \subseteq live
      BY <1>1, <1>5, <1>6, <1>7, <2>2
    <3> QED BY <2>1, <3>1 DEF WantedIsLive, Wanted
  <2>4. TypeOK'
    BY <1>0, <1>4, <2>1, <2>2, <2>3, TypedAgain
  <2> QED BY <1>0, <1>9, <2>1, <2>2, <2>3, <2>4 DEF EvalInv
<1> QED BY <1>10, <1>11, <1>12

LEMMA UnwindInv ==
    ASSUME EvalInv, NEW n \in 0..(MaxFrames - 1), Unwind(n)
    PROVE  EvalInv'
<1>0. TypeOK /\ Blocks(pool, live) /\ WantedIsLive /\ FramesOwn /\ FragsOwn
  BY DEF EvalInv
<1>1. /\ frames' = SubSeq(frames, 1, n) /\ n \in 0..Len(frames)
      /\ UNCHANGED <<pool, live, cache, held, frags>>
  BY <1>0, FramesTyped DEF Unwind
<1>2. /\ frames' \in Seq(Frames) /\ DOMAIN frames' = 1..n
      /\ \A i \in 1..n : i \in DOMAIN frames /\ frames'[i] = frames[i]
  BY <1>0, <1>1, CutFacts
<1>3. FrameCode' \subseteq FrameCode /\ CachedCode' = CachedCode
  BY <1>1, <1>2 DEF FrameCode, CachedCode
<1>4. WantedIsLive'
  BY <1>0, <1>1, <1>3 DEF WantedIsLive, Wanted
<1>5. FramesOwn'
  BY <1>0, <1>1, <1>2, <1>3 DEF FramesOwn
<1>6. FragsOwn'
  BY <1>0, <1>1, <1>3 DEF FragsOwn
<1>7. TypeOK'
  BY <1>0, <1>1, <1>2, <1>4, TypedAgain DEF TypeOK
<1> QED BY <1>0, <1>1, <1>4, <1>5, <1>6, <1>7 DEF EvalInv

\* Code compiled with the open EVALs and the cache left alone is nobody's.
LEMMA NewCodeInv ==
    ASSUME EvalInv, NEW c \in Ranges, c \notin live,
           Blocks(pool', live'), live' = live \cup ({c} \ {NoCode}),
           held' \subseteq held \cup ({c} \ {NoCode}),
           frags' \subseteq frags \cup ({c} \ {NoCode}),
           held' = held \/ frags' = frags,
           UNCHANGED <<frames, cache>>
    PROVE  EvalInv'
<1>0. TypeOK /\ Blocks(pool, live) /\ WantedIsLive /\ FramesOwn /\ FragsOwn
  BY DEF EvalInv
<1>1. FrameCode' = FrameCode /\ CachedCode' = CachedCode
  BY DEF FrameCode, CachedCode
<1>2. /\ FrameCode \subseteq live /\ CachedCode \subseteq live
      /\ held \subseteq live /\ frags \subseteq live
  BY <1>0 DEF WantedIsLive, Wanted
<1>3. WantedIsLive'
  BY <1>1, <1>2 DEF WantedIsLive, Wanted
<1>4. FramesOwn'
  <2>1. \A i \in DOMAIN frames : frames[i].fn # c
    BY <1>2 DEF FrameCode
  <2> QED BY <1>0, <1>1, <2>1 DEF FramesOwn
<1>5. FragsOwn'
  BY <1>0, <1>1, <1>2 DEF FragsOwn
<1>6. TypeOK'
  BY <1>0, <1>3, TypedAgain DEF TypeOK
<1> QED BY <1>3, <1>4, <1>5, <1>6 DEF EvalInv

LEMMA ReclaimOneInv ==
    ASSUME EvalInv, NEW f \in frags, ReclaimOne(f)
    PROVE  EvalInv'
<1>0. TypeOK /\ Blocks(pool, live) /\ WantedIsLive /\ FramesOwn /\ FragsOwn
  BY DEF EvalInv
<1>1. /\ pool' = Reclaim(Protect(pool, f.lo, f.hi, "none"), f.lo, f.hi)
      /\ live' = live \ {f} /\ frags' = frags \ {f}
      /\ UNCHANGED <<frames, cache, held>>
  BY DEF ReclaimOne
<1>2. FrameCode' = FrameCode /\ CachedCode' = CachedCode
  BY <1>1 DEF FrameCode, CachedCode
<1>3. /\ FrameCode \subseteq live /\ CachedCode \subseteq live
      /\ held \subseteq live /\ frags \subseteq live
  BY <1>0 DEF WantedIsLive, Wanted
<1>4. Blocks(pool', live')
  BY <1>0, <1>1, <1>3, BlocksReclaim
<1>5. WantedIsLive'
  BY <1>0, <1>1, <1>2, <1>3 DEF WantedIsLive, Wanted, FragsOwn
<1>6. FramesOwn'
  BY <1>0, <1>1, <1>2 DEF FramesOwn
<1>7. FragsOwn'
  BY <1>0, <1>1, <1>2 DEF FragsOwn
<1>8. TypeOK'
  BY <1>0, <1>1, <1>4, <1>5, TypedAgain DEF TypeOK
<1> QED BY <1>4, <1>5, <1>6, <1>7, <1>8 DEF EvalInv

LEMMA CollectInv ==
    ASSUME EvalInv, Collect
    PROVE  EvalInv'
<1>0. TypeOK /\ Blocks(pool, live) /\ WantedIsLive /\ FramesOwn /\ FragsOwn
  BY DEF EvalInv
<1>1. /\ cache' = [t \in DOMAIN cache |-> [cache[t] EXCEPT !.fresh = FALSE]]
      /\ UNCHANGED <<pool, live, frames, held, frags>>
  BY DEF Collect
<1>2. /\ DOMAIN cache' = DOMAIN cache
      /\ \A t \in DOMAIN cache : cache'[t] \in Entries /\ cache'[t].fn = cache[t].fn
  BY <1>0, <1>1 DEF TypeOK, Entries
<1>3. FrameCode' = FrameCode /\ CachedCode' = CachedCode
  BY <1>1, <1>2 DEF FrameCode, CachedCode
<1>4. WantedIsLive' /\ FramesOwn' /\ FragsOwn'
  BY <1>0, <1>1, <1>3 DEF WantedIsLive, Wanted, FramesOwn, FragsOwn
<1>5. TypeOK'
  BY <1>0, <1>1, <1>2, <1>4, TypedAgain DEF TypeOK
<1> QED BY <1>0, <1>1, <1>4, <1>5 DEF EvalInv

LEMMA StepInv ==
    ASSUME EvalInv, KeepsAll, [Next]_vars
    PROVE  EvalInv'
<1>0. Blocks(pool, live) /\ live \subseteq Ranges /\ MaxChain \in Nat
  BY EvalAssumption DEF EvalInv, Blocks
<1>1. CASE \E t \in Texts : Open(t)
  BY <1>1, OpenCachedInv, OpenBuiltInv, OpenFailsInv DEF Open
<1>2. CASE \E plain \in BOOLEAN : Land(plain)
  BY <1>2, LandInv
<1>3. CASE \E n \in 0..(MaxFrames - 1) : Unwind(n)
  BY <1>3, UnwindInv
<1>4. CASE \E n \in 1..MaxChain : Compile(n)
  <2>1. PICK n \in 1..MaxChain : Compile(n)
    BY <1>4
  <2> DEFINE e == EmitChain(pool, n, FALSE)
  <2>2. /\ Blocks(e.pool, live \cup ({e.code} \ {NoCode}))
        /\ e.code \in Ranges /\ e.code \notin live
    <3>1. n \in Nat /\ FALSE \in BOOLEAN
      BY <1>0
    <3> QED BY <1>0, <3>1, BlocksEmit
  <2>3. /\ e.code # NoCode /\ pool' = e.pool /\ live' = live \cup {e.code}
        /\ held' = held \cup {e.code} /\ UNCHANGED <<frames, cache, frags>>
    BY <2>1 DEF Compile
  <2> HIDE DEF e
  <2> QED BY <2>2, <2>3, NewCodeInv
<1>5. CASE \E n \in 0..MaxChain : Assertz(n)
  <2>1. PICK n \in 0..MaxChain : Assertz(n)
    BY <1>5
  <2> DEFINE e == EmitChain(pool, n, TRUE)
  <2>2. /\ Blocks(e.pool, live \cup ({e.code} \ {NoCode}))
        /\ e.code \in Ranges /\ e.code \notin live
    <3>1. n \in Nat /\ TRUE \in BOOLEAN
      BY <1>0
    <3> QED BY <1>0, <3>1, BlocksEmit
  <2>3. /\ pool' = e.pool /\ live' = live \cup ({e.code} \ {NoCode})
        /\ frags' = frags \cup ({e.code} \ {NoCode}) /\ UNCHANGED <<frames, cache, held>>
    BY <2>1 DEF Assertz
  <2> HIDE DEF e
  <2> QED BY <2>2, <2>3, NewCodeInv
<1>6. CASE \E f \in frags : ReclaimOne(f)
  BY <1>6, ReclaimOneInv
<1>7. CASE Collect
  BY <1>7, CollectInv
<1>8. CASE UNCHANGED vars
  <2> USE <1>8 DEF vars
  <2>1. FrameCode' = FrameCode /\ CachedCode' = CachedCode
    BY DEF FrameCode, CachedCode
  <2>2. TypeOK' <=> TypeOK
    BY DEF TypeOK
  <2> QED BY <2>1, <2>2 DEF EvalInv, WantedIsLive, Wanted, FramesOwn, FragsOwn
<1> QED BY <1>1, <1>2, <1>3, <1>4, <1>5, <1>6, <1>7, <1>8 DEF Next

(* The invariant holds of every behaviour of a program that keeps all code *)
(* (SCRIP_EVAL_RETAIN unset).                                              *)
THEOREM Invariance ==
    ASSUME KeepsAll
    PROVE  Spec => []EvalInv
<1>1. EvalInv /\ [Next]_vars => EvalInv'
  BY StepInv
<1> QED BY <1>1, InitInv, PTL DEF Spec

(* The state has its types (bb_pool.c, runtime_eval.c).                    *)
THEOREM TypeCorrect ==
    ASSUME KeepsAll
    PROVE  Spec => []TypeOK
<1>1. EvalInv => TypeOK
  BY DEF EvalInv
<1> QED BY <1>1, Invariance, PTL

(* What an open EVAL, the cache, a value or a clause can enter was not     *)
(* given back to the pool (eval_chain_settle).                             *)
THEOREM WantedCodeStays ==
    ASSUME KeepsAll
    PROVE  Spec => []WantedIsLive
<1>1. EvalInv => WantedIsLive
  BY DEF EvalInv
<1> QED BY <1>1, Invariance, PTL

(* No page belongs to two pieces of live code, nor to one and to a hole    *)
(* (bb_alloc, bb_alloc_hole, bb_pool_reclaim).                             *)
THEOREM LiveCodeIsApart ==
    ASSUME KeepsAll
    PROVE  Spec => []LiveApart
<1>1. EvalInv => LiveApart
  BY DEF EvalInv, Blocks, LiveApart
<1> QED BY <1>1, Invariance, PTL

(* Every page below the watermark is live code or can be had again         *)
(* (bb_pool_trim_last, hole_give_back).                                    *)
THEOREM NoPageIsLost ==
    ASSUME KeepsAll
    PROVE  Spec => []NothingLost
<1>1. EvalInv => NothingLost
  BY DEF EvalInv, Blocks, NothingLost
<1> QED BY <1>1, Invariance, PTL

(* The list of holes stays sorted and merged (hole_insert,                 *)
(* bb_pool_reclaim, hole_truncate).                                        *)
THEOREM HolesStayInOrder ==
    ASSUME KeepsAll
    PROVE  Spec => []HolesInOrder
<1>1. EvalInv => HolesInOrder
  BY DEF EvalInv, Blocks, PoolOk, HolesInOrder
<1> QED BY <1>1, Invariance, PTL

(* The abort() over an overlapping range is never reached                  *)
(* (bb_pool_reclaim).                                                      *)
THEOREM AbortIsNeverReached ==
    ASSUME KeepsAll
    PROVE  Spec => []NeverBombs
<1>1. EvalInv => NeverBombs
  BY DEF EvalInv, Blocks, PoolOk, NeverBombs
<1> QED BY <1>1, Invariance, PTL

(* A text the cache has code for keeps having code (eval_cache_put).       *)
THEOREM CacheRemembers ==
    ASSUME KeepsAll
    PROVE  Spec => CacheNeverForgets
<1>1. ASSUME EvalInv, [Next]_vars, NEW t \in Texts, Cached(t)
      PROVE  Cached(t)'
  <2>0. TypeOK /\ t \in DOMAIN cache /\ cache[t].fn # NoCode
    BY <1>1 DEF EvalInv, Cached
  <2>1. CASE UNCHANGED cache
    BY <2>0, <2>1 DEF Cached
  <2>2. ASSUME NEW plain \in BOOLEAN, Land(plain), ~(UNCHANGED cache)
        PROVE  Cached(t)'
    <3> DEFINE f == Top(frames)
    <3>1. frames # << >> /\ Settle(f, plain)
      BY <2>2 DEF Land
    <3>2. f \in Frames /\ f.fn \in FrameCode
      <4>1. Len(frames) \in 1..Len(frames)
        <5>1. Len(frames) # 0 /\ Len(frames) \in Nat
          BY <2>0, <3>1, FramesTyped DEF TypeOK
        <5> QED BY <5>1
      <4> QED BY <2>0, <4>1, FramesTyped DEF Top, FrameCode
    <3> HIDE DEF f
    <3>3. \/ f.key \notin DOMAIN cache /\ cache' \in CachePut(cache, f.key, NoCode)
          \/ cache' \in CachePut(cache, f.key, f.fn)
      BY <2>2, <3>1 DEF Settle, SeenOnce
    <3>4. f.fn # NoCode
      BY <1>1, <3>2, BlockBelowTop DEF EvalInv, WantedIsLive, Wanted
    <3>5. NoCode \in Ranges /\ f.fn \in Ranges /\ f.key \in Texts
      BY <3>2, PoolAssumption DEF NoCode, Ranges, Frames
    <3>6. DOMAIN cache \subseteq Texts /\ \A u \in DOMAIN cache : cache[u] \in Entries
      BY <2>0 DEF TypeOK
    <3>7. t \in DOMAIN cache' /\ cache'[t].fn # NoCode
      BY <2>0, <3>3, <3>4, <3>5, <3>6, CachePutFacts
    <3> QED BY <3>7 DEF Cached
  <2>3. CASE Collect
    <3>1. DOMAIN cache' = DOMAIN cache
          /\ \A u \in DOMAIN cache : cache'[u] = [cache[u] EXCEPT !.fresh = FALSE]
      BY <2>3 DEF Collect
    <3>2. cache[t] \in Entries
      BY <2>0 DEF TypeOK
    <3>3. cache'[t].fn = cache[t].fn
      BY <2>0, <3>1, <3>2 DEF Entries
    <3> QED BY <2>0, <3>1, <3>3 DEF Cached
  <2>4. UNCHANGED cache \/ (\E plain \in BOOLEAN : Land(plain)) \/ Collect
    BY <1>1 DEF Next, vars, Open, OpenCached, OpenBuilt, OpenFails, Unwind,
                Compile, Assertz, ReclaimOne
  <2> QED BY <2>1, <2>2, <2>3, <2>4
<1>2. EvalInv /\ [Next]_vars => [Remembers]_vars
  BY <1>1 DEF Remembers
<1> QED BY <1>2, Invariance, PTL DEF Spec, CacheNeverForgets
-----------------------------------------------------------------------------
(* The protection of the pages. *)

\* What compiling a text leaves of the protections.
LEMMA BuildGuarded ==
    ASSUME Blocks(pool, live), Guarded(pool, {}), NEW n \in Nat, NEW thunks \in BOOLEAN
    PROVE  Guarded(Build(n, thunks).pool, {})
<1> DEFINE c == EmitChain(pool, n, FALSE)
           t == EmitChain(c.pool, 1, FALSE)
           b == Build(n, thunks)
<1>0. FALSE \in BOOLEAN /\ 1 \in Nat
  OBVIOUS
<1>1. PoolOk(c.pool) /\ Guarded(c.pool, {})
  <2>1. Blocks(c.pool, live \cup ({c.code} \ {NoCode}))
    BY <1>0, BlocksEmit
  <2>2. Guarded(c.pool, {})
    BY <1>0, EmitKeepsGuard DEF Blocks
  <2> QED BY <2>1, <2>2 DEF Blocks
<1>2. b.pool = IF thunks THEN t.pool ELSE c.pool
  BY DEF Build, BuildOn, WithThunk, WithoutThunk, Built
<1> HIDE DEF c, b
<1>3. Guarded(t.pool, {})
  BY <1>0, <1>1, EmitKeepsGuard
<1> QED BY <1>1, <1>2, <1>3 DEF b

LEMMA GuardStep ==
    ASSUME EvalInv, Guarded(pool, {}), [Next]_vars
    PROVE  Guarded(pool', {})
<1>0. /\ Blocks(pool, live) /\ PoolOk(pool) /\ live \subseteq Ranges /\ MaxChain \in Nat
      /\ TypeOK /\ FALSE \in BOOLEAN /\ TRUE \in BOOLEAN
  BY EvalAssumption DEF EvalInv, Blocks
<1>1. ASSUME NEW t \in Texts, Open(t) PROVE Guarded(pool', {})
  <2>1. CASE OpenCached(t)
    BY <2>1 DEF OpenCached
  <2>2. ASSUME NEW n \in 0..MaxChain, NEW thunks \in BOOLEAN, OpenBuilt(t, n, thunks)
        PROVE  Guarded(pool', {})
    <3>1. n \in Nat /\ pool' = Build(n, thunks).pool
      BY <1>0, <2>2 DEF OpenBuilt
    <3> QED BY <1>0, <3>1, BuildGuarded
  <2>3. ASSUME NEW n \in 0..MaxChain, NEW thunks \in BOOLEAN, OpenFails(t, n, thunks)
        PROVE  Guarded(pool', {})
    <3> DEFINE b == Build(n, thunks)
    <3>1. n \in Nat /\ pool' = Release(b.pool, pool.top) /\ pool.top \in 0..Limit
      BY <1>0, <2>3, PoolTyped DEF OpenFails
    <3>2. PoolOk(b.pool) /\ Guarded(b.pool, {})
      BY <1>0, <3>1, BuildFacts, BuildGuarded DEF Blocks
    <3> HIDE DEF b
    <3> QED BY <3>1, <3>2, ReleaseGuarded
  <2> QED BY <1>1, <2>1, <2>2, <2>3 DEF Open
<1>2. ASSUME NEW plain \in BOOLEAN, Land(plain) PROVE Guarded(pool', {})
  <2>1. pool' = pool \/ pool' = Release(pool, Top(frames).mark)
    BY <1>2 DEF Land, Settle
  <2>2. Top(frames).mark \in 0..Limit
    <3>1. Len(frames) \in 1..Len(frames)
      <4>1. Len(frames) # 0 /\ Len(frames) \in Nat
        BY <1>0, <1>2, FramesTyped DEF Land, TypeOK
      <4> QED BY <4>1
    <3>2. Top(frames) \in Frames
      BY <1>0, <3>1, FramesTyped DEF Top
    <3> QED BY <3>2 DEF Frames
  <2> QED BY <1>0, <2>1, <2>2, ReleaseGuarded
<1>3. ASSUME NEW n \in 1..MaxChain, Compile(n) PROVE Guarded(pool', {})
  <2>1. n \in Nat /\ pool' = EmitChain(pool, n, FALSE).pool
    BY <1>0, <1>3 DEF Compile
  <2> QED BY <1>0, <2>1, EmitKeepsGuard
<1>4. ASSUME NEW n \in 0..MaxChain, Assertz(n) PROVE Guarded(pool', {})
  <2>1. n \in Nat /\ pool' = EmitChain(pool, n, TRUE).pool
    BY <1>0, <1>4 DEF Assertz
  <2> QED BY <1>0, <2>1, EmitKeepsGuard
<1>5. ASSUME NEW f \in frags, ReclaimOne(f) PROVE Guarded(pool', {})
  <2>1. f \in live /\ pool' = Reclaim(Protect(pool, f.lo, f.hi, "none"), f.lo, f.hi)
    BY <1>5 DEF ReclaimOne, EvalInv, WantedIsLive, Wanted
  <2>2. f \in Ranges /\ f.lo < f.hi /\ PagesOf(f) \subseteq Taken(pool)
    BY <1>0, <2>1 DEF Blocks
  <2> QED BY <1>0, <2>1, <2>2, ReclaimKeepsGuard
<1>6. CASE UNCHANGED pool
  BY <1>6
<1>7. \/ UNCHANGED pool
      \/ \E t \in Texts : Open(t)
      \/ \E plain \in BOOLEAN : Land(plain)
      \/ \E n \in 1..MaxChain : Compile(n)
      \/ \E n \in 0..MaxChain : Assertz(n)
      \/ \E f \in frags : ReclaimOne(f)
  BY DEF Next, vars, Unwind, Collect
<1> QED BY <1>1, <1>2, <1>3, <1>4, <1>5, <1>6, <1>7

(* Every page is protected to what it is: live code executable, a hole out *)
(* of bounds, the rest writable (the mprotect calls of bb_pool.c).         *)
THEOREM PagesStayProtected ==
    ASSUME KeepsAll
    PROVE  Spec => []PagesProtected
<1>1. Init => EvalInv /\ Guarded(pool, {})
  <2> SUFFICES ASSUME Init PROVE EvalInv /\ Guarded(pool, {})
    OBVIOUS
  <2>1. pool.top = 0 /\ pool.perm = [x \in Pages |-> "rw"]
    BY DEF Init, EmptyPool
  <2>2. EvalInv
    BY InitInv
  <2>3. \A x \in Pages : x \notin HolePages(pool) /\ x \notin Taken(pool)
    <3>1. PoolOk(pool) /\ \A x \in Pages : ~(x < 0)
      BY <2>2 DEF EvalInv, Blocks, Pages
    <3> QED BY <2>1, <3>1, PageKinds
  <2> QED BY <2>1, <2>2, <2>3 DEF Guarded
<1>2. EvalInv /\ Guarded(pool, {}) /\ [Next]_vars => EvalInv' /\ Guarded(pool, {})'
  BY StepInv, GuardStep
<1>3. EvalInv /\ Guarded(pool, {}) => PagesProtected
  <2> SUFFICES ASSUME EvalInv, Guarded(pool, {}) PROVE PagesProtected
    OBVIOUS
  <2>1. \A b \in live : PagesOf(b) \subseteq Taken(pool) /\ PagesOf(b) \subseteq Pages
    BY DEF EvalInv, Blocks, PagesOf
  <2>2. HolePages(pool) \subseteq Pages
    BY DEF HolePages, PagesOf
  <2> QED BY <2>1, <2>2 DEF Guarded, PagesProtected
<1> QED BY <1>1, <1>2, <1>3, PTL DEF Spec

(* pl_db_rc_hold finds a frame in a reclaimed fragment exactly when there  *)
(* is one: the pages bb_pool_addr_in_hole calls a hole are those of the    *)
(* holes.                                                                  *)
THEOREM HoleCheckIsExact ==
    ASSUME KeepsAll
    PROVE  Spec => []InHoleIsExact
<1>1. EvalInv => InHoleIsExact
  BY InHoleFindsHoles DEF EvalInv, Blocks, InHoleIsExact
<1> QED BY <1>1, Invariance, PTL
=============================================================================
