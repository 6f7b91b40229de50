------------------------------ MODULE EvalCode ------------------------------
(***************************************************************************)
(* EVAL over the code pool (runtime/runtime_eval.c on ir/bb_pool.c).       *)
(*                                                                         *)
(* EVAL of a text compiles the text into the pool, runs it and, when the   *)
(* run lands, either remembers the code in a cache or gives the pool back  *)
(* to the mark it took before compiling.  Between the mark and the landing *)
(* anything may happen: other EVALs, of the same text too, patterns and    *)
(* CODE compiled for good, Prolog clauses compiled into holes and          *)
(* reclaimed, an error that leaves the EVAL for good.  The pool is one     *)
(* stack with holes, so giving back to the mark is right only if nothing   *)
(* above the mark is still wanted.                                         *)
(***************************************************************************)
EXTENDS BbPool

CONSTANTS Texts,      \* the texts the program evaluates
          MaxFrames,  \* bound: EVALs open at once
          MaxChain,   \* bound: pages of one compiled chain
          FirstAdmit, \* entries of the cache from which a text must be seen twice
          Retain      \* SCRIP_EVAL_RETAIN: marks below it are kept (Limit + 1: all)

ASSUME EvalAssumption ==
    /\ MaxFrames \in Nat \ {0}
    /\ MaxChain \in Nat \ {0}
    /\ FirstAdmit \in Nat
    /\ Retain \in Nat

VARIABLES pool,    \* the code pool
          live,    \* history: the code handed out and neither released nor reclaimed
          frames,  \* the open EVALs, innermost last
          cache,   \* the texts the cache has an entry for, and the entry
          held,    \* code that values, labels or the procedure table reach
          frags    \* code of Prolog clauses, reclaimed once they are retracted

vars == <<pool, live, frames, cache, held, frags>>

\* An entry holds code, or only says that the text was seen (the code is
\* NoCode), and whether it was made since the last collection.
Entries == [fn : Ranges, fresh : BOOLEAN]

Frames == [key : Texts, fn : Ranges, mark : 0..Limit, built : 0..Limit,
           made : BOOLEAN, keep : BOOLEAN, thunks : BOOLEAN]

Init ==
    /\ pool = EmptyPool
    /\ live = {}
    /\ frames = << >>
    /\ cache = [t \in {} |-> NoCode]
    /\ held = {}
    /\ frags = {}

Cached(t) == t \in DOMAIN cache /\ cache[t].fn # NoCode

Top(s) == s[Len(s)]
Pop(s) == SubSeq(s, 1, Len(s) - 1)

\* The code that is still there once the pool is released to a mark.
LiveBelow(blocks, mark) ==
    IF mark > pool.top THEN blocks ELSE {b \in blocks : b.hi <= mark}
-----------------------------------------------------------------------------
(***************************************************************************)
(* Opening an EVAL.                                                        *)
(***************************************************************************)
Built(chain, thunk, ok) ==
    [pool |-> thunk.pool, code |-> chain.code, thunk |-> thunk.code,
     ok |-> chain.code # NoCode /\ ok]

WithThunk(chain, thunk) == Built(chain, thunk, thunk.code # NoCode)

WithoutThunk(chain) == Built(chain, [pool |-> chain.pool, code |-> NoCode], TRUE)

\* eval_build_chain: the chain of n pages, then, if the text has patterns or
\* deferred expressions, a thunk of one page.
BuildOn(chain, thunks) ==
    IF thunks THEN WithThunk(chain, EmitChain(chain.pool, 1, FALSE))
    ELSE WithoutThunk(chain)

Build(n, thunks) == BuildOn(EmitChain(pool, n, FALSE), thunks)

OpenCached(t) ==
    /\ Cached(t)
    /\ frames' = Append(frames,
         [key |-> t, fn |-> cache[t].fn, mark |-> 0, built |-> 0,
          made |-> FALSE, keep |-> FALSE, thunks |-> FALSE])
    /\ UNCHANGED <<pool, live, cache, held, frags>>

\* The text compiles and its record is set up.  Thunks are entered in the
\* procedure table under names only this chain knows.
OpenBuilt(t, n, thunks) ==
    /\ ~Cached(t)
    /\ \E b \in {Build(n, thunks)} :
        /\ b.ok
        /\ pool' = b.pool
        /\ live' = live \cup ({b.code, b.thunk} \ {NoCode})
        /\ held' = held \cup ({b.thunk} \ {NoCode})
        /\ frames' = Append(frames,
             [key |-> t, fn |-> b.code, mark |-> pool.top, built |-> b.pool.top,
              made |-> TRUE, keep |-> pool.top < Retain, thunks |-> thunks])
        /\ UNCHANGED <<cache, frags>>

\* It does not compile, or the record cannot be set up: back to the mark.
OpenFails(t, n, thunks) ==
    /\ ~Cached(t)
    /\ pool' = Release(Build(n, thunks).pool, pool.top)
    /\ UNCHANGED <<live, frames, cache, held, frags>>

Open(t) ==
    /\ Len(frames) < MaxFrames
    /\ \/ OpenCached(t)
       \/ \E n \in 0..MaxChain, thunks \in BOOLEAN :
            OpenBuilt(t, n, thunks) \/ OpenFails(t, n, thunks)
-----------------------------------------------------------------------------
(***************************************************************************)
(* Landing.                                                                *)
(***************************************************************************)
\* The next definition taking an entry's age for all there is to it.
RehashedByAge(c, drop) ==
    [t \in {u \in DOMAIN c : c[u].fresh /\ ~drop} |-> c[t]]

\* What a growing table keeps: the entries with code, and the texts seen
\* since the last collection unless they are too many.
Rehashed(c, drop) ==
    [t \in {u \in DOMAIN c : c[u].fn # NoCode \/ (c[u].fresh /\ ~drop)} |-> c[t]]

\* eval_cache_put.  The table grows now and then; it may be denied memory.
CachePut(c, t, fn) ==
    IF t \in DOMAIN c
    THEN {IF fn = NoCode THEN c ELSE [c EXCEPT ![t].fn = fn]}
    ELSE {c} \cup
         {[u \in {t} \cup DOMAIN d |->
             IF u = t THEN [fn |-> fn, fresh |-> TRUE] ELSE d[u]] :
            d \in {c, Rehashed(c, FALSE), Rehashed(c, TRUE)}}

\* The definition of SeenOnce without the test of the watermark.
SeenOnceAnyTop(f, plain) ==
    /\ ~f.thunks
    /\ plain
    /\ f.key \notin DOMAIN cache
    /\ Cardinality(DOMAIN cache) >= FirstAdmit

\* The next definition without the test of the thunks.
SeenOnceDespiteThunks(f, plain) ==
    /\ pool.top = f.built
    /\ plain
    /\ f.key \notin DOMAIN cache
    /\ Cardinality(DOMAIN cache) >= FirstAdmit

\* The first sight of a text whose code nobody can reach any more: it made
\* no thunks, nothing was compiled above it since, and its result is data.
SeenOnce(f, plain) ==
    /\ ~f.thunks
    /\ pool.top = f.built
    /\ plain
    /\ f.key \notin DOMAIN cache
    /\ Cardinality(DOMAIN cache) >= FirstAdmit

\* eval_chain_settle
Settle(f, plain) ==
    IF ~f.made THEN UNCHANGED <<pool, live, cache>>
    ELSE IF ~f.keep
    THEN /\ pool' = Release(pool, f.mark)
         /\ live' = LiveBelow(live, f.mark)
         /\ UNCHANGED cache
    ELSE IF SeenOnce(f, plain)
    THEN /\ cache' \in CachePut(cache, f.key, NoCode)
         /\ pool' = Release(pool, f.mark)
         /\ live' = LiveBelow(live, f.mark)
    ELSE /\ cache' \in CachePut(cache, f.key, f.fn)
         /\ UNCHANGED <<pool, live>>

\* The innermost EVAL returns.  A result that is not plain data (a pattern,
\* an expression, code) reaches the code of the EVAL.
Land(plain) ==
    /\ frames # << >>
    /\ Settle(Top(frames), plain)
    /\ held' = IF plain THEN held ELSE held \cup {Top(frames).fn}
    /\ frames' = Pop(frames)
    /\ UNCHANGED frags

\* An error or a transfer leaves the innermost EVALs for good.
Unwind(n) ==
    /\ n < Len(frames)
    /\ frames' = SubSeq(frames, 1, n)
    /\ UNCHANGED <<pool, live, cache, held, frags>>
-----------------------------------------------------------------------------
(***************************************************************************)
(* The rest of the program.                                                *)
(***************************************************************************)
\* A pattern or a CODE text is compiled for good.
Compile(n) ==
    \E e \in {EmitChain(pool, n, FALSE)} :
        /\ e.code # NoCode
        /\ pool' = e.pool
        /\ live' = live \cup {e.code}
        /\ held' = held \cup {e.code}
        /\ UNCHANGED <<frames, cache, frags>>

\* assertz: a clause may be compiled into a hole.
Assertz(n) ==
    \E e \in {EmitChain(pool, n, TRUE)} :
        /\ pool' = e.pool
        /\ live' = live \cup ({e.code} \ {NoCode})
        /\ frags' = frags \cup ({e.code} \ {NoCode})
        /\ UNCHANGED <<frames, cache, held>>

\* The code of a retracted clause that no activation reaches any more.
ReclaimOne(f) ==
    /\ pool' = Reclaim(Protect(pool, f.lo, f.hi, "none"), f.lo, f.hi)
    /\ live' = live \ {f}
    /\ frags' = frags \ {f}
    /\ UNCHANGED <<frames, cache, held>>

\* A garbage collection: what the cache has seen is of an earlier one now.
Collect ==
    /\ cache' = [t \in DOMAIN cache |-> [cache[t] EXCEPT !.fresh = FALSE]]
    /\ UNCHANGED <<pool, live, frames, held, frags>>

Next ==
    \/ \E t \in Texts : Open(t)
    \/ \E plain \in BOOLEAN : Land(plain)
    \/ \E n \in 0..(MaxFrames - 1) : Unwind(n)
    \/ \E n \in 1..MaxChain : Compile(n)
    \/ \E n \in 0..MaxChain : Assertz(n)
    \/ \E f \in frags : ReclaimOne(f)
    \/ Collect

Spec == Init /\ [][Next]_vars
-----------------------------------------------------------------------------
TypeOK ==
    /\ pool \in Pools
    /\ live \subseteq Ranges
    /\ frames \in Seq(Frames)
    /\ DOMAIN cache \subseteq Texts
    /\ \A t \in DOMAIN cache : cache[t] \in Entries
    /\ held \subseteq Ranges
    /\ frags \subseteq Ranges

FrameCode == {frames[i].fn : i \in DOMAIN frames}

CachedCode == {cache[t].fn : t \in {u \in DOMAIN cache : cache[u].fn # NoCode}}

\* The code somebody can still enter.
Wanted == FrameCode \cup CachedCode \cup held \cup frags

(* No code that a running EVAL, the cache, a value, a label or a clause    *)
(* reaches was given back to the pool: eval_chain_settle releases to a     *)
(* mark only when nothing above it is wanted.                              *)
WantedIsLive == Wanted \subseteq live

(* Two pieces of live code never share a page, and no page of live code is *)
(* in a hole or above the watermark (bb_alloc, bb_alloc_hole, reclaim).    *)
LiveApart ==
    /\ \A b \in live : b.lo < b.hi /\ PagesOf(b) \subseteq Taken(pool)
    /\ \A b, c \in live : b # c => PagesOf(b) \cap PagesOf(c) = {}

(* The list of holes is sorted, and two holes never touch: a range given   *)
(* back is merged with both its neighbours (bb_pool_reclaim).              *)
HolesInOrder == InOrder(pool.holes, pool.top)

(* Live code is executable, a hole is out of bounds, and the pages above   *)
(* the watermark are writable, whatever holes were merged, split or        *)
(* truncated on the way (the mprotect calls of bb_pool.c).                 *)
PagesProtected ==
    /\ \A b \in live : \A x \in PagesOf(b) : pool.perm[x] = "rx"
    /\ \A x \in HolePages(pool) : pool.perm[x] = "none"
    /\ \A x \in Pages : x >= pool.top => pool.perm[x] = "rw"

(* Every page below the watermark is live code or in a hole: a page given  *)
(* back can be had again.                                                  *)
NothingLost == Taken(pool) \subseteq UNION {PagesOf(b) : b \in live}

(* The abort() of bb_pool_reclaim over an overlapping range is never       *)
(* reached.                                                                *)
NeverBombs == ~pool.bombed

(* The check of pl_db_rc_hold ("a frame holds a reclaimed fragment") finds *)
(* the pages of the holes and no others, wanted code least of all.         *)
InHoleIsExact ==
    \A x \in Pages :
      InHole(pool, x) <=> x \in HolePages(pool)

Remembers == \A t \in Texts : Cached(t) => Cached(t)'

(* Once the cache has code for a text it has code for it ever after: a     *)
(* rehash, a collection or a nested EVAL of the text never loses it.       *)
CacheNeverForgets == [][Remembers]_vars
-----------------------------------------------------------------------------
(***************************************************************************)
(* The invariant the proofs are made with, for a program that keeps all    *)
(* code (SCRIP_EVAL_RETAIN unset).                                         *)
(***************************************************************************)
KeepsAll == Retain > Limit

\* The pool has given out exactly the blocks of a set, and they are apart.
Blocks(p, L) ==
    /\ PoolOk(p)
    /\ L \subseteq Ranges
    /\ \A b \in L : b.lo < b.hi
    /\ \A b, c \in L : b # c => PagesOf(b) \cap PagesOf(c) = {}
    /\ Taken(p) = UNION {PagesOf(b) : b \in L}

\* An EVAL that compiled its text is the only one to reach the code, and
\* knows where it is.
FramesOwn ==
    \A i \in DOMAIN frames : frames[i].made =>
      /\ frames[i].keep
      /\ frames[i].fn.lo = frames[i].mark
      /\ ~frames[i].thunks => frames[i].built = frames[i].fn.hi
      /\ frames[i].fn \notin CachedCode \cup held \cup frags
      /\ \A j \in DOMAIN frames : j # i => frames[j].fn # frames[i].fn

FragsOwn == frags \cap (FrameCode \cup CachedCode \cup held) = {}

(* The code of an open EVAL has one owner until the EVAL lands, so has the *)
(* code of a clause until it is reclaimed, and the pool has given out just *)
(* the live code (eval_chain_settle, pl_db_reclaim_one).                   *)
EvalInv ==
    /\ TypeOK
    /\ Blocks(pool, live)
    /\ WantedIsLive
    /\ FramesOwn
    /\ FragsOwn
=============================================================================
