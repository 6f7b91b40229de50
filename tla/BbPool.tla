------------------------------- MODULE BbPool -------------------------------
(***************************************************************************)
(* The pool that holds generated machine code (ir/bb_pool.c), and the      *)
(* loop of the emitter that takes a buffer from it (emit_chain of          *)
(* emitter/emit.cpp).  Addresses and sizes are counted in pages: the code  *)
(* rounds every one of them to a page before it compares or stores it.     *)
(*                                                                         *)
(* A pool is a record: the watermark `top`, the list of `holes` below it,  *)
(* sorted by address, the protection of every page, and whether the code   *)
(* has called abort() over the hole list.  The operators are functions     *)
(* from a pool to the pool the C function leaves behind; EvalCode.tla is   *)
(* the state machine that calls them.                                      *)
(***************************************************************************)
EXTENDS Integers, Sequences, FiniteSets

CONSTANTS Limit,     \* pages of the pool (SCRIP_CODE_POOL_MB)
          FlatCap,   \* pages the emitter asks for first (FLAT_BUF_MAX)
          Slack      \* pages asked for beyond what the first pass wanted

ASSUME PoolAssumption ==
    /\ Limit \in Nat \ {0}
    /\ FlatCap \in Nat \ {0}
    /\ Slack \in Nat

Pages == 0..(Limit - 1)

\* Writable, executable, or with no access at all.
Protections == {"rw", "rx", "none"}

Ranges == [lo : 0..Limit, hi : 0..Limit]

Pools == [top : 0..Limit, holes : Seq(Ranges), perm : [Pages -> Protections],
          bombed : BOOLEAN]

EmptyPool == [top |-> 0, holes |-> << >>, perm |-> [x \in Pages |-> "rw"],
              bombed |-> FALSE]

PagesOf(r) == {x \in Pages : r.lo <= x /\ x < r.hi}

Size(r) == r.hi - r.lo

\* A list of holes below a watermark, sorted, no two of them touching.
InOrder(h, top) ==
    /\ \A i \in DOMAIN h : h[i].lo < h[i].hi /\ h[i].hi <= top
    /\ \A i, j \in DOMAIN h : i < j => h[i].hi < h[j].lo

HolePages(p) == UNION {PagesOf(p.holes[i]) : i \in DOMAIN p.holes}

\* The pages somebody has: below the watermark and in no hole.
Taken(p) == {x \in Pages : x < p.top /\ x \notin HolePages(p)}

PoolOk(p) == p \in Pools /\ InOrder(p.holes, p.top) /\ ~p.bombed

Protect(p, lo, hi, m) ==
    [p EXCEPT !.perm = [x \in Pages |-> IF lo <= x /\ x < hi THEN m ELSE @[x]]]
-----------------------------------------------------------------------------
(***************************************************************************)
(* The list of holes.  The binary search keeps the half [a, b) that may    *)
(* hold the first hole at or above an address; it is written as the        *)
(* sequence of the halves it visits, one per turn of the loop.             *)
(***************************************************************************)
Halve(h, lo, ab) ==
    LET m == (ab.a + ab.b) \div 2
    IN  IF ab.a >= ab.b THEN ab
        ELSE IF h[m].lo < lo THEN [a |-> m + 1, b |-> ab.b]
        ELSE [a |-> ab.a, b |-> m]

\* The index of the first hole that starts at lo or above.
HoleFind(h, lo) ==
    LET half[n \in 0..Len(h)] ==
          IF n = 0 THEN [a |-> 1, b |-> Len(h) + 1]
          ELSE Halve(h, lo, half[n - 1])
    IN  half[Len(h)].a

HoleErase(h, i, n) == SubSeq(h, 1, i - 1) \o SubSeq(h, i + n, Len(h))

HoleInsert(h, i, lo, hi) ==
    SubSeq(h, 1, i - 1) \o <<[lo |-> lo, hi |-> hi]>> \o SubSeq(h, i, Len(h))

CutLast(h, top) ==
    IF h # << >> /\ h[Len(h)].hi > top
    THEN [h EXCEPT ![Len(h)].hi = top]
    ELSE h

\* What is left of the list when everything from top up is given up.
HoleTruncate(h, top) == CutLast(SubSeq(h, 1, HoleFind(h, top) - 1), top)
-----------------------------------------------------------------------------
(***************************************************************************)
(* The operations of the pool.                                             *)
(***************************************************************************)
Free(p) == Limit - p.top

Seal(p, lo, n) == Protect(p, lo, lo + n, "rx")

\* The next definition for the emitter that forgets to give the rest back.
TrimLastNever(p, buf, reserved, used) == p

TrimLast(p, buf, reserved, used) ==
    IF buf + reserved = p.top /\ used <= reserved
    THEN [p EXCEPT !.top = buf + used]
    ELSE p

Release(p, mark) ==
    IF mark > p.top THEN p
    ELSE [Protect(p, mark, p.top, "rw") EXCEPT
            !.holes = HoleTruncate(p.holes, mark), !.top = mark]

\* The next definition taking a hole that ends where the range begins for
\* one the range overlaps.
OverlapsTouching(h, lo, hi) ==
    LET i == HoleFind(h, lo)
    IN  \/ i > 1 /\ h[i - 1].hi >= lo
        \/ i <= Len(h) /\ h[i].lo < hi

Overlaps(h, lo, hi) ==
    LET i == HoleFind(h, lo)
    IN  \/ i > 1 /\ h[i - 1].hi > lo
        \/ i <= Len(h) /\ h[i].lo < hi

\* A range on its way into the list: m.h is the list, m.i the index where
\* the range m.lo, m.hi belongs.
JoinBelow(m) ==
    IF m.i > 1 /\ m.h[m.i - 1].hi = m.lo
    THEN [h |-> HoleErase(m.h, m.i - 1, 1), i |-> m.i - 1,
          lo |-> m.h[m.i - 1].lo, hi |-> m.hi]
    ELSE m

\* The next definition without the merging.
JoinAboveNever(m) == m

JoinAbove(m) ==
    IF m.i <= Len(m.h) /\ m.h[m.i].lo = m.hi
    THEN [h |-> HoleErase(m.h, m.i, 1), i |-> m.i,
          lo |-> m.lo, hi |-> m.h[m.i].hi]
    ELSE m

\* The next definition making no page writable again.
JoinProtecting(p, m) ==
    IF m.hi = p.top
    THEN [p EXCEPT !.holes = m.h, !.top = m.lo]
    ELSE [p EXCEPT !.holes = HoleInsert(m.h, m.i, m.lo, m.hi)]

\* A hole that would end at the watermark lowers the watermark instead.
Join(p, m) ==
    IF m.hi = p.top
    THEN [Protect(p, m.lo, m.hi, "rw") EXCEPT !.holes = m.h, !.top = m.lo]
    ELSE [p EXCEPT !.holes = HoleInsert(m.h, m.i, m.lo, m.hi)]

\* The range is merged with the holes it touches.
ReclaimUpTo(p, lo, hi) ==
    IF hi <= lo THEN p
    ELSE IF Overlaps(p.holes, lo, hi) THEN [p EXCEPT !.bombed = TRUE]
    ELSE Join(p, JoinAbove(JoinBelow(
           [h |-> p.holes, i |-> HoleFind(p.holes, lo), lo |-> lo, hi |-> hi])))

Reclaim(p, lo, hi) == ReclaimUpTo(p, lo, IF hi > p.top THEN p.top ELSE hi)

GiveBack(p, lo, hi) ==
    IF hi <= lo THEN p ELSE Reclaim(Protect(p, lo, hi, "none"), lo, hi)

\* The next definition looking from the page itself.
InHoleFromPage(p, x) ==
    LET i == HoleFind(p.holes, x)
    IN  i > 1 /\ p.holes[i - 1].lo <= x /\ x < p.holes[i - 1].hi

InHole(p, x) ==
    LET i == HoleFind(p.holes, x + 1)
    IN  i > 1 /\ p.holes[i - 1].lo <= x /\ x < p.holes[i - 1].hi
-----------------------------------------------------------------------------
(***************************************************************************)
(* A buffer to emit into: a hole of at least min pages if the caller takes *)
(* holes, else flat pages at the watermark, else all that is left there if *)
(* that is at least `need`.                                                *)
(***************************************************************************)
BigHoles(p, min) == {i \in DOMAIN p.holes : Size(p.holes[i]) >= min}

FirstHole(p, min) ==
    CHOOSE i \in BigHoles(p, min) : \A j \in BigHoles(p, min) : i <= j

NoBuffer == [cap |-> 0, lo |-> 0, hole |-> FALSE]

\* The next definition leaving the hole on the list.
BbAllocHoleListed(p, min) ==
    LET r == p.holes[FirstHole(p, min)]
    IN  [pool |-> Protect(p, r.lo, r.hi, "rw"),
         buf  |-> [cap |-> Size(r), lo |-> r.lo, hole |-> TRUE]]

BbAllocHole(p, min) ==
    LET r == p.holes[FirstHole(p, min)]
    IN  [pool |-> [Protect(p, r.lo, r.hi, "rw") EXCEPT
                     !.holes = HoleErase(@, FirstHole(p, min), 1)],
         buf  |-> [cap |-> Size(r), lo |-> r.lo, hole |-> TRUE]]

BbAlloc(p, n) ==
    [pool |-> [p EXCEPT !.top = @ + n],
     buf  |-> [cap |-> n, lo |-> p.top, hole |-> FALSE]]

\* The next definition without the test of the limit.
BufferPastLimit(p, holesOk, min, flat) ==
    IF holesOk /\ BigHoles(p, min) # {} THEN BbAllocHole(p, min)
    ELSE BbAlloc(p, flat)

Buffer(p, holesOk, min, flat) ==
    IF holesOk /\ BigHoles(p, min) # {} THEN BbAllocHole(p, min)
    ELSE IF flat <= Free(p) THEN BbAlloc(p, flat)
    ELSE IF Free(p) >= min /\ Free(p) > 0 THEN BbAlloc(p, Free(p))
    ELSE [pool |-> p, buf |-> NoBuffer]

\* The chain fits: seal its pages and give the rest of the buffer back.
Keep(b, n) ==
    LET p == Seal(b.pool, b.buf.lo, n)
    IN  IF b.buf.hole THEN GiveBack(p, b.buf.lo + n, b.buf.lo + b.buf.cap)
        ELSE TrimLast(p, b.buf.lo, b.buf.cap, n)

\* It does not: undo the pass.
Undo(b, mark) ==
    IF b.buf.hole THEN GiveBack(b.pool, b.buf.lo, b.buf.lo + b.buf.cap)
    ELSE Release(b.pool, mark)

NoCode == [lo |-> 0, hi |-> 0]

Emitted(b, n) ==
    [pool |-> Keep(b, n), code |-> [lo |-> b.buf.lo, hi |-> b.buf.lo + n]]

\* The second pass: b is the buffer of the size the first one wanted.
EmitAgain(p, b, n) ==
    IF b.buf = NoBuffer THEN [pool |-> p, code |-> NoCode] ELSE Emitted(b, n)

EmitWith(p, b, n, holesOk) ==
    LET undone == Undo(b, p.top)
    IN  IF b.buf = NoBuffer THEN [pool |-> p, code |-> NoCode]
        ELSE IF n = 0 THEN [pool |-> undone, code |-> NoCode]
        ELSE IF n <= b.buf.cap THEN Emitted(b, n)
        ELSE EmitAgain(undone, Buffer(undone, holesOk, n, n + Slack), n)

\* emit_chain for a chain of n pages (none: an emission that comes out
\* empty).  A first pass that overflows tells the second what it wants.
EmitChain(p, n, holesOk) ==
    EmitWith(p, Buffer(p, holesOk, 0, FlatCap), n, holesOk)
=============================================================================
