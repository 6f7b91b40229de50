---------------------------- MODULE SnoPattern ----------------------------
(* SNOBOL4 patterns, as the trees the lowering of                          *)
(* src/src/lower/lower_snobol4.c is given, and what they mean: the list of *)
(* the ways in which a pattern matches at a position, in the order in      *)
(* which a backtracking matcher has to offer them.                         *)
(*                                                                         *)
(* The meaning is the reference the compiled matcher is held against. It   *)
(* is written from the four ports of README.md:72-83 (succeed, resume,     *)
(* fail), not from the boxes.                                              *)
EXTENDS Integers, Sequences, SequencesExt, FiniteSets

(* A sequence of n elements written as a function; SubSeq makes TLC build  *)
(* it at once instead of at every use.                                     *)
Tuple(f, n) == SubSeq(f, 1, n)

(* f of v, with v evaluated once.                                          *)
With(v, f(_)) == CHOOSE r \in {f(x) : x \in {v}} : TRUE

(***************************************************************************)
(* A node of a pattern tree: its kind, the characters or the variable it   *)
(* carries, the number it carries, its subpatterns.                        *)
(***************************************************************************)
Leaf(kind, text, num) == [kind |-> kind, text |-> text, num |-> num, of |-> <<>>]
Over(kind, text, ps)  == [kind |-> kind, text |-> text, num |-> 0, of |-> ps]

Lit(s)     == Leaf("LIT", s, 0)
AnyOf(s)   == Leaf("ANY", s, 0)
NotAny(s)  == Leaf("NOTANY", s, 0)
Span(s)    == Leaf("SPAN", s, 0)
Break(s)   == Leaf("BREAK", s, 0)
BreakX(s)  == Leaf("BREAKX", s, 0)
Len_(n)    == Leaf("LEN", <<>>, n)
Pos(n)     == Leaf("POS", <<>>, n)
RPos(n)    == Leaf("RPOS", <<>>, n)
Tab(n)     == Leaf("TAB", <<>>, n)
RTab(n)    == Leaf("RTAB", <<>>, n)
Rem        == Leaf("REM", <<>>, 0)
Arb        == Leaf("ARB", <<>>, 0)
Bal        == Leaf("BAL", <<>>, 0)
Where(v)   == Leaf("ATP", <<v>>, 0)      \* @V
Fail       == Leaf("FAIL", <<>>, 0)
Abort      == Leaf("ABORT", <<>>, 0)
Fence0     == Leaf("FENCE0", <<>>, 0)
Fence(p)   == Over("FENCE1", <<>>, <<p>>)
ArbNo(p)   == Over("ARBNO", <<>>, <<p>>)
Cond(p, v) == Over("COND", <<v>>, <<p>>)
Imm(p, v)  == Over("IMM", <<v>>, <<p>>)
(* A sequence of sequences is one sequence, sno_seq_flatten_rc (which      *)
(* leaves one at the head of a later sequence alone; none is written so).  *)
Flat(ps)   == FlattenSeq([j \in 1..Len(ps) |-> IF ps[j].kind = "SEQ" THEN ps[j].of ELSE <<ps[j]>>])
Seq_(ps)   == Over("SEQ", <<>>, Flat(ps))
Alt(ps)    == Over("ALT", <<>>, ps)

(***************************************************************************)
(* What a pattern offers, item by item. An "out" is a way to match, with   *)
(* the position after it and the conditional assignments it has collected; *)
(* a "set" is an immediate assignment done on the way; a "cut" ends the    *)
(* whole match in failure.                                                 *)
(***************************************************************************)
Span3(v, from, to) == [var |-> v, from |-> from, to |-> to]
Out(at, caps) == [what |-> "out", at |-> at, caps |-> caps]
Set(v, from, to) == [what |-> "set", at |-> to, caps |-> <<Span3(v, from, to)>>]
Cut == [what |-> "cut", at |-> 0, caps |-> <<>>]

EndsInCut(items) == items # <<>> /\ Last(items).what = "cut"

(* The items of several attempts one after the other, up to the first cut. *)
Concat(ls) ==
    LET cut == SelectInSeq(ls, EndsInCut)
    IN  FlattenSeq(IF cut = 0 THEN ls ELSE SubSeq(ls, 1, cut))
UpToCut(lists) == With(Tuple(lists, Len(lists)), Concat)

(* Goes on with f from every way to match, and keeps what was collected.   *)
Bind(items, f(_)) ==
    LET Widen(caps, l) == Tuple([j \in 1..Len(l) |->
            IF l[j].what = "out" THEN [l[j] EXCEPT !.caps = caps \o @] ELSE l[j]], Len(l))
        Follow(x) == IF x.what = "out" THEN With(f(x.at), LAMBDA l : Widen(x.caps, l)) ELSE <<x>>
    IN  With(items, LAMBDA its : UpToCut([j \in 1..Len(its) |-> Follow(its[j])]))

Holds(s, p, i) ==
    /\ i + Len(p.text) <= Len(s)
    /\ \A j \in 1..Len(p.text) : s[i + j] = p.text[j]
In(s, p, i) == i < Len(s) /\ s[i + 1] \in ToSet(p.text)

(* Where the characters from i on stop being of the set; where one is.     *)
SpanEnd(s, p, i)  == CHOOSE j \in i..Len(s) :
    ~In(s, p, j) /\ \A k \in i..(j - 1) : In(s, p, k)
BreakEnds(s, p, i) == SetToSortSeq({j \in i..(Len(s) - 1) : In(s, p, j)}, <)

(* Where a string from i on that is balanced in its parentheses can end.   *)
Depth(s, i, j) == Cardinality({k \in (i + 1)..j : s[k] = "("}) - Cardinality({k \in (i + 1)..j : s[k] = ")"})
BalEnds(s, i) == SetToSortSeq({j \in (i + 1)..Len(s) :
    Depth(s, i, j) = 0 /\ \A k \in i..j : Depth(s, i, k) >= 0}, <)

FirstOut(l) == SelectInSeq(l, LAMBDA x : x.what = "out")
At(b, j) == IF b THEN <<Out(j, <<>>)>> ELSE <<>>

RECURSIVE Items(_, _, _), Repeat(_, _, _), Chain(_, _, _)
Chain(s, ps, i) ==
    IF ps = <<>> THEN <<Out(i, <<>>)>>
    ELSE Bind(Items(s, Head(ps), i), LAMBDA j : Chain(s, Tail(ps), j))
Repeat(s, p, i) ==
    UpToCut(<< <<Out(i, <<>>)>>,
               Bind(SelectSeq(Items(s, p, i), LAMBDA x : x.what # "out" \/ x.at # i),
                    LAMBDA j : Repeat(s, p, j)) >>)
Items(s, p, i) ==
    CASE p.kind = "LIT"    -> At(Holds(s, p, i), i + Len(p.text))
      [] p.kind = "ANY"    -> At(In(s, p, i), i + 1)
      [] p.kind = "NOTANY" -> At(i < Len(s) /\ ~In(s, p, i), i + 1)
      [] p.kind = "SPAN"   -> At(In(s, p, i), SpanEnd(s, p, i))
      [] p.kind = "BREAK"  -> LET e == BreakEnds(s, p, i) IN At(e # <<>>, IF e = <<>> THEN i ELSE e[1])
      [] p.kind = "BREAKX" -> LET e == BreakEnds(s, p, i) IN [j \in 1..Len(e) |-> Out(e[j], <<>>)]
      [] p.kind = "LEN"    -> At(i + p.num <= Len(s), i + p.num)
      [] p.kind = "POS"    -> At(i = p.num, i)
      [] p.kind = "RPOS"   -> At(i = Len(s) - p.num, i)
      [] p.kind = "TAB"    -> At(i <= p.num /\ p.num <= Len(s), p.num)
      [] p.kind = "RTAB"   -> At(i <= Len(s) - p.num, Len(s) - p.num)
      [] p.kind = "REM"    -> At(TRUE, Len(s))
      [] p.kind = "ARB"    -> [j \in 1..(Len(s) - i + 1) |-> Out(i + j - 1, <<>>)]
      [] p.kind = "BAL"    -> LET e == BalEnds(s, i) IN [j \in 1..Len(e) |-> Out(e[j], <<>>)]
      [] p.kind = "ATP"    -> <<Set(p.text[1], i, i), Out(i, <<>>)>>
      [] p.kind = "FAIL"   -> <<>>
      [] p.kind = "ABORT"  -> <<Cut>>
      [] p.kind = "FENCE0" -> <<Out(i, <<>>), Cut>>
      [] p.kind = "FENCE1" ->
            With(Items(s, p.of[1], i), LAMBDA l :
                IF FirstOut(l) = 0 THEN l ELSE SubSeq(l, 1, FirstOut(l)))
      [] p.kind = "ARBNO"  -> Repeat(s, p.of[1], i)
      [] p.kind = "COND"   ->
            With(Items(s, p.of[1], i), LAMBDA l : Tuple([j \in 1..Len(l) |->
                IF l[j].what = "out" THEN [l[j] EXCEPT !.caps = Append(@, Span3(p.text[1], i, l[j].at))]
                ELSE l[j]], Len(l)))
      [] p.kind = "IMM"    ->
            With(Items(s, p.of[1], i), LAMBDA l : FlattenSeq([j \in 1..Len(l) |->
                IF l[j].what = "out" THEN <<Set(p.text[1], i, l[j].at), l[j]>> ELSE <<l[j]>>]))
      [] p.kind = "SEQ"    -> Chain(s, p.of, i)
      [] p.kind = "ALT"    -> UpToCut([j \in 1..Len(p.of) |-> Items(s, p.of[j], i)])

(***************************************************************************)
(* The statement  s ? p : the first way to match from the first start that *)
(* has one (only from the first one if anchored), and the immediate        *)
(* assignments done up to then.                                            *)
(***************************************************************************)
Outcome(s, p, anchor) ==
    LET From(i) == With(Items(s, p, i), LAMBDA l : Tuple([k \in 1..Len(l) |-> l[k] @@ [start |-> i]], Len(l)))
        Sets(l) == FlattenSeq([k \in 1..Len(l) |-> IF l[k].what = "set" THEN l[k].caps ELSE <<>>])
        Told(l, k) ==
            IF k = 0 THEN [ok |-> FALSE, from |-> 0, to |-> 0, caps |-> <<>>, sets |-> Sets(l)]
            ELSE [ok |-> TRUE, from |-> l[k].start, to |-> l[k].at, caps |-> l[k].caps,
                  sets |-> Sets(SubSeq(l, 1, k))]
    IN  With(UpToCut([j \in 1..(IF anchor THEN 1 ELSE Len(s) + 1) |-> From(j - 1)]),
             LAMBDA l : Told(l, FirstOut(l)))
=============================================================================
