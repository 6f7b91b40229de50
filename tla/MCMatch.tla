------------------------------ MODULE MCMatch ------------------------------
(* Statements for Match: short subjects, and every pattern of two or three *)
(* elements inside each of the boxes that have a body. The shapes that the *)
(* compiled code gets wrong are named here and left out of the run over    *)
(* all others; a run of its own has a statement for each.                  *)
EXTENDS Match

L_a == Lit(<<"a">>)
L_b == Lit(<<"b">>)
L_c == Lit(<<"c">>)
Either == Alt(<<L_a, L_b>>)
On_(p, s) == [pat |-> p, subj |-> s, anchor |-> FALSE]
Anchored(p, s) == [On_(p, s) EXCEPT !.anchor = TRUE]

(***************************************************************************)
(* The shapes.                                                             *)
(***************************************************************************)
LastFence(ps) == LastOf({j \in 1..Len(ps) : IsFence(ps[j])})
IsSeq(p) == p.kind = "SEQ"

(* A capture of a sequence with two or more elements after its last fence. *)
CaptureOfFenced(p) ==
    /\ p.kind \in {"COND", "IMM"} /\ IsSeq(p.of[1])
    /\ LastFence(p.of[1].of) # None /\ Len(p.of[1].of) >= LastFence(p.of[1].of) + 2
(* FENCE(P), then a box whose own failure exit must not be led to it.      *)
ExitTakenByFence(p) ==
    IsSeq(p) /\ \E j \in 2..Len(p.of) : p.of[j - 1].kind = "FENCE1" /\ p.of[j].kind \in {"IMM", "ABORT", "FAIL"}
(* ARBNO over a sequence that ends in a conditional assignment.            *)
AssignsLast(p) == p.kind = "ARBNO" /\ IsSeq(p.of[1]) /\ Last(p.of[1].of).kind = "COND"
(* ARBNO over a sequence that ends in a bare FENCE.                        *)
SealedArbno(p) == p.kind = "ARBNO" /\ IsSeq(p.of[1]) /\ Last(p.of[1].of).kind = "FENCE0"
(* ARBNO over a sequence with a fence that has a home in the frame.        *)
FramedFence(p) == p.kind = "FENCE1" /\ p.of[1].kind = "ARBNO"
FencedArbno(p) == p.kind = "ARBNO" /\ IsSeq(p.of[1]) /\ \E j \in 1..Len(p.of[1].of) : FramedFence(p.of[1].of[j])

RECURSIVE Known(_)
Known(p) ==
    \/ CaptureOfFenced(p) \/ ExitTakenByFence(p) \/ AssignsLast(p) \/ SealedArbno(p) \/ FencedArbno(p)
    \/ \E j \in 1..Len(p.of) : Known(p.of[j])

(***************************************************************************)
(* The families.                                                           *)
(***************************************************************************)
Seqs2(S) == {Seq_(<<x, y>>) : x, y \in S}
Seqs3(S, T) == {Seq_(<<x, y, z>>) : x, y \in S, z \in T}
In_(S) == {ArbNo(x) : x \in S} \cup {Fence(x) : x \in S} \cup {Cond(x, "Z") : x \in S}
            \cup {Imm(x, "Z") : x \in S} \cup {Alt(<<x, L_b>>) : x \in S} \cup {Alt(<<L_b, x>>) : x \in S}

Simple == {L_a, Arb, Fence0, Fence(L_a), Fence(Arb), Either, Cond(L_a, "X"), Cond(Arb, "X"),
           Imm(Arb, "Y"), ArbNo(L_a)}
Ends   == {L_a, Arb, Fence0}
Nested_ == {L_a, Fence(Either), Alt(<<Arb, L_b>>), Cond(Either, "X"), Cond(ArbNo(L_a), "X"),
            Cond(Fence(Arb), "X"), ArbNo(Either), ArbNo(Cond(L_a, "X")), ArbNo(Fence(L_a)),
            Alt(<<ArbNo(L_a), L_b>>), Fence(ArbNo(L_a)), Fail, Abort, Alt(<<Fail, L_a>>),
            Alt(<<L_a, Abort>>), Span(<<"a">>)}
Placing == {Len_(1), Pos(0), RPos(0), Tab(1), RTab(1), Rem, Break(<<"b">>), BreakX(<<"b">>),
           Span(<<"a">>), AnyOf(<<"a", "b">>), Arb}

Bodies    == {On_(Seq_(<<x, L_c>>), <<"a", "b", "c">>) : x \in In_(Seqs2(Simple) \cup Seqs3(Simple, Ends))}
Deep      == {On_(Seq_(<<x, L_b>>), <<"a", "b", "a">>) : x \in In_(Seqs2(Nested_))}
               \cup {On_(x, <<"a", "b", "a">>) : x \in In_(Seqs3(Nested_, {L_b, Arb}))}
Tails     == {On_(Seq_(<<w, x, L_b>>), <<"a", "b", "a", "c">>) : w \in Simple, x \in Seqs2(Simple)}
Positions == {On_(Seq_(<<x, y, L_b>>), <<"a", "b", "b">>) : x, y \in Placing}
               \cup {Anchored(Seq_(<<ArbNo(x), y>>), <<"a", "b", "b">>) : x, y \in Placing \ {Arb}}
               \cup {Anchored(Alt(<<Seq_(<<x, L_b>>), y>>), <<"a", "b", "b">>) : x, y \in Placing}
Homed     == {Cond(ArbNo(L_a), "X"), Imm(ArbNo(L_a), "X"), Cond(ArbNo(Arb), "X"),
              ArbNo(Seq_(<<ArbNo(L_a), L_b>>)), Seq_(<<ArbNo(L_a), Cond(ArbNo(L_b), "X")>>)}
Windows   == {On_(Seq_(<<ArbNo(Seq_(<<x, y>>)), z>>), <<"a", "a", "b", "a">>) :
                x \in Homed, y \in {Either, L_a, Arb}, z \in {L_b, L_c}}
Leaves    == {Bal, NotAny(<<"a", "(">>), Where("N"), Arb, L_a, Cond(Bal, "X"), Fence(Bal), Fence0,
              Alt(<<Bal, Where("N")>>), ArbNo(Bal), ArbNo(NotAny(<<"b">>)), ArbNo(Seq_(<<Where("N"), L_a>>))}
Balanced  == {On_(Seq_(<<x, y, z>>), <<"a", "(", "a", ")", "b">>) : x, y \in Leaves, z \in {L_b, Where("M"), RPos(0)}}
               \cup {On_(Seq_(<<x, L_b>>), <<"(", "a", ")", "a", "b">>) : x \in In_(Seqs2(Leaves))}
Markers   == {Where("N"), L_a, Arb, Span(<<"a">>), Fence0, Alt(<<Seq_(<<Where("M"), Arb>>), L_a>>)}
Marked    == {On_(Seq_(<<x, L_b>>), <<"a", "a", "b">>) : x \in In_(Seqs3(Markers, Markers))}
WellFormed == {c \in Bodies \cup Deep \cup Tails \cup Positions \cup Windows \cup Balanced \cup Marked : ~Known(c.pat)}

(* The shapes left out, each with the statement that shows it.             *)
OfCapture == {On_(Seq_(<<Cond(Seq_(<<Fence(L_a), Arb, L_b>>), "X"), L_c>>), <<"a", "x", "b", "x", "b", "c">>)}
OfExit    == {On_(Seq_(<<Alt(<<Seq_(<<Fence(Either), Abort>>), L_b>>), L_c>>), <<"a", "b", "c">>)}
OfAssign  == {On_(Seq_(<<ArbNo(Seq_(<<Either, Cond(L_c, "X")>>)), Lit(<<"c", "b">>)>>), <<"a", "c", "b", "c", "z">>)}
OfSealed  == {On_(Alt(<<Seq_(<<ArbNo(Seq_(<<L_a, Fence0>>)), L_c>>), Lit(<<"a", "a", "b">>)>>), <<"a", "a", "b">>)}
OfKnown   == OfCapture \cup OfExit \cup OfAssign \cup OfSealed
(* ... and the one that never ends (property Terminates).                 *)
OfFenced  == {On_(Seq_(<<ArbNo(Seq_(<<Fence(ArbNo(L_a)), L_b>>)), L_c>>), <<"a", "b", "a", "b", "a", "d">>)}
=============================================================================
