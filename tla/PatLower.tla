----------------------------- MODULE PatLower -----------------------------
(* The lowering of a SNOBOL4 pattern to boxes, sno_pat_node of             *)
(* src/src/lower/lower_snobol4.c. The boxes of a match statement are kept  *)
(* in the order in which they are created (g->all), an edge is the box and *)
(* the port it leads to. An edge into an enclosing box is named sigma if   *)
(* the body has succeeded and phi if it has failed.                        *)
EXTENDS SnoPattern

Begin == 1    \* MATCH_BEGIN, head of the statement
Seal  == 2    \* the GOTO every sealed failure goes to, cx->pat_seal
End   == 3    \* MATCH_END, release of the statement
None  == 0

Edge(to, port) == [to |-> to, port |-> port]
Nowhere == Edge(None, "alpha")
Box(op, succ, fail) == [op |-> op, text |-> <<>>, num |-> 0, g |-> succ, w |-> fail, of |-> <<>>]
IsGoto(x) == x.op = "GOTO"

(***************************************************************************)
(* The state of the lowering: the boxes, the entry of the pattern lowered  *)
(* last, and what a sequence with fences leaves for an ARBNO around it     *)
(* (cx->seq_rlast, seq_rlast_for, seq_rtail).                              *)
(***************************************************************************)
Lowered(boxes, entry, cx) == [boxes |-> boxes, entry |-> entry, cx |-> cx]
NoSeq == [rlast |-> None, for |-> None, rtail |-> None]

(* lc_build, then sno_omega_to: the box fails into the beta of fail.       *)
Build(L, op, succ, fail) == [L EXCEPT !.boxes = Append(@, Box(op, Edge(succ, "alpha"), Edge(fail, "beta"))),
                                      !.entry = Len(L.boxes) + 1]
SetBox(L, k, field, e) ==
    [L EXCEPT !.boxes[k] = IF field = "g" THEN [@ EXCEPT !.g = e] ELSE [@ EXCEPT !.w = e]]

(* The boxes after lo, changed by f.                                       *)
Rewritten(boxes, lo, f(_, _)) ==
    Tuple([k \in DOMAIN boxes |-> IF k <= lo THEN boxes[k] ELSE f(boxes[k], k)], Len(boxes))

(* The boxes after lo that stand for the body of owner: edges to it become *)
(* its sigma and its phi.                                                  *)
Retag(L, lo, owner) ==
    LET Port(x) == IF IsGoto(x) /\ x.w.to = owner THEN "phi" ELSE "sigma"
        Told(x, k) == [x EXCEPT !.w = IF @.to = owner THEN Edge(owner, "phi") ELSE @,
                                !.g = IF @.to = owner THEN Edge(owner, Port(x)) ELSE @]
    IN  [L EXCEPT !.boxes = Rewritten(@, lo, Told)]

LastOf(S)  == IF S = {} THEN None ELSE CHOOSE k \in S : \A j \in S : j <= k
FirstOf(S) == IF S = {} THEN None ELSE CHOOSE k \in S : \A j \in S : k <= j
OrElse(k, default) == IF k = None THEN default ELSE k
After(L, lo) == (lo + 1)..Len(L.boxes)

(* The last box of a body that leaves it by success.                       *)
TailOf(L, lo, owner) == LastOf({k \in After(L, lo) : L.boxes[k].g = Edge(owner, "sigma")})

IsFence(p) == p.kind \in {"FENCE0", "FENCE1"}
FirstFence0(ps) == OrElse(FirstOf({i \in 1..Len(ps) : ps[i].kind = "FENCE0"}), Len(ps) + 1)

(* sno_resume_omega_to: where the fragment with this tail goes when it     *)
(* fails. A conditional assignment fails through its save.                 *)
ResumeTo(L, tail, t) ==
    LET nd == IF L.boxes[tail].op = "COND" THEN L.boxes[tail].of[2] ELSE tail
        x  == L.boxes[nd]
        both == IsGoto(x) /\ x.g.to # None /\ x.g.to = x.w.to /\ x.g.port = "beta"
    IN  SetBox(IF both THEN SetBox(L, nd, "g", Edge(t, "beta")) ELSE L, nd, "w", Edge(t, "beta"))

(* The order in which a body is emitted, as sno_emit_order_last sees it.   *)
RECURSIVE Walk(_, _, _, _, _)
Walk(boxes, lo, stop, todo, seen) ==
    IF todo = <<>> THEN seen
    ELSE LET k == Head(todo)
             old == k = stop \/ k <= lo \/ k \in ToSet(seen)
             next == IF old THEN Tail(todo)
                     ELSE <<boxes[k].g.to, boxes[k].w.to>> \o boxes[k].of \o Tail(todo)
         IN  With(<<next, IF old THEN seen ELSE Append(seen, k)>>,
                  LAMBDA now : Walk(boxes, lo, stop, now[1], now[2]))

RECURSIVE Lower(_, _, _, _, _), LowerSeq(_, _, _, _, _), LowerFenced(_, _, _, _, _, _), LowerArms(_, _, _, _)

(***************************************************************************)
(* A body of an enclosing box: FENCE(P), wherever it occurs.               *)
(***************************************************************************)
LowerFence1(L, p, succ, fail, inArbno) ==
    LET F == Len(L.boxes) + 1
        Closed(B, R) ==
            [R EXCEPT !.boxes[F].of = <<B.entry, IF Len(B.boxes) > F THEN F + 1 ELSE B.entry>>, !.entry = F]
    IN  With(Lower(Build(L, "FENCE1", succ, fail), p.of[1], F, F, inArbno),
             LAMBDA B : Closed(B, Retag(B, F, F)))

LowerArbno(L, p, succ, fail) ==
    LET R  == Len(L.boxes) + 1
        elems == IF p.of[1].kind = "SEQ" THEN p.of[1].of ELSE p.of
        sealed == Last(elems).kind = "FENCE0"
        Closed(B, T) ==
            LET rl == IF B.cx.for = B.entry THEN B.cx.rlast ELSE None
                ri == OrElse(FirstOf({k \in After(B, R) : ~(IsGoto(B.boxes[k]) /\ B.boxes[k].g.to = R)}), B.entry)
                last == IF rl = None THEN Len(B.boxes) ELSE Last(Walk(T.boxes, R, R, <<B.entry>>, <<>>))
            IN  [T EXCEPT !.boxes[R].of = <<B.entry, IF rl = None THEN ri ELSE OrElse(B.cx.rtail, B.entry), last>>
                                            \o (IF sealed THEN <<R>> ELSE <<>>),
                          !.entry = R]
    IN  With(Lower([Build(L, "ARBNO", succ, fail) EXCEPT !.cx = NoSeq], p.of[1], R, R, TRUE),
             LAMBDA B : With(Retag(B, R, R), LAMBDA T : Closed(B, T)))

(***************************************************************************)
(* A capture: the assignment, created first, and the save before the body. *)
(* sno_capt_body says which box of the body the assignment fails into.     *)
(***************************************************************************)
LowerCapture(L, p, succ, fail, inArbno) ==
    LET nd   == Len(L.boxes) + 1
        save == nd + 1
        S    == Build(Build(L, p.kind, succ, None), "SAVE", None, fail)
        body == p.of[1]
        nary == body.kind = "SEQ" /\ Len(body.of) > 1 /\ \A i \in 1..Len(body.of) : ~IsFence(body.of[i])
        Raw(B) == IF Len(B.boxes) > save THEN save + 1 ELSE B.entry
        TailOfBody(B) ==
            LET x == B.boxes[Raw(B)]
            IN  IF IsGoto(x) /\ x.g.to = nd /\ x.w.to = save THEN B.entry ELSE Raw(B)
        Closed(B, tail) ==
            [B EXCEPT !.boxes[save].g = Edge(B.entry, "alpha"),
                      !.boxes[save].text = p.text,
                      !.boxes[nd].w = Edge(tail, "beta"),
                      !.boxes[nd].of = <<B.entry, save>>,
                      !.boxes[nd].num = Len(B.boxes),
                      !.boxes[nd].text = p.text,
                      !.entry = save]
    IN  IF nary THEN With(LowerSeq(S, body.of, nd, save, inArbno), LAMBDA N : Closed(N.low, N.rtail))
        ELSE With(Lower(S, body, nd, save, inArbno), LAMBDA B : Closed(B, TailOfBody(B)))

(***************************************************************************)
(* A sequence without fences, sno_seq_nary: every element is lowered as    *)
(* the body of one GOTO, S, and the edges into S are then led to the next  *)
(* element and to the tail of the one before.                              *)
(***************************************************************************)
RECURSIVE Elements(_, _, _, _)
Elements(L, ps, S, inArbno) ==
    IF ps = <<>> THEN [low |-> L, ent |-> <<>>, res |-> <<>>, lo |-> <<>>]
    ELSE LET lo == Len(L.boxes)
             Plain(x) == IsGoto(x) /\ x.g.to = S /\ x.w.to = S
             First(E) == OrElse(FirstOf({k \in After(E, lo) : ~Plain(E.boxes[k])}), E.entry)
             Joined(E, T, more) ==
                [low |-> more.low,
                 ent |-> <<E.entry>> \o more.ent,
                 res |-> <<OrElse(TailOf(T, lo, S), First(E))>> \o more.res,
                 lo  |-> <<lo>> \o more.lo]
         IN  With(Lower(L, Head(ps), S, S, inArbno),
                  LAMBDA E : With(Retag(E, lo, S),
                  LAMBDA T : With(Elements(T, Tail(ps), S, inArbno),
                  LAMBDA more : Joined(E, T, more))))
LowerSeq(L, ps, succ, fail, inArbno) ==
    LET S == Len(L.boxes) + 1
        Linked(es) ==
            LET Elem(k) == LastOf({i \in 1..Len(ps) : es.lo[i] < k})
                Next_(k) == IF Elem(k) < Len(ps) THEN es.ent[Elem(k) + 1] ELSE succ
                Prev(k) == IF Elem(k) > 1 THEN es.res[Elem(k) - 1] ELSE fail
                Led(e, k) == CASE e = Edge(S, "phi")   -> Edge(Prev(k), "beta")
                               [] e = Edge(S, "sigma") -> Edge(Next_(k), "alpha")
                               [] OTHER -> e
            IN  [low |-> [es.low EXCEPT
                            !.boxes = Rewritten(@, S, LAMBDA x, k : [x EXCEPT !.g = Led(@, k), !.w = Led(@, k)]),
                            !.entry = es.ent[1]],
                 rtail |-> Last(es.res)]
    IN  With(Build(L, "GOTO", succ, fail),
             LAMBDA G : With(Elements(G, ps, S, inArbno), Linked))

(***************************************************************************)
(* A sequence with fences, from right to left, piece by piece: a fence, or *)
(* a run of elements without one. st holds what is to the right: its       *)
(* entry, its tail, whether a bare FENCE has sealed it.                    *)
(***************************************************************************)
LowerFenced(L, ps, i, st, fail, inArbno) ==
    LET lo == Len(L.boxes)
        Joined(M, tail) == IF st.tail # None /\ ~st.sealed THEN ResumeTo(M, st.tail, tail) ELSE M
        Past(j) == IF j > FirstFence0(ps) THEN Seal ELSE fail
        j == LastOf({0} \cup {k \in 1..(i - 1) : IsFence(ps[k])}) + 1
        run == SubSeq(ps, j, i)
        Rlast(M) == OrElse(st.rlast, Len(M.boxes))
        GoOn(M, k, now) == With(<<M, now>>, LAMBDA x : LowerFenced(x[1], ps, k, x[2], fail, inArbno))
        Fenced(M, F) ==
            GoOn(M, i - 1, [succ |-> F, tail |-> F, sealed |-> FALSE, rlast |-> Rlast(M),
                            rtail |-> IF st.first /\ inArbno THEN F ELSE st.rtail, first |-> FALSE])
        Sealed(M) ==
            GoOn(M, i - 1, [st EXCEPT !.succ = lo + 1, !.tail = lo + 1, !.sealed = TRUE,
                                      !.rlast = Rlast(M), !.first = FALSE])
        AfterRun(E, rtail) ==
            LET first == FirstOf({k \in After(E, lo) : ~IsGoto(E.boxes[k])})
                out == LastOf({k \in After(E, lo) : E.boxes[k].g.to = st.succ /\ ~IsGoto(E.boxes[k])})
                tail == IF Len(run) > 1 THEN rtail ELSE OrElse(out, OrElse(first, E.entry))
            IN  GoOn(Joined(E, tail), j - 1,
                     [succ |-> E.entry, tail |-> IF Len(run) > 1 THEN OrElse(first, tail) ELSE tail,
                      sealed |-> FALSE, rlast |-> Rlast(E),
                      rtail |-> IF st.first THEN tail ELSE st.rtail, first |-> FALSE])
    IN  CASE i = 0 ->
               [L EXCEPT !.entry = st.succ, !.cx = [rlast |-> st.rlast, for |-> st.succ, rtail |-> st.rtail]]
          [] i > 0 /\ ps[i].kind = "FENCE1" ->
               With(LowerFence1(L, ps[i], st.succ, Past(i), inArbno), LAMBDA M : Fenced(Joined(M, lo + 1), lo + 1))
          [] i > 1 /\ ps[i].kind = "FENCE0" -> Sealed(Build(L, "FENCE0", st.succ, Seal))
          [] i = 1 /\ ps[i].kind = "FENCE0" ->
               GoOn(L, 0, [st EXCEPT !.rlast = Rlast(L)])
          [] OTHER ->
               IF Len(run) > 1
               THEN With(LowerSeq(L, run, st.succ, Past(j), inArbno), LAMBDA N : AfterRun(N.low, N.rtail))
               ELSE With(Lower(L, ps[j], st.succ, Past(j), inArbno), LAMBDA E : AfterRun(E, None))

(***************************************************************************)
(* An alternation: the arms are bodies of one box, each with its entry and *)
(* the box at which it is resumed.                                         *)
(***************************************************************************)
LowerArms(L, ps, A, inArbno) ==
    LET lo == Len(L.boxes)
        Arm(E, T) ==
            LET ri == OrElse(TailOf(T, lo, A), IF Len(E.boxes) > lo THEN lo + 1 ELSE E.entry)
            IN  [T EXCEPT !.boxes[A].of = @ \o <<E.entry, ri>>]
    IN  IF ps = <<>> THEN [L EXCEPT !.entry = A]
        ELSE With(Lower(L, Head(ps), A, A, inArbno),
                  LAMBDA E : With(Retag(E, lo, A),
                  LAMBDA T : With(Arm(E, T),
                  LAMBDA M : LowerArms(M, Tail(ps), A, inArbno))))

LowerIn(L, p, succ, fail, inArbno) ==
    CASE p.kind = "FAIL" ->
            SetBox(Build(L, "GOTO", None, fail), Len(L.boxes) + 1, "g", Edge(fail, "beta"))
      [] p.kind = "ABORT" ->
            Build(L, "ABORT", Seal, Seal)
      [] p.kind = "FENCE0" -> Build(L, "FENCE0", succ, Seal)
      [] p.kind = "FENCE1" -> LowerFence1(L, p, succ, fail, inArbno)
      [] p.kind = "ARBNO" -> LowerArbno(L, p, succ, fail)
      [] p.kind \in {"COND", "IMM"} -> LowerCapture(L, p, succ, fail, inArbno)
      [] p.kind = "SEQ" ->
            IF \A i \in 1..Len(p.of) : ~IsFence(p.of[i])
            THEN IF Len(p.of) = 1 THEN Lower(L, p.of[1], succ, fail, inArbno)
                 ELSE LowerSeq(L, p.of, succ, fail, inArbno).low
            ELSE LowerFenced(L, p.of, Len(p.of),
                   [succ |-> succ, tail |-> None, sealed |-> FALSE, rlast |-> None, rtail |-> None,
                    first |-> TRUE], fail, inArbno)
      [] p.kind = "ALT" ->
            With(Build(L, "ALTERNATE", succ, fail),
                 LAMBDA A : LowerArms(A, p.of, Len(L.boxes) + 1, inArbno))
      [] OTHER ->
            [Build(L, p.kind, succ, fail) EXCEPT !.boxes[Len(L.boxes) + 1].text = p.text,
                                                 !.boxes[Len(L.boxes) + 1].num = p.num]
Lower(L, p, succ, fail, inArbno) == With(L, LAMBDA M : LowerIn(M, p, succ, fail, inArbno))

(***************************************************************************)
(* The boxes of  subject ? pattern  (lower_snobol4.c, the match            *)
(* statement).                                                             *)
(***************************************************************************)
Graph(p) ==
    LET start == Lowered(<<Box("BEGIN", Nowhere, Nowhere),
                           Box("GOTO", Edge(Begin, "phi"), Nowhere),
                           Box("END", Nowhere, Nowhere)>>, None, NoSeq)
    IN  With(Lower(start, p, End, Begin, FALSE),
             LAMBDA L : [L.boxes EXCEPT ![Begin].g = Edge(L.entry, "alpha")])
=============================================================================
