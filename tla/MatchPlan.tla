----------------------------- MODULE MatchPlan -----------------------------
(* What the planner and the emitter make of the boxes of a match: the      *)
(* order in which they are emitted, the labels their edges are resolved    *)
(* to, and where each box keeps its record, on the spine or in the frame.  *)
(* Spine depths are in cells of 16 bytes.                                  *)
EXTENDS PatLower

Chase(boxes, k) ==
    LET RECURSIVE To(_)
        To(j) == IF j # None /\ IsGoto(boxes[j]) THEN To(boxes[j].g.to) ELSE j
    IN  To(k)

(***************************************************************************)
(* Emission order, RPO_PUSH_SUCCS of zeta_plan.cpp: reverse postorder from *)
(* the head. The successors are pushed gamma first, omega last, so omega   *)
(* is finished first and comes last. @V is not one of the elements whose   *)
(* omega counts (ir_is_matcher_element).                                   *)
(***************************************************************************)
Matcher(op) == op \notin {"GOTO", "BEGIN", "END", "ATP"}
Stacked(x) ==
    (IF Matcher(x.op) THEN <<x.w.to>> ELSE <<>>)
      \o (IF x.op \in {"ALTERNATE", "ARBNO", "FENCE1"} THEN x.of ELSE <<>>) \o <<x.g.to>>

RECURSIVE Finish(_, _)
Finish(boxes, now) ==
    IF now.stack = <<>> THEN now.done
    ELSE LET top  == Head(now.stack)
             rest == Tail(now.stack)
             next == Stacked(boxes[top.box])
             entered == [j \in 1..Len(next) |-> [box |-> next[j], left |-> FALSE]]
                          \o <<[top EXCEPT !.left = TRUE]>> \o rest
         IN  With(CASE top.left -> [now EXCEPT !.stack = rest, !.done = <<top.box>> \o @]
                    [] ~top.left /\ top.box \in now.seen \cup {None} -> [now EXCEPT !.stack = rest]
                    [] OTHER -> [now EXCEPT !.stack = entered, !.seen = @ \cup {top.box}],
                  LAMBDA then : Finish(boxes, then))
EmissionOrder(boxes) ==
    LET bodies == UNION {ToSet(boxes[k].of) : k \in {j \in DOMAIN boxes : Matcher(boxes[j].op)}}
    IN  SelectSeq(Finish(boxes, [stack |-> <<[box |-> Begin, left |-> FALSE]>>, seen |-> {}, done |-> <<>>]),
                  LAMBDA k : ~IsGoto(boxes[k]) \/ k \in bodies)
Emitted(order, k) == SelectInSeq(order, LAMBDA j : j = k)

(***************************************************************************)
(* Where an edge leads, codegen_flat_chain_body: through GOTOs by gamma,   *)
(* adding up the port marks on the way; a mark counts where the box has    *)
(* that label. An alternation has a sigma per arm: the source belongs to   *)
(* the arm whose entry was emitted last before it.                         *)
(***************************************************************************)
RECURSIVE Marks(_, _)
Marks(boxes, e) ==
    {e.port} \cup (IF e.to # None /\ IsGoto(boxes[e.to]) THEN Marks(boxes, boxes[e.to].g) ELSE {})

ArmOf(order, x, src) ==
    LET entry(j) == Emitted(order, x.of[2 * j - 1])
        arms == {j \in 1..(Len(x.of) \div 2) : entry(j) # 0 /\ entry(j) <= Emitted(order, src)}
    IN  IF arms = {} THEN 1 ELSE CHOOSE j \in arms : \A i \in arms : entry(i) <= entry(j)

Label(box, port, arm) == [box |-> box, port |-> port, arm |-> arm]
Nested(op) == op \in {"ALTERNATE", "ARBNO", "FENCE1"}

Resolve(boxes, order, src, e, ports) ==
    LET to == Chase(boxes, e.to)
        m  == Marks(boxes, e) \cap ports
    IN  IF to = None THEN Label(None, "alpha", 0)
        ELSE IF "phi" \in m /\ (Nested(boxes[to].op) \/ to = Begin) THEN Label(to, "phi", 0)
        ELSE IF "sigma" \in m /\ Nested(boxes[to].op)
             THEN Label(to, "sigma", IF boxes[to].op = "ALTERNATE" THEN ArmOf(order, boxes[to], src) ELSE 0)
        ELSE Label(to, IF "beta" \in m THEN "beta" ELSE "alpha", 0)

(* The tail of an ARBNO's body: the last box, in the emission order,       *)
(* between its resumption and its last box, that leads straight back.      *)
ArbnoTail(boxes, order, R) ==
    LET a == Emitted(order, boxes[R].of[2])
        b == Emitted(order, boxes[R].of[3])
        back == {q \in (IF a <= b THEN a..b ELSE b..a) \ {0} :
                    order[q] # R /\ boxes[order[q]].g.to = R}
    IN  IF a = 0 \/ back = {} THEN boxes[R].of[3] ELSE order[LastOf(back)]

(***************************************************************************)
(* What a box keeps on the spine when it is left by success, box_cell_     *)
(* shapes, and planner_body_live: what a body has there when it is left    *)
(* through its last box, or Indefinite where that is not one number. The   *)
(* bodies of alternations and fences are counted by the same rule. A kind  *)
(* without a row of its own has one cell by the last row: the leaves, and  *)
(* the two kinds that are resumed only to fail.                            *)
(***************************************************************************)
Indefinite == -1
Unbounded(op) == op \in {"ARBNO", "ABORT"}
LeafCellButArb(op) == op \in {"SPAN", "TAB", "RTAB", "BREAK", "BREAKX", "REM", "BAL"}   \* mutant
LeafCell(op)  == op \in {"ARB", "SPAN", "TAB", "RTAB", "BREAK", "BREAKX", "REM", "BAL"}
MarkCell(op)  == op \in {"SAVE", "ATP"}

RECURSIVE BodyLive(_, _, _, _, _, _)
ArmLives(boxes, k) ==
    Tuple([j \in 1..(Len(boxes[k].of) \div 2) |->
        BodyLive(boxes, Chase(boxes, boxes[k].of[2 * j - 1]), boxes[k].of[2 * j], k, 0, Len(boxes))],
        Len(boxes[k].of) \div 2)
AltExit(boxes, k) ==
    LET lives == ToSet(ArmLives(boxes, k))
    IN  IF Indefinite \in lives THEN Indefinite ELSE CHOOSE m \in lives : \A l \in lives : l <= m
FenceLive(boxes, k) ==
    BodyLive(boxes, Chase(boxes, boxes[k].of[1]), boxes[k].of[2], k, 0, Len(boxes))
ArbnoLive(boxes, k) ==
    BodyLive(boxes, Chase(boxes, boxes[k].of[1]), k, k, 0, Len(boxes))
Kept(boxes, k) ==
    CASE LeafCell(boxes[k].op) \/ MarkCell(boxes[k].op) -> 1
      [] boxes[k].op = "ALTERNATE" -> 2 + AltExit(boxes, k)
      [] boxes[k].op = "FENCE1"    -> IF FenceLive(boxes, k) = Indefinite THEN 0 ELSE 1
      [] OTHER -> 0
BodyLive(boxes, cur, last, self, live, fuel) ==
    IF cur = self THEN live
    ELSE IF cur = None \/ fuel < 0 \/ Unbounded(boxes[cur].op) THEN Indefinite
    ELSE IF boxes[cur].op = "ALTERNATE" /\ AltExit(boxes, cur) = Indefinite THEN Indefinite
    ELSE LET now == live + Kept(boxes, cur)
         IN  IF cur = last THEN now
             ELSE BodyLive(boxes, Chase(boxes, boxes[cur].g.to), last, self, now, fuel - 1)

(***************************************************************************)
(* planner_fence0_release: the cells a bare FENCE drops, those of the      *)
(* leaves right before it on the way of success from the head.             *)
(***************************************************************************)
RECURSIVE Way(_, _, _)
Way(boxes, path, k) ==
    LET next == Chase(boxes, boxes[Last(path)].g.to)
    IN  IF next = k THEN path
        ELSE IF next = None \/ Len(path) > Len(boxes) THEN <<>> ELSE Way(boxes, Append(path, next), k)
Release(boxes, k) ==
    LET path  == Way(boxes, <<Begin>>, k)
        billed == boxes[k].op = "FENCE0" /\ path # <<>>
        leaf(j) == LeafCell(boxes[path[j]].op) /\ boxes[path[j]].op # "ARB"
        stop(j) == ~leaf(j) /\ (Nested(boxes[path[j]].op) \/ boxes[path[j]].op \in {"BEGIN", "FENCE0", "ABORT"}
                                \/ Kept(boxes, path[j]) > 0)
        from == IF billed THEN LastOf({j \in DOMAIN path : stop(j)}) ELSE 0
    IN  IF billed THEN Cardinality({j \in (from + 1)..Len(path) : leaf(j)}) ELSE 0

(***************************************************************************)
(* planner_act_build: which boxes have a home in the frame of the match.   *)
(* A capture does if a box of an unbounded kind was created between its    *)
(* save and the end of its body.                                           *)
(***************************************************************************)
Framed(boxes, k) ==
    CASE boxes[k].op = "ARBNO"  -> ArbnoLive(boxes, k) = Indefinite
      [] boxes[k].op = "FENCE1" -> FenceLive(boxes, k) = Indefinite
      [] boxes[k].op = "SAVE"   -> \E j \in (k + 1)..boxes[k - 1].num : Unbounded(boxes[j].op)
      [] OTHER -> FALSE

(* The cells between a save and its assignment, on the way of success.     *)
RECURSIVE Between(_, _, _, _)
Between(boxes, cur, nd, fuel) ==
    IF cur = nd \/ cur = None \/ fuel < 0 THEN 0
    ELSE (IF boxes[cur].op = "ALTERNATE" /\ AltExit(boxes, cur) = Indefinite THEN 3 ELSE Kept(boxes, cur))
         - Release(boxes, cur) + Between(boxes, Chase(boxes, boxes[cur].g.to), nd, fuel - 1)

(* planner_act_window: the homes an ARBNO saves with an instance.          *)
WindowNone(boxes, R) == {}   \* mutant
Window(boxes, R) ==
    LET a == boxes[R].of[2]
        b == boxes[R].of[3]
    IN  {k \in (IF a <= b THEN a..b ELSE b..a) \ {R} : Framed(boxes, k)}

(***************************************************************************)
(* What the emitter is given for a box.                                    *)
(***************************************************************************)
Home(boxes, order, k) ==
    LET x == boxes[k]
        L(e, ports) == Resolve(boxes, order, k, e, ports)
        At_(j, port) == Label(j, port, 0)
        arms == IF x.op = "ARBNO" THEN 1 ELSE IF Nested(x.op) THEN Len(x.of) \div 2 ELSE 0
    IN  [op    |-> x.op, text |-> x.text, num |-> x.num,
         gamma |-> L(x.g, {"phi", "sigma", "beta"}),
         omega |-> L(x.w, {"phi", "beta"}),
         entry  |-> Tuple([j \in 1..arms |-> At_(x.of[2 * j - 1], "alpha")], arms),
         resume |-> Tuple([j \in 1..arms |-> IF x.op = "ARBNO" THEN At_(ArbnoTail(boxes, order, k), "beta")
                                              ELSE At_(x.of[2 * j], "beta")], arms),
         sealed |-> x.op = "ARBNO" /\ Len(x.of) > 3,
         framed |-> Framed(boxes, IF x.op \in {"COND", "IMM"} THEN x.of[2] ELSE k),
         live   |-> CASE x.op = "ARBNO"     -> ArbnoLive(boxes, k)
                      [] x.op = "FENCE1"    -> FenceLive(boxes, k)
                      [] x.op = "ALTERNATE" -> AltExit(boxes, k)
                      [] x.op = "FENCE0"    -> Release(boxes, k)
                      [] x.op \in {"COND", "IMM"} ->
                            Between(boxes, Chase(boxes, boxes[x.of[2]].g.to), k, Len(boxes))
                      [] OTHER -> 0,
         lives  |-> IF x.op = "ALTERNATE" THEN ArmLives(boxes, k) ELSE <<>>,
         save   |-> IF x.op \in {"COND", "IMM"} THEN x.of[2] ELSE None,
         window |-> IF x.op = "ARBNO" THEN Window(boxes, k) ELSE {}]

Placed(boxes, order) == Tuple([k \in DOMAIN boxes |-> Home(boxes, order, k)], Len(boxes))
Compile(p) ==
    With(Graph(p), LAMBDA boxes : With(EmissionOrder(boxes), LAMBDA order : Placed(boxes, order)))
=============================================================================
