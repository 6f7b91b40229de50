------------------------------- MODULE Match -------------------------------
(* A match statement of SNOBOL4 as the program runs it: the boxes of       *)
(* src/src/templates/bb/bb_match_*.cpp, one action for each kind, over the *)
(* registers they share. The boxes, their labels and the homes of their    *)
(* records are those MatchPlan compiles.                                   *)
(*                                                                         *)
(* A box is entered at alpha, left at gamma by success and omega by        *)
(* failure, and resumed at beta. A box with a body is told at sigma that   *)
(* the body has succeeded and at phi that it has failed (README.md:72-83). *)
EXTENDS MatchPlan

CONSTANT Cases   \* statements: the pattern, the subject, whether &ANCHOR is set

ASSUME CasesAssumption ==
    \A c \in Cases : c.anchor \in BOOLEAN /\ c.subj = SubSeq(c.subj, 1, Len(c.subj))

VARIABLES
    case,     \* the statement, compiled, and what it means
    at,       \* the label reached
    cursor,   \* r14d
    start,    \* where this attempt started, in the frame of MATCH_BEGIN
    spine,    \* the cells between rbp and rsp, the deepest first
    homes,    \* the slots of the match frame, by box
    pend,     \* the deferred assignments below r12
    sets,     \* the immediate assignments made
    result    \* of the statement, once it has ended
vars == <<case, at, cursor, start, spine, homes, pend, sets, result>>

(***************************************************************************)
(* Compiled statements, and what the statements mean.                      *)
(***************************************************************************)
Statement(c) == [subj |-> c.subj, anchor |-> c.anchor, pat |-> c.pat,
                 code |-> Compile(c.pat), meant |-> Outcome(c.subj, c.pat, c.anchor)]
Statements == {Statement(c) : c \in Cases}

Boxes == case.code
B     == Boxes[at.box]
Subj  == case.subj
Ports == {"alpha", "beta", "sigma", "phi"}

(* A cell: the box it belongs to and what that box keeps there.            *)
Cell(k, pos)  == [by |-> k, cursor |-> pos, start |-> pos, pend |-> 0, prev |-> 0, arm |-> 0, saved |-> <<>>]
NoCell == Cell(None, 0)
Peek(depth)  == IF depth < Len(spine) THEN spine[Len(spine) - depth] ELSE NoCell
Popped(n)    == SubSeq(spine, 1, Len(spine) - n)
Pushed(c)    == Append(spine, c)
Pad(n)       == [j \in 1..n |-> Cell(at.box, 0)]
RollBackNone(n) == pend                       \* mutant: r12 is left as it is
RollBackToo(n) == SubSeq(pend, 1, n - 1)   \* mutant: one entry too many
RollBack(n)  == SubSeq(pend, 1, IF n < Len(pend) THEN n ELSE Len(pend))

Running == result = "running"
On(ops, port) == Running /\ at.box # None /\ at.port = port /\ B.op \in ops
Go(label) == at' = label
Succeed == Go(B.gamma)
Fail_   == Go(B.omega)
Keep(vs) == UNCHANGED <<case, result>> /\ UNCHANGED vs

Init ==
    /\ case \in Statements
    /\ at = Label(Begin, "alpha", 0)
    /\ cursor = 0 /\ start = 0
    /\ spine = <<>> /\ pend = <<>> /\ sets = <<>>
    /\ homes = [k \in 1..Len(Boxes) |-> NoCell]
    /\ result = "running"

(***************************************************************************)
(* MATCH_BEGIN: the first start, and the next one when an attempt has      *)
(* failed. A sealed failure ends the match from wherever it comes.         *)
(***************************************************************************)
BeginAlpha ==
    /\ On({"BEGIN"}, "alpha")
    /\ start' = 0 /\ cursor' = 0
    /\ Succeed
    /\ Keep(<<spine, homes, pend, sets>>)

BeginBeta ==
    /\ On({"BEGIN"}, "beta")
    /\ IF case.anchor \/ start + 1 > Len(Subj)
       THEN /\ Go(Label(Begin, "phi", 0))
            /\ UNCHANGED <<start, cursor>>
       ELSE /\ start' = start + 1
            /\ cursor' = start + 1
            /\ Succeed
    /\ Keep(<<spine, homes, pend, sets>>)

BeginFails ==
    /\ On({"BEGIN"}, "phi")
    /\ result' = "failed"
    /\ spine' = <<>> /\ pend' = <<>>
    /\ UNCHANGED <<case, at, cursor, start, homes, sets>>

EndAlpha ==
    /\ On({"END"}, "alpha")
    /\ result' = "matched"
    /\ UNCHANGED <<case, at, cursor, start, spine, homes, pend, sets>>

(***************************************************************************)
(* Boxes that match a fixed number of characters or none.                  *)
(***************************************************************************)
FixedOps == {"LIT", "LEN", "ANY", "NOTANY", "POS", "RPOS"}
Width == CASE B.op = "LIT" -> Len(B.text) [] B.op = "LEN" -> B.num [] B.op \in {"ANY", "NOTANY"} -> 1 [] OTHER -> 0
Fits ==
    CASE B.op = "LIT"  -> Holds(Subj, B, cursor)
      [] B.op = "LEN"  -> cursor + B.num <= Len(Subj)
      [] B.op = "ANY"  -> In(Subj, B, cursor)
      [] B.op = "NOTANY" -> cursor < Len(Subj) /\ ~In(Subj, B, cursor)
      [] B.op = "POS"  -> cursor = B.num
      [] B.op = "RPOS" -> cursor = Len(Subj) - B.num

FixedAlpha ==
    /\ On(FixedOps, "alpha")
    /\ IF Fits THEN cursor' = cursor + Width /\ Succeed
       ELSE UNCHANGED cursor /\ Fail_
    /\ Keep(<<start, spine, homes, pend, sets>>)
FixedBeta ==
    /\ On(FixedOps, "beta")
    /\ cursor' = cursor - Width
    /\ Fail_
    /\ Keep(<<start, spine, homes, pend, sets>>)

(***************************************************************************)
(* Boxes that move the cursor and remember where it was: the cell is       *)
(* carved at alpha and dropped when the box fails.                         *)
(***************************************************************************)
JumpOps == {"SPAN", "BREAK", "TAB", "RTAB", "REM", "BREAKX"}
Landing ==
    CASE B.op = "SPAN" -> SpanEnd(Subj, B, cursor)
      [] B.op \in {"BREAK", "BREAKX"} ->
            LET e == BreakEnds(Subj, B, cursor) IN IF e = <<>> THEN -1 ELSE e[1]
      [] B.op = "TAB"  -> IF B.num <= Len(Subj) THEN B.num ELSE -1
      [] B.op = "RTAB" -> Len(Subj) - B.num
      [] B.op = "REM"  -> Len(Subj)
Lands == Landing >= cursor /\ (B.op = "SPAN" => Landing > cursor)

JumpAlpha ==
    /\ On(JumpOps, "alpha")
    /\ IF Lands THEN spine' = Pushed(Cell(at.box, cursor)) /\ cursor' = Landing /\ Succeed
       ELSE UNCHANGED <<spine, cursor>> /\ Fail_
    /\ Keep(<<start, homes, pend, sets>>)
JumpBeta ==
    /\ On(JumpOps \ {"BREAKX"}, "beta")
    /\ cursor' = Peek(0).cursor
    /\ spine' = Popped(1)
    /\ Fail_
    /\ Keep(<<start, homes, pend, sets>>)
BreakxBeta ==
    /\ On({"BREAKX"}, "beta")
    /\ LET more == BreakEnds(Subj, B, cursor + 1)
       IN  IF more # <<>> THEN cursor' = more[1] /\ Succeed /\ UNCHANGED spine
           ELSE cursor' = Peek(0).cursor /\ spine' = Popped(1) /\ Fail_
    /\ Keep(<<start, homes, pend, sets>>)

(* ARB: the shortest stretch first, one character more at every beta.      *)
ArbAlpha ==
    /\ On({"ARB"}, "alpha")
    /\ spine' = Pushed(Cell(at.box, cursor))
    /\ Succeed
    /\ Keep(<<cursor, start, homes, pend, sets>>)
(* Mutant: one character past the end.                                     *)
ArbBetaPastEnd ==
    /\ On({"ARB"}, "beta")
    /\ LET c == Peek(0) IN
       IF c.cursor > Len(Subj)
       THEN cursor' = c.start /\ spine' = Popped(1) /\ Fail_
       ELSE cursor' = c.cursor + 1 /\ spine' = Append(Popped(1), [c EXCEPT !.cursor = @ + 1]) /\ Succeed
    /\ Keep(<<start, homes, pend, sets>>)
ArbBeta ==
    /\ On({"ARB"}, "beta")
    /\ LET c == Peek(0)
           next == c.start + (c.cursor - c.start) + 1
       IN  IF next > Len(Subj)
           THEN cursor' = c.start /\ spine' = Popped(1) /\ Fail_
           ELSE cursor' = next /\ spine' = Append(Popped(1), [c EXCEPT !.cursor = next]) /\ Succeed
    /\ Keep(<<start, homes, pend, sets>>)

(* BAL: the shortest balanced string first; a beta goes on from its end,   *)
(* where the depth is zero again.                                          *)
BalEnd(from) ==
    LET ends == {j \in (from + 1)..Len(Subj) : Depth(Subj, from, j) = 0}
        end  == FirstOf(ends)
    IN  IF ends = {} \/ \E k \in from..end : Depth(Subj, from, k) < 0 THEN 0 ELSE end
BalAlpha ==
    /\ On({"BAL"}, "alpha")
    /\ IF BalEnd(cursor) = 0 THEN UNCHANGED <<spine, cursor>> /\ Fail_
       ELSE cursor' = BalEnd(cursor) /\ spine' = Pushed([Cell(at.box, cursor) EXCEPT !.cursor = BalEnd(cursor)]) /\ Succeed
    /\ Keep(<<start, homes, pend, sets>>)
BalBeta ==
    /\ On({"BAL"}, "beta")
    /\ LET c == Peek(0)
           end == BalEnd(c.cursor)
       IN  IF end = 0 THEN cursor' = c.start /\ spine' = Popped(1) /\ Fail_
           ELSE cursor' = end /\ spine' = Append(Popped(1), [c EXCEPT !.cursor = end]) /\ Succeed
    /\ Keep(<<start, homes, pend, sets>>)

(***************************************************************************)
(* An alternation keeps two cells, the cursor with the arm to resume       *)
(* (upper) and the arm to try next (lower). Its exits are padded to one    *)
(* depth; if that is not known, the arm to resume goes on top instead.     *)
(***************************************************************************)
Astray == Label(None, "alpha", 0)   \* a jump through a cell that is not the box's
Resumed(j) == Go(IF j \in DOMAIN B.resume THEN B.resume[j] ELSE Astray)
PadOfNone(j) == 0   \* mutant: exits left at their own depths
PadOf(j) == IF B.live = Indefinite THEN 0 ELSE B.live - B.lives[j]

TryArm(j) == IF j > Len(B.entry) THEN Fail_ ELSE Go(B.entry[j])
AlternateAlpha ==
    /\ On({"ALTERNATE"}, "alpha")
    /\ spine' = spine \o <<[Cell(at.box, 0) EXCEPT !.arm = 2], Cell(at.box, cursor)>>
    /\ TryArm(1)
    /\ Keep(<<cursor, start, homes, pend, sets>>)
AlternateSigma ==
    /\ On({"ALTERNATE"}, "sigma")
    /\ IF B.live = Indefinite
       THEN spine' = Pushed([Cell(at.box, 0) EXCEPT !.arm = at.arm])
       ELSE LET padded == spine \o Pad(PadOf(at.arm))
                rec == Len(padded) - B.live
            IN  spine' = IF rec \in DOMAIN padded THEN [padded EXCEPT ![rec].arm = at.arm] ELSE padded
    /\ Succeed
    /\ Keep(<<cursor, start, homes, pend, sets>>)
AlternateBeta ==
    /\ On({"ALTERNATE"}, "beta")
    /\ LET j == Peek(IF B.live = Indefinite THEN 0 ELSE B.live).arm
           unpad == IF B.live = Indefinite THEN 1 ELSE IF j \in DOMAIN B.lives THEN PadOf(j) ELSE 0
       IN  /\ spine' = Popped(unpad)
           /\ Resumed(j)
    /\ Keep(<<cursor, start, homes, pend, sets>>)
AlternatePhi ==
    /\ On({"ALTERNATE"}, "phi")
    /\ cursor' = Peek(0).cursor
    /\ LET j == Peek(1).arm
       IN  /\ spine' = IF j > Len(B.entry) THEN Popped(2)
                       ELSE [spine EXCEPT ![Len(spine) - 1].arm = j + 1]
           /\ TryArm(j)
    /\ Keep(<<start, homes, pend, sets>>)

(***************************************************************************)
(* ARBNO. A body that leaves nothing on the spine needs one cell for all   *)
(* its instances (plain); one that leaves a known number of cells gets a   *)
(* cell for every instance, found at that depth (deep); any other keeps    *)
(* the topmost cell in the frame, with the homes of the body (framed).     *)
(***************************************************************************)
Form == IF B.live > 0 THEN "deep" ELSE IF B.framed THEN "framed" ELSE "plain"
Arbno(form, port) == On({"ARBNO"}, port) /\ Form = form
Into   == Go(B.entry[1])
Saved  == [k \in B.window |-> homes[k]]

(* The instance on top: for a framed ARBNO the one its home points to.     *)
TopCell == LET k == homes[at.box].prev IN IF k \in DOMAIN spine THEN spine[k] ELSE NoCell

ArbnoAlpha ==
    /\ On({"ARBNO"}, "alpha")
    /\ IF Form = "framed"
       THEN /\ spine' = Pushed([Cell(at.box, cursor) EXCEPT !.pend = Len(pend), !.prev = homes[at.box].prev,
                                                            !.saved = Saved])
            /\ homes' = [homes EXCEPT ![at.box].prev = Len(spine) + 1]
       ELSE spine' = Pushed(Cell(at.box, cursor)) /\ UNCHANGED homes
    /\ Succeed
    /\ Keep(<<cursor, start, pend, sets>>)

ArbnoBeta ==
    /\ On({"ARBNO"}, "beta")
    /\ pend' = IF Form = "framed" THEN RollBack(TopCell.pend) ELSE pend
    /\ Into
    /\ Keep(<<cursor, start, spine, homes, sets>>)

(* A body that has not moved the cursor is resumed, not repeated.          *)
(* Mutant: an empty instance counts as one more.                           *)
PlainSigmaTakesEmpty ==
    /\ Arbno("plain", "sigma")
    /\ spine' = Append(Popped(1), [Peek(0) EXCEPT !.cursor = cursor]) /\ Succeed
    /\ Keep(<<cursor, start, homes, pend, sets>>)
PlainSigma ==
    /\ Arbno("plain", "sigma")
    /\ IF cursor = Peek(0).cursor
       THEN Go(B.resume[1]) /\ UNCHANGED spine
       ELSE spine' = Append(Popped(1), [Peek(0) EXCEPT !.cursor = cursor]) /\ Succeed
    /\ Keep(<<cursor, start, homes, pend, sets>>)
DeepSigma ==
    /\ Arbno("deep", "sigma")
    /\ LET c == Peek(B.live)
       IN  IF cursor = c.cursor
           THEN Go(B.resume[1]) /\ UNCHANGED spine
           ELSE spine' = Pushed([Cell(at.box, cursor) EXCEPT !.start = c.start]) /\ Succeed
    /\ Keep(<<cursor, start, homes, pend, sets>>)
FramedSigma ==
    /\ Arbno("framed", "sigma")
    /\ IF cursor = TopCell.cursor
       THEN Go(B.resume[1]) /\ UNCHANGED <<spine, homes>>
       ELSE /\ spine' = Pushed([Cell(at.box, cursor) EXCEPT !.start = TopCell.start, !.pend = Len(pend),
                                            !.prev = homes[at.box].prev, !.saved = Saved])
            /\ homes' = [homes EXCEPT ![at.box].prev = Len(spine) + 1]
            /\ Succeed
    /\ Keep(<<cursor, start, pend, sets>>)

(* No further instance: give up the last one and resume its body.          *)
PlainPhi ==
    /\ Arbno("plain", "phi")
    /\ IF cursor # Peek(0).start /\ ~B.sealed
       THEN Go(B.resume[1]) /\ UNCHANGED spine
       ELSE spine' = Popped(1) /\ Fail_
    /\ Keep(<<cursor, start, homes, pend, sets>>)
DeepPhi ==
    /\ Arbno("deep", "phi")
    /\ spine' = Popped(1)
    /\ IF cursor # Peek(0).start THEN Go(B.resume[1]) ELSE Fail_
    /\ Keep(<<cursor, start, homes, pend, sets>>)
(* Mutant: the home still points to the instance given up.                 *)
FramedPhiHomeKept ==
    /\ Arbno("framed", "phi")
    /\ cursor' = TopCell.cursor /\ spine' = Popped(1)
    /\ IF TopCell.cursor = TopCell.start THEN Fail_ ELSE Go(B.resume[1])
    /\ Keep(<<start, homes, pend, sets>>)
FramedPhi ==
    /\ Arbno("framed", "phi")
    /\ cursor' = TopCell.cursor
    /\ LET back == [homes EXCEPT ![at.box].prev = TopCell.prev]
       IN  IF TopCell.cursor = TopCell.start
           THEN homes' = back /\ Fail_
           ELSE /\ homes' = [k \in DOMAIN homes |->
                               IF k \in DOMAIN TopCell.saved THEN TopCell.saved[k] ELSE back[k]]
                /\ Go(B.resume[1])
    /\ spine' = Popped(1)
    /\ Keep(<<start, pend, sets>>)

(***************************************************************************)
(* FENCE and FENCE(P). The body's cells are dropped when it has succeeded; *)
(* a resumed fence puts the cursor and r12 back and fails.                 *)
(***************************************************************************)
Fence0Alpha ==
    /\ On({"FENCE0"}, "alpha")
    /\ spine' = Popped(B.live)
    /\ Succeed
    /\ Keep(<<cursor, start, homes, pend, sets>>)
FailingBeta ==
    /\ On({"FENCE0", "SAVE", "IMM", "ABORT", "ATP"}, "beta")
    /\ spine' = IF MarkCell(B.op) THEN Popped(1) ELSE spine
    /\ Fail_
    /\ Keep(<<cursor, start, homes, pend, sets>>)

Fence1Alpha ==
    /\ On({"FENCE1"}, "alpha")
    /\ IF B.framed
       THEN /\ homes' = [homes EXCEPT ![at.box] = [Cell(at.box, cursor) EXCEPT !.pend = Len(pend), !.prev = Len(spine)]]
            /\ UNCHANGED spine
       ELSE /\ spine' = Pushed([Cell(at.box, cursor) EXCEPT !.pend = Len(pend)])
            /\ UNCHANGED homes
    /\ Go(B.entry[1])
    /\ Keep(<<cursor, start, pend, sets>>)
Fence1Sigma ==
    /\ On({"FENCE1"}, "sigma")
    /\ spine' = IF B.framed THEN SubSeq(spine, 1, homes[at.box].prev) ELSE Popped(B.live)
    /\ Succeed
    /\ Keep(<<cursor, start, homes, pend, sets>>)
Fence1Gives ==
    /\ On({"FENCE1"}, "beta") \/ On({"FENCE1"}, "phi")
    /\ LET c == IF B.framed THEN homes[at.box] ELSE Peek(0)
       IN  cursor' = c.cursor /\ pend' = RollBack(c.pend)
    /\ spine' = IF B.framed THEN spine ELSE Popped(1)
    /\ Fail_
    /\ Keep(<<start, homes, sets>>)

AbortAlpha ==
    /\ On({"ABORT"}, "alpha")
    /\ Fail_
    /\ Keep(<<cursor, start, spine, homes, pend, sets>>)

(***************************************************************************)
(* Captures. The save remembers where the body starts, in its cell or in   *)
(* the frame; P . V defers the assignment, P $ V makes it at once.         *)
(***************************************************************************)
SaveAlpha ==
    /\ On({"SAVE"}, "alpha")
    /\ spine' = Pushed(Cell(at.box, cursor))
    /\ homes' = IF B.framed THEN [homes EXCEPT ![at.box] = Cell(at.box, cursor)] ELSE homes
    /\ Succeed
    /\ Keep(<<cursor, start, pend, sets>>)

SavedAt == IF B.framed THEN homes[B.save].cursor ELSE Peek(B.live).cursor
Stretch == Span3(B.text[1], SavedAt, cursor)
CondAlpha ==
    /\ On({"COND"}, "alpha")
    /\ pend' = Append(pend, Stretch)
    /\ Succeed
    /\ Keep(<<cursor, start, spine, homes, sets>>)
CondBeta ==
    /\ On({"COND"}, "beta")
    /\ pend' = RollBack(Len(pend) - 1)
    /\ Fail_
    /\ Keep(<<cursor, start, spine, homes, sets>>)
ImmAlpha ==
    /\ On({"IMM"}, "alpha")
    /\ sets' = Append(sets, Stretch)
    /\ Succeed
    /\ Keep(<<cursor, start, spine, homes, pend>>)

(* @V: the position, assigned on the way. Its cell is carved at alpha and  *)
(* kept, though the box has nothing to put there.                          *)
AtpAlpha ==
    /\ On({"ATP"}, "alpha")
    /\ sets' = Append(sets, Span3(B.text[1], cursor, cursor))
    /\ spine' = Pushed(Cell(at.box, 0))
    /\ Succeed
    /\ Keep(<<cursor, start, homes, pend>>)

(* The arm FAIL of an alternation, or a body FAIL.                         *)
GotoAlpha ==
    /\ On({"GOTO"}, "alpha")
    /\ Succeed
    /\ Keep(<<cursor, start, spine, homes, pend, sets>>)

Next ==
    \/ BeginAlpha \/ BeginBeta \/ BeginFails \/ EndAlpha
    \/ FixedAlpha \/ FixedBeta \/ JumpAlpha \/ JumpBeta \/ BreakxBeta \/ ArbAlpha \/ ArbBeta \/ BalAlpha \/ BalBeta
    \/ AlternateAlpha \/ AlternateSigma \/ AlternateBeta \/ AlternatePhi
    \/ ArbnoAlpha \/ ArbnoBeta \/ PlainSigma \/ DeepSigma \/ FramedSigma
    \/ PlainPhi \/ DeepPhi \/ FramedPhi
    \/ Fence0Alpha \/ FailingBeta \/ Fence1Alpha \/ Fence1Sigma \/ Fence1Gives \/ AbortAlpha
    \/ SaveAlpha \/ CondAlpha \/ CondBeta \/ ImmAlpha \/ AtpAlpha \/ GotoAlpha

Spec == Init /\ [][Next]_vars /\ WF_vars(Next)

(***************************************************************************)
(* The records of a match, of the frame and of the spine.                  *)
(***************************************************************************)
CellSet(c) == c.by \in 0..Len(Boxes) /\ {c.cursor, c.start, c.pend, c.prev, c.arm} \subseteq Nat

(* Registers stay in range and a box is entered at a port it has.          *)
TypeOK ==
    /\ at.box \in 1..Len(Boxes) /\ at.port \in Ports
    /\ cursor \in 0..Len(Subj) /\ start \in 0..Len(Subj)
    /\ \A j \in DOMAIN spine : CellSet(spine[j])
    /\ \A k \in DOMAIN homes : CellSet(homes[k])
    /\ result \in {"running", "matched", "failed"}

(***************************************************************************)
(* A statement ends as the meaning of its pattern says: it matches or not, *)
(* the same characters, with the same deferred assignments in the same     *)
(* order. Backtracking through nested alternations, iterations, fences and *)
(* captures must not lose, add or reorder a way to match.                  *)
(***************************************************************************)
MatchesAsMeant ==
    LET e == case.meant
    IN  /\ result = "matched" => e.ok /\ start = e.from /\ cursor = e.to /\ pend = e.caps
        /\ result = "failed"  => ~e.ok

(* Immediate assignments happen in the order in which the pattern is tried *)
(* and no other: at any time those made are the first of those meant, and  *)
(* at the end they are all of them.                                        *)
AssignsAsMeant ==
    LET e == case.meant.sets
    IN  /\ Len(sets) <= Len(e) /\ sets = SubSeq(e, 1, Len(sets))
        /\ result # "running" => sets = e

(***************************************************************************)
(* The cells a box is about to read at the distance the planner gave it    *)
(* are its own: everything pushed since has been dropped again, and what   *)
(* the other boxes keep has been counted right.                            *)
(***************************************************************************)
Owner == IF B.op \in {"COND", "IMM"} THEN B.save ELSE at.box
Depths ==
    CASE On(JumpOps \cup {"ARB", "BAL", "SAVE", "ATP"}, "beta") -> {0}
      [] On({"ALTERNATE"}, "beta") -> {IF B.live = Indefinite THEN 0 ELSE B.live}
      [] On({"ALTERNATE"}, "phi")  -> {0, 1}
      [] Arbno("plain", "sigma") \/ Arbno("plain", "phi") \/ Arbno("deep", "phi") \/ Arbno("framed", "phi") -> {0}
      [] Arbno("deep", "sigma") -> {B.live}
      [] On({"FENCE1"}, "sigma") /\ ~B.framed -> {B.live}
      [] On({"FENCE1"}, "beta") /\ ~B.framed -> {0}
      [] On({"COND", "IMM"}, "alpha") /\ ~B.framed -> {B.live}
      [] OTHER -> {}
FindsItsCells == \A d \in Depths : Peek(d).by = Owner

(* The instance an ARBNO's home points to is on the spine and is its own;  *)
(* so is the top of the deferred assignments when one is withdrawn.        *)
HomesAreFresh ==
    /\ On({"ARBNO"}, "sigma") /\ Form = "framed" => TopCell.by = at.box
    /\ On({"FENCE1"}, "sigma") /\ B.framed => homes[at.box].prev <= Len(spine)
    /\ On({"COND"}, "beta") => pend # <<>> /\ Last(pend).var = B.text[1]

(* An attempt that has failed has left nothing behind: the next start      *)
(* finds the spine and the deferred assignments empty.                     *)
LeavesNothing == On({"BEGIN"}, "beta") => spine = <<>> /\ pend = <<>>

(* What was deferred before a fence was entered is still there when the    *)
(* fence gives up, so that putting r12 back never uncovers old entries.    *)
KeepsOlderCaptures ==
    /\ On({"FENCE1"}, "beta") \/ On({"FENCE1"}, "phi") =>
        Len(pend) >= (IF B.framed THEN homes[at.box] ELSE Peek(0)).pend
    /\ On({"ARBNO"}, "beta") /\ Form = "framed" => Len(pend) >= TopCell.pend

(* Every statement ends.                                                   *)
Terminates == <>(result # "running")
=============================================================================
