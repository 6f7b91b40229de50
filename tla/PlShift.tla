------------------------------- MODULE PlShift -------------------------------
(* Delimited continuations of the Prolog runtime: reset/3 and shift/1        *)
(* (the prelude text of src/parsers/prolog/prolog_parse.c over the rt_plco_* *)
(* functions of src/runtime/rt/rt.c).                                        *)
(*                                                                           *)
(* The goal of a reset runs on a thread of its own, with a chain of choices  *)
(* of its own, but on its creator's trail: only one of them runs at a time   *)
(* and hands the trail top over.  Two library choices splice the chains      *)
(* into one order of failure.  After an answer the creator's $reset_redo     *)
(* stands for the goal's older choices; after a resumption the goal's        *)
(* $co_unwound stands for the choices its caller made in between.  A word in *)
(* the trail's header, the floor, keeps a commit from dropping entries that  *)
(* are another owner's.                                                      *)
(*                                                                           *)
(* `living' is what is still to be retried: choices of all contexts, the one *)
(* with the highest mark first.  No code reads it.                           *)
EXTENDS Integers, Sequences, SequencesExt

CONSTANTS Main,         \* the context the program starts in
          Goals,        \* the goals a reset may start
          MaxHeap,      \* bound: variables made
          MaxTrail,     \* bound: entries; the arena refuses beyond its size
          MaxChoices,   \* bound: choices a program opens in one context
          MaxGen,       \* bound: answers of one goal
          Strict        \* leave out the programs that lose their way: a choice
                        \* mark that sweeps a living sentinel, and a goal whose
                        \* floor is back at its base and that cuts, or has cut,
                        \* past a shift

ASSUME Bounds == /\ Main \notin Goals
                 /\ Goals \cap 0 .. MaxHeap = {}
                 /\ {MaxHeap, MaxTrail, MaxChoices, MaxGen} \subseteq Nat
                 /\ Strict \in BOOLEAN

VARIABLES mem,      \* variables: 0 unbound, 1 bound; of a goal: the generation
                    \* of the continuation the program holds, 0 for none
          top,      \* the heap frontier
          trail,    \* the entries below the trail top
          word,     \* PL_TR_FLOOR_OFF, the floor word of the header
          chain,    \* the choices of each context, the youngest last (r13)
          ctx,      \* the records of the contexts
          running,  \* the contexts that wait for a goal, each for the next,
                    \* and last the one that runs
          failing,  \* it can only fail: a library goal of it has just failed
          living,   \* history: the choices to be retried, <<context, index>>
          past,     \* history: the last cut of a context past a shift: the
                    \* choices it kept, and the youngest choice under it then
          ended     \* "no", or how the program came to its end

vars == <<mem, top, trail, word, chain, ctx, running, failing, living, past, ended>>

Ctx == {Main} \cup Goals

Absent == 0     \* pl_park: no such goal (yet, or any more)
Going == 1      \* between $co_mark and an answer: it runs, or waits for a goal
Answered == 2   \* parked in $co_yield
Spent == 3      \* parked in $co_unwound: what followed the answer has failed

Init ==
    /\ mem = [g \in Goals |-> 0] /\ top = 0
    /\ trail = <<[cell |-> 0, old |-> 0, hb |-> 0]>> /\ word = 0
    /\ chain = [c \in Ctx |-> IF c = Main THEN <<[mark |-> 1, kind |-> "top", of |-> Main,
                                                  gen |-> 0, snap |-> mem]>> ELSE <<>>]
    /\ ctx = [c \in Ctx |-> [park |-> Absent, seq |-> 0, gen |-> 0, base |-> 0, floor |-> 0,
                             keep |-> 0, tr |-> 0]]
    /\ running = <<Main>> /\ failing = FALSE
    /\ living = {<<Main, 1>>}
    /\ past = [c \in Ctx |-> [to |-> 0, under |-> <<Main, 1>>]]
    /\ ended = "no"

cur == Last(running)
Activator == running[Len(running) - 1]      \* only when a goal runs

Higher(i, j) == IF i > j THEN i ELSE j
Lower(i, j) == IF i < j THEN i ELSE j

-----------------------------------------------------------------------------
(* The trail                                                                 *)

Entry(x) == [cell |-> x, old |-> mem[x], hb |-> 0]
Sentinel == [cell |-> 0, old |-> 0, hb |-> top]
IsSentinel(e) == e.cell = 0

B == Last(chain[cur])
MarkOf(c) == Last(chain[c]).mark

(* Would a binding of x by context o be recorded under its choice c of trail *)
(* t?  A goal's thread has its stack below the heap, and the test takes all  *)
(* that lies above the stack pointer for cells of older frames.  Main's rule *)
(* is HB, the frontier in the sentinel under the mark; the variables for     *)
(* continuations are older than all choices.                                 *)
Older(t, o, c, x) ==
    o # Main \/ x \in Goals \/ c.mark > Len(t) \/ ~IsSentinel(t[c.mark]) \/ x <= t[c.mark].hb

(* A choice mark first drops the sentinels on top of the trail that lie      *)
(* above the mark of the youngest choice of the running context.             *)
Trimmed(t, m) ==
    IF Len(t) <= m THEN t
    ELSE SubSeq(t, 1, CHOOSE n \in m .. Len(t) :
             /\ \A i \in n + 1 .. Len(t) : IsSentinel(t[i])
             /\ n = m \/ ~IsSentinel(t[n]))
Marked(t, m) == Append(Trimmed(t, m), Sentinel)

Choice(t, m, kind, g, n) ==
    [mark |-> Len(Trimmed(t, m)) + 1, kind |-> kind, of |-> g, gen |-> n, snap |-> mem]

Mark(i) == chain[i[1]][i[2]].mark

(* The choice mark may drop the sentinel of a choice still to be retried.    *)
SweepsTheLiving(L, t, m) == \E i \in L : Mark(i) \in Len(Trimmed(t, m)) + 1 .. Len(t)
MayMark(L, t, m) == /\ Len(Trimmed(t, m)) < MaxTrail
                    /\ Strict => ~SweepsTheLiving(L, t, m)

(* Popping the entries of t above mark m: a variable ends with what the      *)
(* oldest of its entries saved.                                              *)
EntriesOf(t, m, x) == {i \in m + 1 .. Len(t) : t[i].cell = x}
Oldest(S) == CHOOSE i \in S : \A j \in S : i <= j
Restored(t, me, m, x) ==
    IF EntriesOf(t, m, x) = {} THEN me[x] ELSE t[Oldest(EntriesOf(t, m, x))].old
Unwound(m) == [x \in DOMAIN mem |-> Restored(trail, mem, m, x)]

(* The walk of a commit to choice c of context o: of the entries above n     *)
(* those stay that the trail test asks for under c.                          *)
Walked(t, n, o, c) ==
    LET kept[i \in 0 .. Len(t)] ==
            IF i <= n THEN SubSeq(t, 1, i)
            ELSE IF ~IsSentinel(t[i]) /\ Older(t, o, c, t[i].cell) THEN Append(kept[i - 1], t[i])
            ELSE kept[i - 1]
    IN kept[Len(t)]

(* Mutant: a commit judges entries below the floor too.                      *)
TidyBelowFloor(t, w, o, c) == Walked(t, c.mark, o, c)

(* It judges what lies above the mark of the choice it leaves and above the  *)
(* floor w.  (The watermark that spares a second look at an entry is in      *)
(* PlTrail.)                                                                 *)
Tidy(t, w, o, c) == Walked(t, Higher(c.mark, w), o, c)

(* The condition of an if-then-else, or a clause left by a cut, opens a      *)
(* choice of context o and commits back to the one before it.                *)
Tried(t, w, o) == Tidy(Marked(t, MarkOf(o)), w, o, Last(chain[o]))

-----------------------------------------------------------------------------
(* What a program does between two library calls                             *)

Runs == ended = "no" /\ ~failing
Stays == UNCHANGED <<ctx, running, failing, ended>>

NewVar ==
    /\ Runs /\ top < MaxHeap
    /\ top' = top + 1
    /\ mem' = [x \in DOMAIN mem \cup {top + 1} |-> IF x = top + 1 THEN 0 ELSE mem[x]]
    /\ UNCHANGED <<trail, word, chain, living, past>> /\ Stays

Bind(x) ==
    /\ Runs /\ mem[x] = 0
    /\ Len(trail) < MaxTrail
    /\ mem' = [mem EXCEPT ![x] = 1]
    /\ trail' = IF Older(trail, cur, B, x) THEN Append(trail, Entry(x)) ELSE trail
    /\ UNCHANGED <<top, word, chain, living, past>> /\ Stays

OwnChoices(c) == Len(SelectSeq(chain[c], LAMBDA d : d.kind = "user"))

Open ==
    /\ Runs /\ OwnChoices(cur) < MaxChoices /\ MayMark(living, trail, MarkOf(cur))
    /\ trail' = Marked(trail, MarkOf(cur))
    /\ chain' = [chain EXCEPT ![cur] =
                    Append(@, Choice(trail, MarkOf(cur), "user", cur, 0))]
    /\ living' = living \cup {<<cur, Len(chain[cur]) + 1>>}
    /\ UNCHANGED <<mem, top, word, past>> /\ Stays

(* Of the first k choices of a chain, where its goal last went on after a    *)
(* shift, or the first.                                                      *)
ShiftIn(s, k) ==
    CHOOSE n \in 1 .. k : /\ n = 1 \/ s[n].kind = "unwound"
                          /\ \A i \in n + 1 .. k : s[i].kind # "unwound"
LastShift(c) == ShiftIn(chain[c], Len(chain[c]))

(* Has the goal cut past where it would stand now for its caller's choices?  *)
(* What it has done since begins above them.                                 *)
Lost(c) == LastShift(c) <= past[c].to
Begin(c) == IF Lost(c) THEN Mark(past[c].under) + 1 ELSE chain[c][LastShift(c)].mark

CutsPast(n) == n < LastShift(cur) \/ n <= past[cur].to

(* A cut back to the n-th choice dismisses the younger ones.  One that cuts  *)
(* past the last shift of its goal takes away the goal's own, and the one    *)
(* that stands for its caller's; those of its caller remain.                 *)
Left(n) ==
    {i \in living : IF CutsPast(n) THEN Mark(i) < Begin(cur) /\ (i[1] = cur => i[2] <= n)
                    ELSE Mark(i) <= chain[cur][n].mark}
Youngest(L) == CHOOSE i \in L : \A j \in L : Mark(j) <= Mark(i)

Commit(n) ==
    /\ Runs /\ n < Len(chain[cur])
    /\ Strict /\ CutsPast(n) => ctx[cur].floor > ctx[cur].base
    /\ chain' = [chain EXCEPT ![cur] = SubSeq(@, 1, n)]
    /\ trail' = Tidy(trail, word, cur, chain[cur][n])
    /\ living' = Left(n)
    /\ past' = IF CutsPast(n) THEN [past EXCEPT ![cur] = [to |-> n, under |-> Youngest(Left(n))]]
               ELSE past
    /\ UNCHANGED <<mem, top, word>> /\ Stays

-----------------------------------------------------------------------------
(* Hand-over                                                                 *)

FloorOf(r) == Higher(r.keep, r.floor)

(* reset of a fresh goal: $co_start runs $co_body on g's thread, whose       *)
(* registers are its creator's, so its first choice is marked against the    *)
(* creator's.  The floor is put where the trail then ends, one above the     *)
(* dead sentinel of the clause choice of $co_enter.                          *)
Start(g) ==
    /\ Runs /\ g # cur /\ ctx[g].park = Absent /\ ctx[g].seq = 0
    /\ MayMark(living, trail, MarkOf(cur))
    /\ LET at == Len(Trimmed(trail, MarkOf(cur))) + 1
       IN /\ ctx' = [ctx EXCEPT ![g] = [@ EXCEPT !.park = Going, !.base = at, !.floor = at,
                                                 !.keep = 0, !.tr = at]]
          /\ word' = at
    /\ trail' = Marked(trail, MarkOf(cur))
    /\ chain' = [chain EXCEPT ![g] = <<Choice(trail, MarkOf(cur), "finish", g, 0)>>]
    /\ living' = living \cup {<<g, 1>>}
    /\ running' = Append(running, g)
    /\ UNCHANGED <<mem, top, failing, past, ended>>

(* What context a finds when a goal it has activated with trail top r comes  *)
(* to rest with trail t: its own keep never lies above what its trail was,   *)
(* and covers the entries of the goal while that may still be resumed.       *)
Kept(a, r, t, resumable) ==
    LET k == Lower(ctx[a].keep, r)
    IN IF resumable THEN Higher(k, Len(t)) ELSE k
WordAfter(a, k) == Higher(k, ctx[a].floor)

(* The record of g as it is entered from the current context with trail t.   *)
Entered(g, t, f) == [ctx[g] EXCEPT !.park = Going, !.floor = f, !.tr = Len(t)]

(* reset of a continuation g: $co_enter takes its first clause, and so cuts, *)
(* and resumes the goal at its shift.  There the program goes on behind      *)
(* $co_unwound, which stands for all that the other contexts have opened     *)
(* since the answer; the floor keeps its commits off their entries.  A       *)
(* continuation is good for one resumption.                                  *)
Resumable(g) == ctx[g].park = Answered /\ ctx[g].gen = mem[g]

Unwinding(g, t) == Append(chain[g], Choice(t, MarkOf(g), "unwound", g, mem[g]))

(* Mutant: the goal goes on without the choice that stands for its caller's. *)
CallWithoutUnwound(g) ==
    LET t == Tried(trail, word, cur)
    IN /\ Runs /\ g # cur /\ mem[g] # 0 /\ Resumable(g)
       /\ MayMark(living, trail, MarkOf(cur))
       /\ ctx' = [ctx EXCEPT ![g] = Entered(g, t, Len(t))]
       /\ word' = FloorOf(ctx'[g])
       /\ trail' = t /\ running' = Append(running, g)
       /\ UNCHANGED <<mem, top, chain, failing, living, past, ended>>

Call(g) ==
    LET t == Tried(trail, word, cur)
    IN /\ Runs /\ g # cur /\ mem[g] # 0 /\ Resumable(g)
       /\ MayMark(living, trail, MarkOf(cur)) /\ MayMark(living, t, MarkOf(g))
       /\ ctx' = [ctx EXCEPT ![g] = Entered(g, t, Len(t))]
       /\ word' = FloorOf(ctx'[g])
       /\ trail' = Marked(t, MarkOf(g))
       /\ chain' = [chain EXCEPT ![g] = Unwinding(g, t)]
       /\ living' = living \cup {<<g, Len(chain[g]) + 1>>}
       /\ running' = Append(running, g)
       /\ UNCHANGED <<mem, top, failing, past, ended>>

CallRefused(g) ==
    /\ Runs /\ g # cur /\ mem[g] # 0 /\ ~Resumable(g)
    /\ ended' = "refused"
    /\ UNCHANGED <<mem, top, trail, word, chain, ctx, running, failing, living, past>>

(* The goal answers, by shift or by coming to its end.  Its activator gets   *)
(* the trail top with the answer; unless the goal is left with nothing but   *)
(* its finish, $reset_redo goes on the activator's chain, and then C is      *)
(* bound.  (A shift with another ball than the reset's is passed on by       *)
(* $reset_k; here all balls are the same.)                                   *)
Answer(shifted) ==
    LET g == cur
        a == Activator
        n == ctx[g].seq + 1
        det == Len(chain[g]) = 1
        L == IF det THEN living \ {<<g, 1>>} ELSE living
        t == IF shifted THEN Tried(trail, word, g) ELSE trail
        k == Kept(a, ctx[g].tr, t, TRUE)
        w == WordAfter(a, k)
    IN /\ Runs /\ g \in Goals /\ n <= MaxGen
       /\ shifted => MayMark(living, trail, MarkOf(g))
       /\ MayMark(L, t, MarkOf(a))
       /\ ctx' = [ctx EXCEPT ![g].park = Answered, ![g].seq = n, ![g].gen = n, ![a].keep = k]
       /\ word' = w
       /\ trail' = Append(IF det THEN Tried(t, w, a) ELSE Marked(t, MarkOf(a)), Entry(g))
       /\ mem' = [mem EXCEPT ![g] = IF shifted THEN n ELSE 0]
       /\ IF det
          THEN living' = L /\ UNCHANGED chain
          ELSE /\ living' = L \cup {<<a, Len(chain[a]) + 1>>}
               /\ chain' = [chain EXCEPT ![a] = Append(@, Choice(t, MarkOf(a), "redo", g, n))]
       /\ running' = Front(running)
       /\ UNCHANGED <<top, failing, past, ended>>

-----------------------------------------------------------------------------
(* Failure: the youngest choice of the context that runs is retried          *)

InOrder == <<cur, Len(chain[cur])>> \in living /\ \A i \in living : Mark(i) <= B.mark

Fails(kind) ==
    /\ ended = "no" /\ InOrder /\ B.kind = kind
    /\ mem' = Unwound(B.mark)
    /\ trail' = SubSeq(trail, 1, B.mark)
    /\ UNCHANGED <<top, past>>
Pops == /\ chain' = [chain EXCEPT ![cur] = Front(@)]
        /\ living' = living \ {<<cur, Len(chain[cur])>>}

Retry == Fails("user") /\ failing' = FALSE /\ UNCHANGED <<word, chain, ctx, running, living, ended>>
RetryLast == Fails("user") /\ Pops /\ failing' = FALSE /\ UNCHANGED <<word, ctx, running, ended>>

Exhausted ==
    /\ Fails("top")
    /\ ended' = "failed"
    /\ UNCHANGED <<word, chain, ctx, running, failing, living>>

(* $reset_redo: the goal is to fail back into the choices it had at its      *)
(* answer; its floor is again where it began.                                *)
Redoable == ctx[B.of].park \in {Answered, Spent} /\ ctx[B.of].gen = B.gen

(* Mutant: the goal keeps the floor of its last resumption.                  *)
RedoKeepsFloor ==
    /\ Fails("redo") /\ Pops /\ Redoable
    /\ ctx' = [ctx EXCEPT ![B.of] = Entered(B.of, trail', ctx[B.of].floor)]
    /\ word' = FloorOf(ctx'[B.of])
    /\ running' = Append(running, B.of) /\ failing' = TRUE
    /\ UNCHANGED ended

Redo ==
    /\ Fails("redo") /\ Pops /\ Redoable
    /\ Strict => ~Lost(B.of)
    /\ ctx' = [ctx EXCEPT ![B.of] = Entered(B.of, trail', ctx[B.of].base)]
    /\ word' = FloorOf(ctx'[B.of])
    /\ running' = Append(running, B.of) /\ failing' = TRUE
    /\ UNCHANGED ended

RedoRefused ==
    /\ Fails("redo") /\ Pops /\ ~Redoable
    /\ ended' = "refused"
    /\ UNCHANGED <<word, ctx, running, failing>>

(* A program the model follows no further.                                   *)
RedoLost ==
    /\ ended = "no" /\ InOrder /\ B.kind = "redo" /\ Redoable
    /\ Strict /\ Lost(B.of)
    /\ ended' = "lost"
    /\ UNCHANGED <<mem, top, trail, word, chain, ctx, running, failing, living, past>>

(* The goal comes to rest without an answer, and its activator fails: at     *)
(* $co_unwound, from where it can still be sent back to its older choices,   *)
(* and at $co_finish, after which it is gone.  (rt_plco_park refuses when    *)
(* the trail ends below the goal's floor: StaysAboveFloor.)                  *)
Rests(g, park, gen) ==
    LET a == Activator
        k == Kept(a, ctx[g].tr, trail', park = Spent)
    IN /\ ctx' = [ctx EXCEPT ![g].park = park, ![g].gen = gen, ![a].keep = k]
       /\ word' = WordAfter(a, k)
       /\ running' = Front(running) /\ failing' = TRUE
       /\ UNCHANGED ended

Unwind == Fails("unwound") /\ Pops /\ Rests(cur, Spent, B.gen)
Finish == Fails("finish") /\ Pops /\ Rests(cur, Absent, ctx[cur].gen)

(* The context that runs can only fail into a choice that is not the next in *)
(* line.                                                                     *)
OutOfOrder ==
    /\ ended = "no" /\ ~InOrder
    /\ ended' = "astray"
    /\ UNCHANGED <<mem, top, trail, word, chain, ctx, running, failing, living, past>>

Ended == ended # "no" /\ UNCHANGED vars

Next ==
    \/ NewVar
    \/ \E x \in DOMAIN mem \ Goals : Bind(x)
    \/ Open
    \/ \E n \in 1 .. MaxChoices + 3 : Commit(n)
    \/ \E g \in Goals : Start(g) \/ Call(g) \/ CallRefused(g)
    \/ Answer(TRUE) \/ Answer(FALSE)
    \/ Retry \/ RetryLast \/ Exhausted
    \/ Redo \/ RedoRefused \/ RedoLost \/ Unwind \/ Finish
    \/ OutOfOrder
    \/ Ended

Spec == Init /\ [][Next]_vars

-----------------------------------------------------------------------------
(* What the splicing promises                                                *)

Variables(n) == Goals \cup 1 .. n
Values == 0 .. MaxGen + 1
Entries == [cell : Goals \cup 0 .. MaxHeap, old : Values, hb : Nat]
Headers == [mark : Nat, kind : {"top", "finish", "user", "redo", "unwound"}, of : Ctx,
            gen : Nat, snap : UNION {[Variables(n) -> Values] : n \in 0 .. MaxHeap}]
Contexts == [park : {Absent, Going, Answered, Spent}, seq : Nat, gen : Nat,
             base : Nat, floor : Nat, keep : Nat, tr : Nat]

TypeOK ==
    /\ top \in 0 .. MaxHeap /\ mem \in [Variables(top) -> Values]
    /\ trail \in Seq(Entries) /\ word \in Nat
    /\ chain \in [Ctx -> Seq(Headers)] /\ ctx \in [Ctx -> Contexts]
    /\ running \in Seq(Ctx) /\ running # <<>> /\ failing \in BOOLEAN
    /\ living \subseteq Ctx \X Nat /\ past \in [Ctx -> [to : Nat, under : Ctx \X Nat]]
    /\ ended \in {"no", "failed", "refused", "lost", "astray"}

(* Contexts that share a trail fail in one order, the youngest choice of     *)
(* all first, whichever of them runs: only a goal that has cut past a shift, *)
(* and has then failed out of all it has done since, can fail into a choice  *)
(* older than one of its caller's.                                           *)
Chronological == ended = "astray" => Lost(cur) /\ Len(chain[cur]) = past[cur].to

(* Whichever context has made, bound or committed since: failing back to any *)
(* choice still standing, in whatever context, finds every variable that was *)
(* there as it was.                                                          *)
RestoresVariables ==
    \A i \in living :
        LET c == chain[i[1]][i[2]]
        IN \A x \in DOMAIN c.snap : Restored(trail, mem, c.mark, x) = c.snap[x]

(* A goal runs on a trail that never ends below its floor, so that it is     *)
(* never refused its answer, its failure or its end for having backtracked   *)
(* into another's entries.                                                   *)
StaysAboveFloor == ended = "no" /\ cur \in Goals => Len(trail) >= ctx[cur].floor

(* "sentinels at the trail top above the current B's mark are dead choices'  *)
(* and are dropped" (src/src/templates/x86/x86_call.cpp:91): every choice    *)
(* still to be retried has a sentinel of its own.                            *)
SweptAreDead ==
    \A i, j \in living :
        /\ Mark(i) <= Len(trail) /\ IsSentinel(trail[Mark(i)])
        /\ Mark(i) = Mark(j) => i = j

=============================================================================
