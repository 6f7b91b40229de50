------------------------------ MODULE PlTrail ------------------------------
(* The trail of the Prolog runtime (src/runtime/rt/rt_pl_trail.c, the inline *)
(* forms of src/templates/x86/x86_call.cpp and the choice templates).        *)
(*                                                                           *)
(* A binding is recorded only when the cell is older than the youngest       *)
(* choice: a stack cell is compared with the choice's frame top, a heap cell *)
(* with HB, the heap frontier at the choice's creation, which a sentinel     *)
(* entry just under the choice's mark carries.  Three things disturb that    *)
(* rule after the fact: a commit drops the entries (and the dead sentinels)  *)
(* the older choice does not need, a non-backtrackable store makes a young   *)
(* cell reachable from before the choice and so raises every HB, and the     *)
(* collector slides the heap and maps every HB with it.                      *)
(*                                                                           *)
(* A cell is a number: heap cells 1 .. top, stack cells -1 .. -depth, the    *)
(* two words of a backtrackable global's box above the heap.  Each choice    *)
(* carries the values its backtrack has to bring back (snap), which no code  *)
(* reads.                                                                    *)
EXTENDS Integers, Sequences, FiniteSets, SequencesExt

CONSTANTS MaxHeap,      \* bound: heap cells in use at once
          MaxFrames,    \* bound: stack cells in use at once
          MaxChoices,   \* bound: choices open at once
          MaxTrail,     \* bound: entries; the arena refuses beyond its size
          Values        \* what a program stores in the global

ASSUME Bounds == /\ {MaxHeap, MaxFrames, MaxChoices, MaxTrail} \subseteq Nat
                 /\ Values \subseteq Nat \ {0}

VARIABLES mem,          \* what every cell holds
          top,          \* g_runtime.abi.hp_fr.top, the heap frontier
          depth,        \* how many stack cells are in use (rsp)
          choices,      \* the chain of choice headers, the youngest last (r13)
          trail,        \* the entries below the trail top (r12)
          wake,         \* PL_TR_WAKE_OFF: the lowest unwoken entry, 0 for none
          boxed,        \* the global's cell of the root record names a box
          due           \* history: attributed bindings no wakeup has seen

vars == <<mem, top, depth, choices, trail, wake, boxed, due>>

---------------------------------------------------------------------------
(* Cells and entries                                                         *)

Var == 0        \* an unbound variable
AttVar == 1     \* an unbound variable with attributes
Bound == 2

Heap == 1 .. MaxHeap
Frame == -MaxFrames .. -1
Box == MaxHeap + 1      \* the value of the global, 0 when absent
Stamp == MaxHeap + 2    \* the mark of the choice the box was last logged for
Cells == Frame \cup Heap \cup {Box, Stamp}

(* An entry restores `old' into `cell'; `keep' is the pad PL_TR_PAD_KEEP.    *)
(* The sentinel of a choice has no cell: its pad is HB and its old value the *)
(* watermark of the last commit under the choice.                            *)
Entry(c, v) == [cell |-> c, keep |-> FALSE, hb |-> 0, old |-> v]
Kept(c, v) == [Entry(c, v) EXCEPT !.keep = TRUE]
Sentinel(h) == [Entry(0, 0) EXCEPT !.hb = h]
IsSentinel(e) == e.cell = 0

Live == (-depth .. -1) \cup (1 .. top)
B == choices[Len(choices)]      \* only when choices # <<>>

(* HB of a choice: the pad of the entry just under its mark.                 *)
HB(tr, c) == tr[c.mark].hb

(* Mutant: a variable just below HB counts as younger than the choice.       *)
OlderStrictly(tr, c, x) ==
    IF x \in -depth .. -1 THEN -x <= c.hi
    ELSE x \notin 1 .. top \/ ~IsSentinel(tr[c.mark]) \/ x < HB(tr, c)

(* The trail test: would a binding of the cell be recorded under choice c?   *)
Older(tr, c, x) ==
    IF x \in -depth .. -1 THEN -x <= c.hi
    ELSE x \notin 1 .. top \/ ~IsSentinel(tr[c.mark]) \/ x <= HB(tr, c)
NeedsLog(x) == choices # <<>> /\ Older(trail, B, x)

Logged(x) == IF NeedsLog(x) THEN Append(trail, Entry(x, mem[x])) ELSE trail

EntriesOf(tr, m, x) == {i \in m + 1 .. Len(tr) : tr[i].cell = x}
Oldest(S) == CHOOSE i \in S : \A j \in S : i <= j

(* Mutant: the youngest entry of a cell is the one that stays.               *)
UnwoundToNewest(m) ==
    [x \in Cells |-> IF EntriesOf(trail, m, x) = {} THEN mem[x]
                     ELSE trail[CHOOSE i \in EntriesOf(trail, m, x) :
                                    \A j \in EntriesOf(trail, m, x) : j <= i].old]

(* Popping the entries above mark m, youngest first: a cell ends with what   *)
(* the oldest of its entries above m saved.                                  *)
Unwound(m) ==
    [x \in Cells |-> IF EntriesOf(trail, m, x) = {} THEN mem[x]
                     ELSE trail[Oldest(EntriesOf(trail, m, x))].old]

---------------------------------------------------------------------------
(* Variables, frames and bindings                                            *)

NewVar(kind) ==
    /\ top < MaxHeap
    /\ top' = top + 1
    /\ mem' = [mem EXCEPT ![top + 1] = kind]
    /\ UNCHANGED <<depth, choices, trail, wake, boxed, due>>

(* A call makes a frame with a fresh variable in it.                         *)
Call ==
    /\ depth < MaxFrames
    /\ depth' = depth + 1
    /\ mem' = [mem EXCEPT ![-(depth + 1)] = Var]
    /\ UNCHANGED <<top, choices, trail, wake, boxed, due>>

(* A deterministic exit releases its frame; the frames the youngest choice   *)
(* will resume in stay.                                                      *)
Return ==
    /\ depth > (IF choices = <<>> THEN 0 ELSE B.hi)
    /\ depth' = depth - 1
    /\ mem' = [mem EXCEPT ![-depth] = Var]
    /\ UNCHANGED <<top, choices, trail, wake, boxed, due>>

Bind(x) ==
    /\ x \in Live /\ mem[x] = Var
    /\ Len(trail) < MaxTrail
    /\ trail' = Logged(x)
    /\ mem' = [mem EXCEPT ![x] = Bound]
    /\ UNCHANGED <<top, depth, choices, wake, boxed, due>>

(* An attributed variable is always recorded, and the wake word lowered to   *)
(* its entry.                                                                *)
BindAttributed(x) ==
    /\ x \in Live /\ mem[x] = AttVar
    /\ Len(trail) < MaxTrail
    /\ trail' = Append(trail, Entry(x, mem[x]))
    /\ wake' = IF wake = 0 \/ wake > Len(trail) + 1 THEN Len(trail) + 1 ELSE wake
    /\ mem' = [mem EXCEPT ![x] = Bound]
    /\ due' = due \cup {x}
    /\ UNCHANGED <<top, depth, choices, boxed>>

(* $wakeup reads the entries from the wake word up; with no choice open it   *)
(* also drops them.                                                          *)
Awaken ==
    /\ wake # 0
    /\ wake' = 0
    /\ due' = {x \in due : \A i \in wake .. Len(trail) :
                               trail[i].cell # x \/ trail[i].old # AttVar}
    /\ trail' = IF choices = <<>> /\ wake <= Len(trail)
                THEN SubSeq(trail, 1, wake - 1) ELSE trail
    /\ UNCHANGED <<mem, top, depth, choices, boxed>>

---------------------------------------------------------------------------
(* Choices                                                                   *)

(* Mutant: the sweep of dead sentinels does not stop at the current mark.    *)
MarkOfNone == 0

(* Sentinels on top of the trail above the current choice's mark belong to   *)
(* dead choices.                                                             *)
MarkOfB == IF choices = <<>> THEN 0 ELSE B.mark
DeadTop == {n \in MarkOfB .. Len(trail) : \A i \in n + 1 .. Len(trail) : IsSentinel(trail[i])}
Trimmed == SubSeq(trail, 1, Oldest(DeadTop))

Snapshot == [x \in Live \cup {Box} |-> mem[x]]

OpenChoice ==
    /\ Len(choices) < MaxChoices
    /\ Len(Trimmed) < MaxTrail
    /\ trail' = Append(Trimmed, Sentinel(top))
    /\ choices' = Append(choices, [mark |-> Len(Trimmed) + 1, hi |-> depth, snap |-> Snapshot])
    /\ UNCHANGED <<mem, top, depth, wake, boxed, due>>

(* Failure resumes the youngest choice: the trail is popped to its mark and  *)
(* the frames made since are gone.                                           *)
Unwind ==
    /\ choices # <<>>
    /\ depth' = B.hi
    /\ mem' = [x \in Cells |-> IF x < -B.hi THEN Var ELSE Unwound(B.mark)[x]]
    /\ trail' = SubSeq(trail, 1, B.mark)
    /\ due' = {x \in due : Unwound(B.mark)[x] # AttVar}
    /\ UNCHANGED <<top, wake, boxed>>

(* An alternative that is not the last keeps the choice; the last one runs   *)
(* with the choice the construct found.                                      *)
Retry == Unwind /\ UNCHANGED choices
RetryLast == Unwind /\ choices' = Front(choices)

---------------------------------------------------------------------------
(* Commit: a cut, a fence, a deterministic exit out of a bound               *)

(* The walk starts at the mark of the choice that becomes the youngest, or   *)
(* at its watermark when that lies between the mark and the top.             *)
WalkFrom(c) == LET w == trail[c.mark].old
               IN IF IsSentinel(trail[c.mark]) /\ w > c.mark /\ w <= Len(trail)
                  THEN w ELSE c.mark

KeptUnder(c, e) == ~IsSentinel(e) /\ (e.keep \/ Older(trail, c, e.cell))

(* What the walk leaves: the entries up to n, and above n those that c needs *)
(* in their order.                                                           *)
Walked(c, n) ==
    LET kept[i \in 0 .. Len(trail)] ==
            IF i <= n THEN SubSeq(trail, 1, i)
            ELSE IF KeptUnder(c, trail[i]) THEN Append(kept[i - 1], trail[i])
            ELSE kept[i - 1]
    IN  kept[Len(trail)]

Tidied(c, s) ==
    IF IsSentinel(s[c.mark]) THEN [s EXCEPT ![c.mark].old = Len(s)] ELSE s

(* Mutant: the walk does not wait for a pending wakeup.                      *)
TidyDespiteWake(c) == Tidied(c, Walked(c, WalkFrom(c)))

Tidy(c) ==
    IF wake # 0 THEN trail
    ELSE Tidied(c, Walked(c, WalkFrom(c)))

Commit(k) ==
    /\ k < Len(choices)
    /\ choices' = SubSeq(choices, 1, k)
    /\ trail' = IF k = 0 THEN trail ELSE Tidy(choices[k])
    /\ UNCHANGED <<mem, top, depth, wake, boxed, due>>

---------------------------------------------------------------------------
(* Global variables                                                          *)

(* Mutants: the store leaves HB alone, or raises it one cell too far.        *)
FrozenNever(tr, t) == tr
FrozenPastTop(tr, t) == [i \in 1 .. Len(tr) |->
    IF IsSentinel(tr[i]) /\ tr[i].hb < t THEN [tr[i] EXCEPT !.hb = t + 1] ELSE tr[i]]

(* nb_setval: the stored copy has a variable in it, and a backtrack does not *)
(* take it away, so every HB is raised over it.                              *)
Frozen(tr, t) == [i \in 1 .. Len(tr) |->
                     IF IsSentinel(tr[i]) /\ tr[i].hb < t THEN [tr[i] EXCEPT !.hb = t] ELSE tr[i]]

NbSet ==
    /\ top < MaxHeap
    /\ top' = top + 1
    /\ mem' = [mem EXCEPT ![top + 1] = Var]
    /\ trail' = Frozen(trail, top')
    /\ choices' = [k \in 1 .. Len(choices) |->
                      [choices[k] EXCEPT !.snap = [x \in DOMAIN @ \cup {top + 1} |->
                                                      IF x = top + 1 THEN Var ELSE @[x]]]]
    /\ UNCHANGED <<depth, wake, boxed, due>>

(* b_setval: the box is logged with its stamp unless the stamp already names *)
(* the mark of the youngest choice.                                          *)
BSetLogged ==
    IF choices = <<>> THEN trail
    ELSE IF ~boxed THEN Append(trail, Kept(Box, 0))
    ELSE IF mem[Stamp] # B.mark
         THEN trail \o <<Kept(Box, mem[Box]), Kept(Stamp, mem[Stamp])>>
    ELSE trail

BSet(v) ==
    /\ Len(BSetLogged) <= MaxTrail
    /\ trail' = BSetLogged
    /\ mem' = [mem EXCEPT ![Box] = v,
                          ![Stamp] = IF boxed /\ choices # <<>> THEN B.mark ELSE @]
    /\ boxed' = TRUE
    /\ UNCHANGED <<top, depth, choices, wake, due>>

---------------------------------------------------------------------------
(* The collector reclaims a cell no entry names and slides the younger ones  *)
(* down; HB is mapped to the number of surviving cells below it.             *)
Slid(x, j) == IF x \in Heap /\ x > j THEN x - 1 ELSE x
Unslid(x, j) == IF x \in Heap /\ x >= j THEN x + 1 ELSE x
Rank(h, j) == IF h >= j THEN h - 1 ELSE h

Collect(j) ==
    /\ j \in 1 .. top
    /\ \A i \in 1 .. Len(trail) : trail[i].cell # j
    /\ j \notin due
    /\ top' = top - 1
    /\ mem' = [x \in Cells |-> IF x = top THEN Var
                               ELSE IF x \in 1 .. top THEN mem[Unslid(x, j)] ELSE mem[x]]
    /\ trail' = [i \in 1 .. Len(trail) |->
                    [trail[i] EXCEPT !.cell = Slid(@, j), !.hb = Rank(@, j)]]
    /\ choices' = [k \in 1 .. Len(choices) |->
                      [choices[k] EXCEPT !.snap =
                          [x \in {Slid(y, j) : y \in DOMAIN @ \ {j}} |-> @[Unslid(x, j)]]]]
    /\ due' = {Slid(x, j) : x \in due}
    /\ UNCHANGED <<depth, wake, boxed>>

---------------------------------------------------------------------------

Init ==
    /\ mem = [x \in Cells |-> 0]
    /\ top = 0 /\ depth = 0
    /\ choices = <<>> /\ trail = <<>>
    /\ wake = 0 /\ boxed = FALSE /\ due = {}

Next ==
    \/ \E kind \in {Var, AttVar} : NewVar(kind)
    \/ Call
    \/ Return
    \/ \E x \in Frame \cup Heap : Bind(x)
    \/ \E x \in Heap : BindAttributed(x)
    \/ Awaken
    \/ OpenChoice
    \/ Retry
    \/ RetryLast
    \/ \E k \in 0 .. MaxChoices - 1 : Commit(k)
    \/ NbSet
    \/ \E v \in Values : BSet(v)
    \/ \E j \in Heap : Collect(j)

Spec == Init /\ [][Next]_vars

---------------------------------------------------------------------------
(* What the trail promises                                                   *)

Entries == [cell : {0} \cup Cells, keep : BOOLEAN, hb : Nat, old : Nat]
Headers == [mark : Nat, hi : Nat, snap : UNION {[S -> Nat] : S \in SUBSET Cells}]
TypeOK ==
    /\ top \in 0 .. MaxHeap /\ depth \in 0 .. MaxFrames
    /\ mem \in [Cells -> Nat]
    /\ trail \in Seq(Entries) /\ choices \in Seq(Headers)
    /\ wake \in Nat /\ boxed \in BOOLEAN /\ due \subseteq 1 .. top

(* Failing back to any open choice finds every variable that was there when  *)
(* the choice was made, and every variable a non-backtrackable store has     *)
(* saved since, as it was: no entry the restore needs was left unwritten by  *)
(* the trail test or dropped by a commit.                                    *)
RestoresVariables ==
    \A k \in 1 .. Len(choices) : \A x \in DOMAIN choices[k].snap \ {Box} :
        Unwound(choices[k].mark)[x] = choices[k].snap[x]

(* The same for a global set by b_setval ("undone on backtrack",             *)
(* docs/PROLOG-SYNTAX-SEMANTICS-REFERENCE.md:703-708).                       *)
RestoresGlobals ==
    \A k \in 1 .. Len(choices) :
        Unwound(choices[k].mark)[Box] = choices[k].snap[Box]

(* Every open choice has its own sentinel just under its mark, whose HB is   *)
(* no lower than any heap variable the choice has to bring back: no commit   *)
(* and no new choice sweeps away a sentinel that is still read.              *)
MarksAreSentinels ==
    /\ \A k \in 1 .. Len(choices) :
           /\ IsSentinel(trail[choices[k].mark])
           /\ \A x \in DOMAIN choices[k].snap \cap Heap : x <= HB(trail, choices[k])
    /\ \A k, l \in 1 .. Len(choices) : k < l => choices[k].mark < choices[l].mark

(* An attributed variable that was bound and not undone is found by the next *)
(* $wakeup: its entry is on the trail at or above the wake word, wherever    *)
(* commits, failures and new choices have moved the entries.                 *)
WakeupsAreFound ==
    \A x \in due : /\ wake # 0
                   /\ \E i \in wake .. Len(trail) :
                          trail[i].cell = x /\ trail[i].old = AttVar

(* Popping entry by entry, youngest first, as both unwind loops do, leaves   *)
(* what Unwound says: left[i] is the memory once the entries above i are     *)
(* popped.                                                                   *)
Popped(m) ==
    LET left[i \in m .. Len(trail)] ==
            IF i = Len(trail) THEN mem
            ELSE IF IsSentinel(trail[i + 1]) THEN left[i + 1]
            ELSE [left[i + 1] EXCEPT ![trail[i + 1].cell] = trail[i + 1].old]
    IN  left[m]
UnwoundIsTheLoop == \A k \in 1 .. Len(choices) :
    Popped(choices[k].mark) = Unwound(choices[k].mark)

=============================================================================
