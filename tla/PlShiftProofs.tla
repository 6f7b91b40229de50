---------------------------- MODULE PlShiftProofs ----------------------------
(***************************************************************************)
(* Contexts that share a trail fail in one order and restore every         *)
(* variable, for any number of goals, choices, answers and entries.        *)
(*                                                                         *)
(* The proof has two halves. On the trail, every choice to be retried      *)
(* stands on its sentinel, and what it has to bring back is decided by the *)
(* oldest entry above its mark, whichever context has bound, committed or  *)
(* swept since. In the chains, the contexts that run or wait lie upon each *)
(* other like plates: the choices a context has opened since its last      *)
(* shift lie above all of its caller's, and between a $reset_redo and the  *)
(* choice before it lie just the choices its goal had at that answer.      *)
(***************************************************************************)
EXTENDS PlShift, InductionLemmas, SequenceTheorems

-----------------------------------------------------------------------------
(* The invariant. *)

(* The contexts that run or wait. *)
Active == {running[j] : j \in DOMAIN running}

(* The choice below which nothing of context c, when its first n choices   *)
(* are left, is to be retried; after a cut past a shift one of its caller. *)
PeakAt(c, n) == IF n = past[c].to THEN past[c].under ELSE <<c, n>>
Peak(c) == PeakAt(c, Len(chain[c]))
Level(c) == Mark(Peak(c))

(* The choices c has opened since its last shift and cut past one. *)
IsOwn(c, n) == n \in DOMAIN chain[c] /\ LastShift(c) <= n /\ past[c].to < n

Kind(i) == chain[i[1]][i[2]].kind

(* Nothing to be retried lies between choices i and j. *)
NoneBetween(i, j) ==
    Mark(i) < Mark(j) /\ \A l \in living : Mark(l) <= Mark(i) \/ Mark(j) <= Mark(l)

-----------------------------------------------------------------------------
(* The shape of the contexts and of their chains. *)

Contexted ==
    /\ running[1] = Main
    /\ \A j, k \in DOMAIN running : running[j] = running[k] => j = k
    /\ \A g \in Goals : /\ g \in Active <=> ctx[g].park = Going
                        /\ chain[g] = <<>> <=> ctx[g].park = Absent
                        /\ ctx[g].gen <= ctx[g].seq
    /\ chain[Main] # <<>> /\ past[Main].to = 0
    /\ word = FloorOf(ctx[cur])

Shaped ==
    \A c \in Ctx :
        /\ past[c].to <= Len(chain[c])
        /\ \A n \in DOMAIN chain[c] :
               LET d == chain[c][n]
               IN /\ (n = 1) <=> d.kind \in {"top", "finish"}
                  /\ d.kind = "top" => c = Main
                  /\ d.kind = "finish" => c \in Goals
                  /\ d.kind = "unwound" => c \in Goals /\ d.gen <= ctx[c].seq
                  /\ d.kind = "redo" => d.of \in Goals /\ d.gen <= ctx[d.of].seq

(* Choices to be retried are there, and marks tell them apart. *)
Apart ==
    /\ \A i \in living : i[2] \in DOMAIN chain[i[1]]
    /\ \A i, j \in living : /\ Mark(i) = Mark(j) => i = j
                            /\ i[1] = j[1] /\ i[2] < j[2] => Mark(i) < Mark(j)

-----------------------------------------------------------------------------
(* The contexts that run or wait lie upon each other. *)

(* Nothing to be retried lies above the context that runs. *)
Highest == \A i \in living : Mark(i) <= Level(cur)

OwnLive == \A c \in Active : \A n \in Nat :
               IsOwn(c, n) => <<c, n>> \in living /\ Begin(c) <= Mark(<<c, n>>)

(* What a lost context stands upon is another's own choice. *)
Grounded ==
    \A c \in Active : Lost(c) =>
        LET u == past[c].under IN u \in living /\ u[1] \in Active /\ IsOwn(u[1], u[2])

Nested == \A k \in DOMAIN running : \A j \in 1 .. k - 1 : Level(running[j]) < Begin(running[k])

(* What lies below a context lies no higher than its caller. *)
Adjoined ==
    \A k \in 2 .. Len(running) : \A i \in living :
        Mark(i) < Begin(running[k]) => Mark(i) <= Level(running[k - 1])

(* Where a context may cut past a shift, its floor covers its caller. *)
Floored ==
    \A k \in 2 .. Len(running) :
        LET c == running[k]
        IN /\ ctx[c].base < ctx[c].floor => Level(running[k - 1]) <= ctx[c].floor
           /\ Lost(c) => Begin(c) <= ctx[c].floor + 1

-----------------------------------------------------------------------------
(* What failing will find, choice by choice. *)

(* Will c come back to its first n choices by failing out of the next? *)
Returns(c, n) == past[c].to < n \/ (n = past[c].to /\ c \in Active /\ Lost(c))

(* A choice of a program is the next above the one its context opened      *)
(* before.                                                                 *)
UserNext ==
    \A i \in living : Kind(i) = "user" /\ Returns(i[1], i[2] - 1) =>
        NoneBetween(PeakAt(i[1], i[2] - 1), i)

(* g will be, or is, where a $reset_redo for its m-th answer may send it   *)
(* back to its first n choices.                                            *)
Back(g, m, n) ==
    \/ n = Len(chain[g]) /\ ctx[g].park \in {Answered, Spent} /\ ctx[g].gen = m
    \/ n + 1 \in DOMAIN chain[g] /\ chain[g][n + 1].kind = "unwound" /\ chain[g][n + 1].gen = m

(* Between a $reset_redo and the choice before it lie those of its goal    *)
(* since the goal's shift before that answer, and nothing else.            *)
Spans(i, g, n) ==
    LET p == ShiftIn(chain[g], n)
    IN /\ \A q \in p .. n : <<g, q>> \in living
       /\ NoneBetween(<<g, n>>, i)
       /\ NoneBetween(PeakAt(i[1], i[2] - 1), <<g, p>>)
RedoNext ==
    \A i \in living : Kind(i) = "redo" /\ Returns(i[1], i[2] - 1) =>
        LET d == chain[i[1]][i[2]]
        IN \A n \in 1 .. Len(chain[d.of]) :
               Back(d.of, d.gen, n) /\ past[d.of].to < ShiftIn(chain[d.of], n) => Spans(i, d.of, n)

-----------------------------------------------------------------------------
(* The trail. *)

Sound(L, ch, t, me, h) ==
    /\ \A i \in L : LET c == ch[i[1]][i[2]]
                    IN /\ c.mark \in 1 .. Len(t) /\ IsSentinel(t[c.mark]) /\ t[c.mark].hb <= h
                       /\ DOMAIN c.snap = Variables(t[c.mark].hb)
                       /\ \A x \in DOMAIN c.snap : Restored(t, me, c.mark, x) = c.snap[x]
    /\ \A i, j \in L : ch[i[1]][i[2]].mark <= ch[j[1]][j[2]].mark =>
           t[ch[i[1]][i[2]].mark].hb <= t[ch[j[1]][j[2]].mark].hb

Standing == Contexted /\ Shaped /\ Apart
Stacked == Highest /\ OwnLive /\ Grounded /\ Nested /\ Adjoined /\ Floored
Spliced == UserNext /\ RedoNext

ShiftInv == /\ TypeOK
            /\ Sound(living, chain, trail, mem, top) /\ Apart
            /\ ended = "no" => Standing /\ Stacked /\ Spliced
            /\ Chronological

-----------------------------------------------------------------------------
(* The oldest entry. *)

LEMMA OldestIs ==
    ASSUME NEW S, S \subseteq Nat, S # {}
    PROVE  Oldest(S) \in S /\ \A j \in S : Oldest(S) <= j
BY NatHasLeast DEF Oldest

LEMMA EntriesAreNat ==
    ASSUME NEW tr \in Seq(Entries), NEW m \in Nat, NEW x
    PROVE  /\ EntriesOf(tr, m, x) \subseteq 1 .. Len(tr)
           /\ EntriesOf(tr, m, x) \subseteq Nat
           /\ \A i \in EntriesOf(tr, m, x) : tr[i] \in Entries
<1>1. \A i \in m + 1 .. Len(tr) : i \in 1 .. Len(tr) /\ i \in Nat /\ tr[i] \in Entries
  OBVIOUS
<1> QED BY <1>1 DEF EntriesOf, Entries

LEMMA HasOldest ==
    ASSUME NEW tr \in Seq(Entries), NEW m \in Nat, NEW x, EntriesOf(tr, m, x) # {}
    PROVE  \E i \in EntriesOf(tr, m, x) : \A j \in EntriesOf(tr, m, x) : i <= j
BY EntriesAreNat, OldestIs

LEMMA RestoredFromOldest ==
    ASSUME NEW tr \in Seq(Entries), NEW me, NEW m \in Nat, NEW x,
           NEW i \in EntriesOf(tr, m, x), \A j \in EntriesOf(tr, m, x) : i <= j
    PROVE  Restored(tr, me, m, x) = tr[i].old
<1> DEFINE E == EntriesOf(tr, m, x)
<1>1. E \subseteq Nat
  BY EntriesAreNat
<1>2. Oldest(E) \in E /\ \A j \in E : Oldest(E) <= j
  BY <1>1, OldestIs
<1>3. i = Oldest(E)
  BY <1>1, <1>2
<1> QED BY <1>3 DEF Restored

LEMMA RestoredAsIs ==
    ASSUME NEW tr, NEW me, NEW m, NEW x, EntriesOf(tr, m, x) = {}
    PROVE  Restored(tr, me, m, x) = me[x]
BY DEF Restored

(* Two trails with the same entries of a cell leave the same in it. *)
SameEntries(tr1, tr2, m, x1, x2) ==
    /\ EntriesOf(tr1, m, x1) = EntriesOf(tr2, m, x2)
    /\ \A i \in EntriesOf(tr1, m, x1) : tr1[i].old = tr2[i].old

LEMMA SameRestored ==
    ASSUME NEW tr1 \in Seq(Entries), NEW tr2, NEW me1, NEW me2, NEW m \in Nat,
           NEW x1, NEW x2, SameEntries(tr1, tr2, m, x1, x2), me1[x1] = me2[x2]
    PROVE  Restored(tr1, me1, m, x1) = Restored(tr2, me2, m, x2)
<1>1. CASE EntriesOf(tr1, m, x1) = {}
  BY <1>1 DEF Restored, SameEntries
<1>2. CASE EntriesOf(tr1, m, x1) # {}
  <2>1. Oldest(EntriesOf(tr1, m, x1)) \in EntriesOf(tr1, m, x1)
    BY <1>2, EntriesAreNat, OldestIs
  <2> QED BY <1>2, <2>1 DEF Restored, SameEntries
<1> QED BY <1>1, <1>2

(* One more entry. *)
LEMMA AppendedEntries ==
    ASSUME NEW tr \in Seq(Entries), NEW e \in Entries, NEW m \in 0 .. Len(tr), NEW x
    PROVE  /\ Append(tr, e) \in Seq(Entries) /\ Len(Append(tr, e)) = Len(tr) + 1
           /\ Append(tr, e)[Len(tr) + 1] = e
           /\ \A i \in 1 .. Len(tr) : Append(tr, e)[i] = tr[i]
           /\ EntriesOf(Append(tr, e), m, x) =
                  EntriesOf(tr, m, x) \cup (IF e.cell = x THEN {Len(tr) + 1} ELSE {})
<1>1. /\ Append(tr, e) \in Seq(Entries) /\ Len(Append(tr, e)) = Len(tr) + 1
      /\ Append(tr, e)[Len(tr) + 1] = e
      /\ \A i \in 1 .. Len(tr) : Append(tr, e)[i] = tr[i]
  BY AppendProperties
<1>2. m + 1 .. Len(tr) + 1 = (m + 1 .. Len(tr)) \cup {Len(tr) + 1}
  OBVIOUS
<1>3. \A i \in m + 1 .. Len(tr) : Append(tr, e)[i] = tr[i]
  BY <1>1
<1> QED BY <1>1, <1>2, <1>3 DEF EntriesOf

LEMMA AppendedOther ==
    ASSUME NEW tr \in Seq(Entries), NEW me, NEW e \in Entries, NEW m \in 0 .. Len(tr),
           NEW x, e.cell # x
    PROVE  Restored(Append(tr, e), me, m, x) = Restored(tr, me, m, x)
<1> DEFINE s == Append(tr, e)
<1>1. s \in Seq(Entries) /\ \A i \in 1 .. Len(tr) : s[i] = tr[i]
  BY AppendedEntries
<1>2. m \in Nat
  OBVIOUS
<1>3. EntriesOf(s, m, x) = EntriesOf(tr, m, x) \cup (IF e.cell = x THEN {Len(tr) + 1} ELSE {})
  BY AppendedEntries
<1> HIDE DEF s
<1>4. EntriesOf(tr, m, x) = EntriesOf(s, m, x)
  BY <1>3
<1>5. \A i \in EntriesOf(tr, m, x) : tr[i].old = s[i].old
  BY <1>1, <1>2, EntriesAreNat
<1>6. SameEntries(tr, s, m, x, x)
  BY <1>4, <1>5 DEF SameEntries
<1>7. Restored(tr, me, m, x) = Restored(s, me, m, x)
  BY <1>2, <1>6, SameRestored
<1> QED BY <1>7 DEF s

(* An entry saves what its cell held: failing back still finds it. *)
Saves(e, me, x) == e.cell = x /\ e.old = me[x]

LEMMA AppendedSaved ==
    ASSUME NEW tr \in Seq(Entries), NEW me1, NEW me2, NEW e \in Entries,
           NEW m \in 0 .. Len(tr), NEW x, Saves(e, me1, x)
    PROVE  Restored(Append(tr, e), me2, m, x) = Restored(tr, me1, m, x)
<1> USE DEF Saves
<1> DEFINE s == Append(tr, e)
           E == EntriesOf(tr, m, x)
           F == EntriesOf(s, m, x)
<1>1. /\ F = E \cup {Len(tr) + 1} /\ s \in Seq(Entries)
      /\ s[Len(tr) + 1] = e
      /\ \A i \in 1 .. Len(tr) : s[i] = tr[i]
  BY AppendedEntries
<1>2. m \in Nat /\ Len(tr) \in Nat
  OBVIOUS
<1>3. E \subseteq 1 .. Len(tr)
  BY <1>2, EntriesAreNat
<1> HIDE DEF s, E, F
<1>4. CASE E = {}
  <2>1. Restored(s, me2, m, x) = s[Len(tr) + 1].old
    <3> DEFINE n == Len(tr) + 1
    <3>1. n \in F /\ \A j \in F : n <= j
      BY <1>1, <1>2, <1>4
    <3> HIDE DEF n
    <3>2. Restored(s, me2, m, x) = s[n].old
      BY <1>1, <1>2, <3>1, RestoredFromOldest DEF F
    <3> QED BY <3>2 DEF n
  <2>2. Restored(tr, me1, m, x) = me1[x]
    BY <1>4, RestoredAsIs DEF E
  <2> QED BY <1>1, <2>1, <2>2 DEF s
<1>5. CASE E # {}
  <2>1. PICK i \in E : \A j \in E : i <= j
    BY <1>2, <1>5, HasOldest DEF E
  <2>2. i \in F /\ \A j \in F : i <= j
    BY <1>1, <1>2, <1>3, <2>1
  <2>3. Restored(s, me2, m, x) = s[i].old
    BY <1>1, <1>2, <2>2, RestoredFromOldest DEF F
  <2>4. Restored(tr, me1, m, x) = tr[i].old
    BY <1>2, <2>1, RestoredFromOldest DEF E
  <2> QED BY <1>1, <1>3, <2>1, <2>3, <2>4 DEF s
<1> QED BY <1>4, <1>5

LEMMA PrefixOf ==
    ASSUME NEW tr \in Seq(Entries), NEW b \in 0 .. Len(tr)
    PROVE  /\ SubSeq(tr, 1, b) \in Seq(Entries) /\ Len(SubSeq(tr, 1, b)) = b
           /\ \A i \in 1 .. b : SubSeq(tr, 1, b)[i] = tr[i]
BY SubSeqProperties

(* Popping to a mark in between first changes nothing. *)
LEMMA PoppedBetween ==
    ASSUME NEW tr \in Seq(Entries), NEW me1, NEW me2, NEW b \in 0 .. Len(tr),
           NEW m \in 0 .. b, NEW x, me2[x] = Restored(tr, me1, b, x)
    PROVE  Restored(SubSeq(tr, 1, b), me2, m, x) = Restored(tr, me1, m, x)
<1> DEFINE s == SubSeq(tr, 1, b)
           E == EntriesOf(tr, m, x)
           F == EntriesOf(s, m, x)
           G == EntriesOf(tr, b, x)
<1>0. b \in Nat /\ m \in Nat /\ Len(tr) \in Nat
  OBVIOUS
<1>1. s \in Seq(Entries) /\ Len(s) = b /\ \A i \in 1 .. b : s[i] = tr[i]
  BY SubSeqProperties
<1> HIDE DEF s
<1>2. E = F \cup G /\ \A i \in F, j \in G : i < j
  BY <1>0, <1>1 DEF EntriesOf
<1>3. E \subseteq Nat /\ F \subseteq 1 .. b /\ G \subseteq Nat
  BY <1>0, <1>1 DEF EntriesOf
<1> HIDE DEF E, F, G
<1>4. CASE F # {}
  <2>1. PICK i \in F : \A j \in F : i <= j
    BY <1>0, <1>1, <1>4, HasOldest DEF F
  <2>2. i \in E /\ \A j \in E : i <= j
    BY <1>2, <1>3, <2>1
  <2>3. Restored(s, me2, m, x) = s[i].old
    BY <1>0, <1>1, <2>1, RestoredFromOldest DEF F
  <2>4. Restored(tr, me1, m, x) = tr[i].old
    BY <1>0, <2>2, RestoredFromOldest DEF E
  <2> QED BY <1>1, <1>3, <2>1, <2>3, <2>4 DEF s
<1>5. CASE F = {} /\ G # {}
  <2>1. PICK i \in G : \A j \in G : i <= j
    BY <1>0, <1>5, HasOldest DEF G
  <2>2. i \in E /\ \A j \in E : i <= j
    BY <1>2, <1>5, <2>1
  <2>3. Restored(tr, me1, b, x) = tr[i].old
    BY <1>0, <2>1, RestoredFromOldest DEF G
  <2>4. Restored(tr, me1, m, x) = tr[i].old
    BY <1>0, <2>2, RestoredFromOldest DEF E
  <2>5. Restored(s, me2, m, x) = me2[x]
    BY <1>5, RestoredAsIs DEF F
  <2> QED BY <2>3, <2>4, <2>5 DEF s
<1>6. CASE F = {} /\ G = {}
  <2>1. Restored(s, me2, m, x) = me2[x]
    BY <1>6, RestoredAsIs DEF F
  <2>2. Restored(tr, me1, b, x) = me1[x]
    BY <1>6, RestoredAsIs DEF G
  <2>3. Restored(tr, me1, m, x) = me1[x]
    BY <1>2, <1>6, RestoredAsIs DEF E
  <2> QED BY <2>1, <2>2, <2>3 DEF s
<1> QED BY <1>4, <1>5, <1>6


-----------------------------------------------------------------------------
(* The walk of a commit, unfolded. *)

WalkStep(f, i, t, n, o, c) ==
    IF i <= n THEN SubSeq(t, 1, i)
    ELSE IF ~IsSentinel(t[i]) /\ Older(t, o, c, t[i].cell) THEN Append(f[i - 1], t[i])
    ELSE f[i - 1]
IsWalk(f, l, t, n, o, c) == f = [i \in 0 .. l |-> WalkStep(f, i, t, n, o, c)]

LEMMA WalkExists ==
    ASSUME NEW t, NEW n \in Nat, NEW o, NEW c
    PROVE  \A l \in Nat : \E f : IsWalk(f, l, t, n, o, c)
<1> DEFINE T == {l \in Nat : \E f : IsWalk(f, l, t, n, o, c)}
<1>1. 0 \in T
  <2> DEFINE f == [i \in 0 .. 0 |-> SubSeq(t, 1, i)]
  <2>1. IsWalk(f, 0, t, n, o, c)
    BY DEF WalkStep, IsWalk
  <2> QED BY <2>1
<1>2. ASSUME NEW l \in Nat, l \in T PROVE l + 1 \in T
  <2>1. PICK f : IsWalk(f, l, t, n, o, c)
    BY <1>2
  <2> DEFINE g == [i \in 0 .. l + 1 |-> IF i <= l THEN f[i] ELSE WalkStep(f, i, t, n, o, c)]
  <2>2. \A i \in 0 .. l + 1 : g[i] = WalkStep(g, i, t, n, o, c)
    <3> SUFFICES ASSUME NEW i \in 0 .. l + 1 PROVE g[i] = WalkStep(g, i, t, n, o, c)
      OBVIOUS
    <3>1. i # 0 => g[i - 1] = f[i - 1]
      OBVIOUS
    <3>2. WalkStep(g, i, t, n, o, c) = WalkStep(f, i, t, n, o, c)
      BY <3>1 DEF WalkStep
    <3>3. i <= l => f[i] = WalkStep(f, i, t, n, o, c)
      BY <2>1 DEF IsWalk
    <3> QED BY <3>2, <3>3
  <2>3. IsWalk(g, l + 1, t, n, o, c)
    BY <2>2 DEF IsWalk
  <2> HIDE DEF g
  <2> QED BY <2>3
<1>3. Nat \subseteq T
  <2> HIDE DEF T
  <2> QED BY <1>1, <1>2, SetInduction
<1> QED BY <1>3

LEMMA WalkedUnfolds ==
    ASSUME NEW t \in Seq(Entries), NEW n \in Nat, NEW o, NEW c
    PROVE  \E f : /\ Walked(t, n, o, c) = f[Len(t)]
                  /\ \A i \in 0 .. Len(t) : f[i] = WalkStep(f, i, t, n, o, c)
<1> DEFINE w == CHOOSE f : IsWalk(f, Len(t), t, n, o, c)
<1>1. Walked(t, n, o, c) = w[Len(t)]
  BY DEF Walked, WalkStep, IsWalk
<1>2. IsWalk(w, Len(t), t, n, o, c)
  <2>0. Len(t) \in Nat
    OBVIOUS
  <2>1. \E f : IsWalk(f, Len(t), t, n, o, c)
    BY <2>0, WalkExists
  <2> QED BY <2>1
<1> HIDE DEF w
<1>3. \A i \in 0 .. Len(t) : w[i] = WalkStep(w, i, t, n, o, c)
  BY <1>2 DEF IsWalk
<1> QED BY <1>1, <1>3

(* It leaves the entries up to n as they are. *)
LEMMA WalkedPrefix ==
    ASSUME NEW t \in Seq(Entries), NEW n \in Nat, NEW o, NEW c, NEW m \in 0 .. Len(t), m <= n
    PROVE  /\ Walked(t, n, o, c) \in Seq(Entries)
           /\ m <= Len(Walked(t, n, o, c)) /\ Len(Walked(t, n, o, c)) <= Len(t)
           /\ \A p \in 1 .. m : Walked(t, n, o, c)[p] = t[p]
<1>0. Len(t) \in Nat /\ m \in Nat
  OBVIOUS
<1>1. PICK f : /\ Walked(t, n, o, c) = f[Len(t)]
               /\ \A i \in 0 .. Len(t) : f[i] = WalkStep(f, i, t, n, o, c)
  BY WalkedUnfolds
<1> DEFINE Good(i, k) == /\ k \in Seq(Entries) /\ Len(k) <= i
                         /\ m <= i => m <= Len(k) /\ \A p \in 1 .. m : k[p] = t[p]
           T == {i \in Nat : i <= Len(t) => Good(i, f[i])}
<1>2. \A i \in 0 .. Len(t) : i <= n => Good(i, f[i])
  <2> SUFFICES ASSUME NEW i \in 0 .. Len(t), i <= n PROVE Good(i, f[i])
    OBVIOUS
  <2>1. f[i] = SubSeq(t, 1, i)
    BY <1>1 DEF WalkStep
  <2>2. f[i] \in Seq(Entries) /\ Len(f[i]) = i /\ \A p \in 1 .. i : f[i][p] = t[p]
    BY <2>1, PrefixOf
  <2> QED BY <1>0, <2>2
<1>3. 0 \in T
  BY <1>0, <1>2
<1>4. ASSUME NEW i \in Nat, i \in T PROVE i + 1 \in T
  <2> SUFFICES ASSUME i + 1 <= Len(t) PROVE Good(i + 1, f[i + 1])
    OBVIOUS
  <2>1. CASE i + 1 <= n
    BY <1>0, <1>2, <2>1
  <2>2. CASE ~(i + 1 <= n)
    <3> DEFINE k == f[i]
               e == t[i + 1]
    <3>1. Good(i, k) /\ m <= i
      BY <1>0, <1>4, <2>2
    <3>2. e \in Entries
      BY <1>0
    <3>3. f[i + 1] = Append(k, e) \/ f[i + 1] = k
      <4>1. f[i + 1] = WalkStep(f, i + 1, t, n, o, c) /\ (i + 1) - 1 = i
        BY <1>0, <1>1
      <4> QED BY <2>2, <4>1 DEF WalkStep
    <3> HIDE DEF k, e
    <3>4. /\ Append(k, e) \in Seq(Entries) /\ Len(Append(k, e)) = Len(k) + 1
          /\ \A p \in 1 .. Len(k) : Append(k, e)[p] = k[p]
      BY <3>1, <3>2, AppendProperties
    <3>5. Good(i + 1, k)
      BY <1>0, <3>1
    <3>6. Good(i + 1, Append(k, e))
      <4>1. Len(k) \in Nat /\ m <= Len(k) /\ \A p \in 1 .. m : k[p] = t[p]
        BY <3>1
      <4> QED BY <1>0, <3>1, <3>4, <4>1
    <3> QED BY <3>3, <3>5, <3>6
  <2> QED BY <2>1, <2>2
<1>5. Nat \subseteq T
  <2> HIDE DEF T
  <2> QED BY <1>3, <1>4, SetInduction
<1>6. Good(Len(t), f[Len(t)])
  BY <1>0, <1>5
<1> QED BY <1>0, <1>1, <1>6

(* A variable all of whose entries the choice needs is restored from the   *)
(* walked trail as from the trail before.                                  *)
LEMMA WalkedRestores ==
    ASSUME NEW t \in Seq(Entries), NEW n \in Nat, NEW o, NEW c,
           NEW m \in 0 .. Len(t), m <= n, NEW x, x # 0, Older(t, o, c, x)
    PROVE  \A me : Restored(Walked(t, n, o, c), me, m, x) = Restored(t, me, m, x)
<1>0. Len(t) \in Nat /\ m \in Nat
  OBVIOUS
<1>1. PICK f : /\ Walked(t, n, o, c) = f[Len(t)]
               /\ \A i \in 0 .. Len(t) : f[i] = WalkStep(f, i, t, n, o, c)
  BY WalkedUnfolds
<1> DEFINE Same(i) == /\ f[i] \in Seq(Entries) /\ Len(f[i]) >= m
                      /\ \A me : Restored(f[i], me, m, x) = Restored(SubSeq(t, 1, i), me, m, x)
           T == {i \in Nat : m <= i /\ i <= Len(t) => Same(i)}
<1>2. \A i \in 0 .. Len(t) : SubSeq(t, 1, i) \in Seq(Entries) /\ Len(SubSeq(t, 1, i)) = i
  BY PrefixOf
<1>3. \A i \in m .. Len(t) : i <= n => Same(i)
  <2> SUFFICES ASSUME NEW i \in m .. Len(t), i <= n PROVE Same(i)
    OBVIOUS
  <2>1. f[i] = SubSeq(t, 1, i)
    <3>1. f[i] = WalkStep(f, i, t, n, o, c)
      BY <1>0, <1>1
    <3> QED BY <3>1 DEF WalkStep
  <2>2. SubSeq(t, 1, i) \in Seq(Entries) /\ Len(SubSeq(t, 1, i)) = i /\ i >= m
    BY <1>0, <1>2
  <2> QED BY <2>1, <2>2
<1>4. 0 \in T
  BY <1>0, <1>3
<1>5. ASSUME NEW i \in Nat, i \in T PROVE i + 1 \in T
  <2> SUFFICES ASSUME m <= i + 1, i + 1 <= Len(t) PROVE Same(i + 1)
    OBVIOUS
  <2>1. CASE i + 1 <= n
    BY <1>0, <1>3, <2>1
  <2>2. CASE ~(i + 1 <= n)
    <3> DEFINE e == t[i + 1]
               k == f[i]
               s == SubSeq(t, 1, i)
    <3>1. Same(i)
      BY <1>0, <1>5, <2>2
    <3>2. e \in Entries
      BY <1>0
    <3>3. SubSeq(t, 1, i + 1) = Append(s, e)
      <4>1. SubSeq(t, 1, i + 1) = SubSeq(t, 1, i + 1 - 1) \o <<e>>
        BY <1>0, SubSeqRecursiveSecond
      <4>2. s \in Seq(Entries)
        BY <1>0, <1>2
      <4> QED BY <3>2, <4>1, <4>2, AppendIsConcat
    <3>4. /\ k \in Seq(Entries) /\ m \in 0 .. Len(k)
          /\ s \in Seq(Entries) /\ m \in 0 .. Len(s)
          /\ \A me : Restored(k, me, m, x) = Restored(s, me, m, x)
      <4>1. k \in Seq(Entries) /\ Len(k) >= m /\ Len(k) \in Nat
        BY <3>1
      <4>2. s \in Seq(Entries) /\ Len(s) = i
        BY <1>0, <1>2
      <4> QED BY <1>0, <2>2, <3>1, <4>1, <4>2
    <3>5. f[i + 1] = IF ~IsSentinel(e) /\ Older(t, o, c, e.cell) THEN Append(k, e) ELSE k
      <4>1. f[i + 1] = WalkStep(f, i + 1, t, n, o, c) /\ (i + 1) - 1 = i
        BY <1>0, <1>1
      <4> QED BY <2>2, <4>1 DEF WalkStep
    <3>6. e.cell = x => ~IsSentinel(e) /\ Older(t, o, c, e.cell)
      BY DEF IsSentinel
    <3> HIDE DEF e, k, s
    <3>7. CASE e.cell = x
      <4>1. f[i + 1] = Append(k, e)
        BY <3>5, <3>6, <3>7
      <4>2. Append(k, e) \in Seq(Entries) /\ Len(Append(k, e)) >= m
        BY <3>2, <3>4, AppendProperties
      <4>3. ASSUME NEW me PROVE Restored(Append(k, e), me, m, x) = Restored(Append(s, e), me, m, x)
        <5> DEFINE me1 == [y \in {x} |-> e.old]
        <5>1. Saves(e, me1, x)
          BY <3>7 DEF Saves
        <5> HIDE DEF me1
        <5>2. Restored(Append(k, e), me, m, x) = Restored(k, me1, m, x)
          BY <3>2, <3>4, <5>1, AppendedSaved
        <5>3. Restored(Append(s, e), me, m, x) = Restored(s, me1, m, x)
          BY <3>2, <3>4, <5>1, AppendedSaved
        <5> QED BY <3>4, <5>2, <5>3
      <4> QED BY <3>3, <4>1, <4>2, <4>3
    <3>8. CASE e.cell # x
      <4>1. ASSUME NEW me PROVE Restored(Append(s, e), me, m, x) = Restored(s, me, m, x)
        BY <3>2, <3>4, <3>8, AppendedOther
      <4>2. ASSUME NEW me PROVE Restored(Append(k, e), me, m, x) = Restored(k, me, m, x)
        BY <3>2, <3>4, <3>8, AppendedOther
      <4>3. Append(k, e) \in Seq(Entries) /\ Len(Append(k, e)) >= m
        BY <3>2, <3>4, AppendProperties
      <4>4. k \in Seq(Entries) /\ Len(k) >= m
        BY <1>0, <3>4
      <4> QED BY <3>3, <3>4, <3>5, <4>1, <4>2, <4>3, <4>4
    <3> QED BY <3>7, <3>8
  <2> QED BY <1>0, <2>1, <2>2
<1>6. Nat \subseteq T
  <2> HIDE DEF T
  <2> QED BY <1>4, <1>5, SetInduction
<1>7. Same(Len(t))
  BY <1>0, <1>6
<1>8. SubSeq(t, 1, Len(t)) = t
  BY SubSeqFull
<1> QED BY <1>1, <1>7, <1>8

-----------------------------------------------------------------------------
(* What the steps of the trail leave to the choices that stand.            *)

LEMMA VariablesAre == ASSUME NEW n \in Nat, NEW x \in Variables(n) PROVE x # 0
BY Bounds DEF Variables

(* Popping sentinels off the top. *)
LEMMA TrimmedIs ==
    ASSUME NEW t \in Seq(Entries), NEW m \in Nat
    PROVE  \E b \in 0 .. Len(t) : /\ Trimmed(t, m) = SubSeq(t, 1, b)
                                  /\ \A i \in b + 1 .. Len(t) : IsSentinel(t[i])
<1>0. Len(t) \in Nat
  OBVIOUS
<1>1. CASE Len(t) <= m
  <2>1. Trimmed(t, m) = SubSeq(t, 1, Len(t))
    BY <1>1, SubSeqFull DEF Trimmed
  <2> QED BY <1>0, <2>1
<1>2. CASE ~(Len(t) <= m)
  <2> DEFINE S == {n \in m .. Len(t) : \A i \in n + 1 .. Len(t) : IsSentinel(t[i])}
             Stop(n) == /\ \A i \in n + 1 .. Len(t) : IsSentinel(t[i])
                        /\ n = m \/ ~IsSentinel(t[n])
  <2>1. S \subseteq Nat /\ Len(t) \in S
    BY <1>0, <1>2
  <2>2. PICK n \in S : \A k \in S : n <= k
    <3> HIDE DEF S
    <3> QED BY <2>1, NatHasLeast
  <2>3. n = m \/ ~IsSentinel(t[n])
    <3> SUFFICES ASSUME n # m, IsSentinel(t[n]) PROVE FALSE
      OBVIOUS
    <3>1. n - 1 \in m .. Len(t)
      BY <1>0, <2>2
    <3>2. \A i \in (n - 1) + 1 .. Len(t) : IsSentinel(t[i])
      <4> SUFFICES ASSUME NEW i \in (n - 1) + 1 .. Len(t) PROVE IsSentinel(t[i])
        OBVIOUS
      <4>1. i = n \/ i \in n + 1 .. Len(t)
        BY <1>0, <2>2
      <4> QED BY <2>2, <4>1
    <3>3. n - 1 \in S
      BY <3>1, <3>2
    <3>4. n <= n - 1
      BY <2>2, <3>3
    <3> QED BY <1>0, <2>2, <3>4
  <2>4. n \in m .. Len(t) /\ Stop(n)
    BY <2>2, <2>3
  <2> DEFINE b == CHOOSE k \in m .. Len(t) : Stop(k)
  <2>5. b \in m .. Len(t) /\ Stop(b)
    <3> HIDE DEF Stop
    <3> QED BY <2>4
  <2>6. Trimmed(t, m) = SubSeq(t, 1, b)
    BY <1>2 DEF Trimmed
  <2> HIDE DEF b
  <2>7. b \in 0 .. Len(t)
    BY <1>0, <2>5
  <2> QED BY <2>5, <2>6, <2>7
<1> QED BY <1>1, <1>2

(* Trail t2 has the sentinels of the choices L and gives back the same.    *)
Carries(L, ch, t, me, t2, me2) ==
    \A i \in L : LET m == ch[i[1]][i[2]].mark
                IN /\ m <= Len(t2) /\ t2[m] = t[m]
                   /\ \A x \in Variables(t[m].hb) : Restored(t2, me2, m, x) = Restored(t, me, m, x)

(* Then what has been said of them stays true.                             *)
LEMMA SoundCarried ==
    ASSUME NEW L, NEW ch, NEW t \in Seq(Entries), NEW t2 \in Seq(Entries),
           NEW me, NEW me2, NEW h \in Nat, NEW h2 \in Nat, h <= h2, Sound(L, ch, t, me, h),
           Carries(L, ch, t, me, t2, me2)
    PROVE  Sound(L, ch, t2, me2, h2)
<1>1. ASSUME NEW i \in L
      PROVE  LET c == ch[i[1]][i[2]]
             IN /\ c.mark \in 1 .. Len(t2) /\ IsSentinel(t2[c.mark]) /\ t2[c.mark].hb <= h2
                /\ t2[c.mark] = t[c.mark]
                /\ DOMAIN c.snap = Variables(t2[c.mark].hb)
                /\ \A x \in DOMAIN c.snap : Restored(t2, me2, c.mark, x) = c.snap[x]
  <2> DEFINE c == ch[i[1]][i[2]]
  <2>1. /\ c.mark \in 1 .. Len(t) /\ IsSentinel(t[c.mark]) /\ t[c.mark].hb <= h
        /\ DOMAIN c.snap = Variables(t[c.mark].hb)
        /\ \A x \in DOMAIN c.snap : Restored(t, me, c.mark, x) = c.snap[x]
    BY <1>1 DEF Sound
  <2>2. /\ c.mark <= Len(t2) /\ t2[c.mark] = t[c.mark]
        /\ \A x \in Variables(t[c.mark].hb) : Restored(t2, me2, c.mark, x) = Restored(t, me, c.mark, x)
    BY <1>1 DEF Carries
  <2> HIDE DEF c
  <2>3. t[c.mark] \in Entries
    BY <2>1
  <2>4. t[c.mark].hb \in Nat
    BY <2>3 DEF Entries
  <2>5. c.mark \in 1 .. Len(t2) /\ t2[c.mark].hb <= h2
    BY <2>1, <2>2, <2>4
  <2> QED BY <2>1, <2>2, <2>5 DEF c
<1>2. \A i, j \in L : ch[i[1]][i[2]].mark <= ch[j[1]][j[2]].mark =>
          t[ch[i[1]][i[2]].mark].hb <= t[ch[j[1]][j[2]].mark].hb
  BY DEF Sound
<1> QED BY <1>1, <1>2 DEF Sound

(* Choices that are gone do not matter. *)
LEMMA SoundOfFewer ==
    ASSUME NEW L, NEW L2, NEW ch, NEW ch2, NEW t, NEW me, NEW h, Sound(L, ch, t, me, h),
           L2 \subseteq L, \A i \in L2 : ch2[i[1]][i[2]] = ch[i[1]][i[2]]
    PROVE  Sound(L2, ch2, t, me, h)
BY DEF Sound

(* The marks of the choices L in chains ch reach no higher than n. *)
Reach(L, ch, n) == \A i \in L : ch[i[1]][i[2]].mark <= n

LEMMA SoundMarks ==
    ASSUME NEW L, NEW ch, NEW t \in Seq(Entries), NEW me, NEW h \in Nat, Sound(L, ch, t, me, h)
    PROVE  /\ \A i \in L : /\ ch[i[1]][i[2]].mark \in 1 .. Len(t) /\ ch[i[1]][i[2]].mark \in Nat
                           /\ t[ch[i[1]][i[2]].mark].hb \in Nat
           /\ Reach(L, ch, Len(t))
<1> SUFFICES ASSUME NEW i \in L
             PROVE  /\ ch[i[1]][i[2]].mark \in 1 .. Len(t) /\ ch[i[1]][i[2]].mark \in Nat
                    /\ t[ch[i[1]][i[2]].mark].hb \in Nat /\ ch[i[1]][i[2]].mark <= Len(t)
  BY DEF Reach
<1>1. ch[i[1]][i[2]].mark \in 1 .. Len(t)
  BY DEF Sound
<1>2. t[ch[i[1]][i[2]].mark] \in Entries
  BY <1>1
<1> QED BY <1>1, <1>2 DEF Entries

(* Restoring from a trail whose top sentinels are gone. *)
LEMMA SoundPrefix ==
    ASSUME NEW L, NEW ch, NEW t \in Seq(Entries), NEW me, NEW h \in Nat, Sound(L, ch, t, me, h),
           NEW b \in 0 .. Len(t), Reach(L, ch, b), \A i \in b + 1 .. Len(t) : IsSentinel(t[i])
    PROVE  Sound(L, ch, SubSeq(t, 1, b), me, h)
<1>0. SubSeq(t, 1, b) \in Seq(Entries) /\ Len(SubSeq(t, 1, b)) = b /\ Len(t) \in Nat
      /\ \A p \in 1 .. b : SubSeq(t, 1, b)[p] = t[p]
  BY PrefixOf
<1>1. ASSUME NEW i \in L
      PROVE  LET m == ch[i[1]][i[2]].mark
             IN m <= Len(SubSeq(t, 1, b)) /\ SubSeq(t, 1, b)[m] = t[m]
                /\ \A x \in Variables(t[m].hb) : Restored(SubSeq(t, 1, b), me, m, x) = Restored(t, me, m, x)
  <2> DEFINE m == ch[i[1]][i[2]].mark
  <2>1. m \in 1 .. Len(t) /\ m <= b /\ t[m].hb \in Nat
    BY <1>1, SoundMarks DEF Reach
  <2> HIDE DEF m
  <2>2. ASSUME NEW x \in Variables(t[m].hb) PROVE Restored(SubSeq(t, 1, b), me, m, x) = Restored(t, me, m, x)
    <3>1. x # 0
      BY <2>1, <2>2, VariablesAre
    <3>2. EntriesOf(t, b, x) = {}
      BY <3>1 DEF EntriesOf, IsSentinel
    <3>3. me[x] = Restored(t, me, b, x)
      BY <3>2, RestoredAsIs
    <3> QED BY <2>1, <3>3, PoppedBetween
  <2> QED BY <1>0, <2>1, <2>2 DEF m
<1>2. Carries(L, ch, t, me, SubSeq(t, 1, b), me)
  BY <1>1 DEF Carries
<1> DEFINE s == SubSeq(t, 1, b)
<1>3. Carries(L, ch, t, me, s, me) /\ s \in Seq(Entries) /\ h <= h
  BY <1>0, <1>2
<1> HIDE DEF s
<1>4. Sound(L, ch, s, me, h)
  BY <1>3, SoundCarried
<1> QED BY <1>4 DEF s

LEMMA SoundTrimmed ==
    ASSUME NEW L, NEW ch, NEW t \in Seq(Entries), NEW me, NEW h \in Nat, Sound(L, ch, t, me, h),
           NEW m \in Nat, Reach(L, ch, Len(Trimmed(t, m)))
    PROVE  /\ Sound(L, ch, Trimmed(t, m), me, h) /\ Trimmed(t, m) \in Seq(Entries)
           /\ Len(Trimmed(t, m)) <= Len(t)
<1>1. PICK b \in 0 .. Len(t) : /\ Trimmed(t, m) = SubSeq(t, 1, b)
                               /\ \A i \in b + 1 .. Len(t) : IsSentinel(t[i])
  BY TrimmedIs
<1>2. SubSeq(t, 1, b) \in Seq(Entries) /\ Len(SubSeq(t, 1, b)) = b
  BY PrefixOf
<1>3. Sound(L, ch, SubSeq(t, 1, b), me, h)
  BY <1>1, <1>2, SoundPrefix
<1> QED BY <1>1, <1>2, <1>3

(* An entry more: a sentinel, or one that saves what a variable held.      *)
LEMMA SoundAppended ==
    ASSUME NEW L, NEW ch, NEW t \in Seq(Entries), NEW me, NEW me2, NEW h \in Nat,
           Sound(L, ch, t, me, h), NEW e \in Entries,
           \A x \in Variables(h) : e.cell # x => me2[x] = me[x],
           IsSentinel(e) \/ e.old = me[e.cell]
    PROVE  Sound(L, ch, Append(t, e), me2, h)
<1>0. /\ Append(t, e) \in Seq(Entries) /\ Len(Append(t, e)) = Len(t) + 1 /\ Len(t) \in Nat
      /\ \A p \in 1 .. Len(t) : Append(t, e)[p] = t[p]
  BY AppendProperties
<1>1. ASSUME NEW i \in L
      PROVE  LET m == ch[i[1]][i[2]].mark
             IN m <= Len(Append(t, e)) /\ Append(t, e)[m] = t[m]
                /\ \A x \in Variables(t[m].hb) : Restored(Append(t, e), me2, m, x) = Restored(t, me, m, x)
  <2> DEFINE m == ch[i[1]][i[2]].mark
  <2>0. m \in 1 .. Len(t) /\ t[m].hb \in Nat
    BY <1>1, SoundMarks
  <2>1. m \in 1 .. Len(t) /\ t[m].hb \in Nat /\ t[m].hb <= h
    BY <1>1, <2>0 DEF Sound
  <2> HIDE DEF m
  <2>2. ASSUME NEW x \in Variables(t[m].hb) PROVE Restored(Append(t, e), me2, m, x) = Restored(t, me, m, x)
    <3>1. x # 0
      BY <2>1, <2>2, VariablesAre
    <3>2. CASE e.cell = x
      <4>1. Saves(e, me, x)
        BY <3>1, <3>2 DEF Saves, IsSentinel
      <4> QED BY <2>1, <4>1, AppendedSaved
    <3>3. CASE e.cell # x
      <4>1. Restored(Append(t, e), me2, m, x) = Restored(t, me2, m, x)
        BY <2>1, <3>3, AppendedOther
      <4>2. me2[x] = me[x]
        <5>1. x \in Variables(h)
          BY <2>1, <2>2 DEF Variables
        <5> QED BY <3>3, <5>1
      <4>3. Restored(t, me2, m, x) = Restored(t, me, m, x)
        BY <4>2 DEF Restored
      <4> QED BY <4>1, <4>3
    <3> QED BY <3>2, <3>3
  <2> QED BY <1>0, <2>1, <2>2 DEF m
<1>2. Carries(L, ch, t, me, Append(t, e), me2)
  BY <1>1 DEF Carries
<1> DEFINE s == Append(t, e)
<1>3. Carries(L, ch, t, me, s, me2) /\ s \in Seq(Entries) /\ h <= h
  BY <1>0, <1>2
<1> HIDE DEF s
<1>4. Sound(L, ch, s, me2, h)
  BY <1>3, SoundCarried
<1> QED BY <1>4 DEF s

(* A variable none of the choices has to bring back. *)
LEMMA SoundYoung ==
    ASSUME NEW L, NEW ch, NEW t \in Seq(Entries), NEW me, NEW me2, NEW h \in Nat, NEW h2 \in Nat, h <= h2,
           Sound(L, ch, t, me, h),
           \A i \in L : \A x \in Variables(t[ch[i[1]][i[2]].mark].hb) : me2[x] = me[x]
    PROVE  Sound(L, ch, t, me2, h2)
<1>1. ASSUME NEW i \in L
      PROVE  LET m == ch[i[1]][i[2]].mark
             IN m <= Len(t) /\ t[m] = t[m]
                /\ \A x \in Variables(t[m].hb) : Restored(t, me2, m, x) = Restored(t, me, m, x)
  BY <1>1, SoundMarks DEF Restored, Reach
<1>2. Carries(L, ch, t, me, t, me2)
  BY <1>1 DEF Carries
<1> QED BY <1>2, SoundCarried

(* Of two choices the one with the higher mark has the higher frontier. *)
LEMMA SoundOrdered ==
    ASSUME NEW L, NEW ch, NEW t \in Seq(Entries), NEW me, NEW h \in Nat, Sound(L, ch, t, me, h),
           NEW i \in L, NEW j \in L, NEW x1, NEW x2, x1 = ch[i[1]][i[2]].mark,
           x2 = ch[j[1]][j[2]].mark, x1 <= x2
    PROVE  t[x1].hb <= t[x2].hb /\ t[x1].hb \in Nat /\ t[x2].hb \in Nat /\ t[x1].hb <= h
<1>1. t[x1].hb <= t[x2].hb /\ t[x1].hb <= h
  BY DEF Sound
<1>2. t[x1].hb \in Nat /\ t[x2].hb \in Nat
  BY SoundMarks
<1> QED BY <1>1, <1>2

(* The walk of a commit that judges above every mark, by a choice that     *)
(* needs all of them have to bring back.                                   *)
LEMMA SoundWalked ==
    ASSUME NEW L, NEW ch, NEW t \in Seq(Entries), NEW me, NEW h \in Nat, Sound(L, ch, t, me, h),
           NEW n \in Nat, NEW o, NEW c, Reach(L, ch, n),
           \A i \in L : \A x \in Variables(t[ch[i[1]][i[2]].mark].hb) : Older(t, o, c, x)
    PROVE  /\ Sound(L, ch, Walked(t, n, o, c), me, h) /\ Walked(t, n, o, c) \in Seq(Entries)
           /\ Len(Walked(t, n, o, c)) <= Len(t)
<1> DEFINE w == Walked(t, n, o, c)
<1>0. w \in Seq(Entries) /\ Len(w) <= Len(t)
  <2>1. 0 \in 0 .. Len(t) /\ 0 <= n
    OBVIOUS
  <2> QED BY <2>1, WalkedPrefix
<1>1. ASSUME NEW i \in L
      PROVE  LET m == ch[i[1]][i[2]].mark
             IN m <= Len(w) /\ w[m] = t[m]
                /\ \A x \in Variables(t[m].hb) : Restored(w, me, m, x) = Restored(t, me, m, x)
  <2> DEFINE m == ch[i[1]][i[2]].mark
  <2>1. m \in 1 .. Len(t) /\ t[m].hb \in Nat /\ m <= n
    BY <1>1, SoundMarks DEF Reach
  <2>2. \A x \in Variables(t[m].hb) : Older(t, o, c, x)
    BY <1>1
  <2> HIDE DEF m
  <2>3. m <= Len(w) /\ w[m] = t[m]
    <3>1. m \in 0 .. Len(t) /\ m \in 1 .. m
      BY <2>1
    <3> QED BY <2>1, <3>1, WalkedPrefix
  <2>4. ASSUME NEW x \in Variables(t[m].hb) PROVE Restored(w, me, m, x) = Restored(t, me, m, x)
    <3>1. x # 0 /\ Older(t, o, c, x) /\ m \in 0 .. Len(t)
      BY <2>1, <2>2, <2>4, VariablesAre
    <3> QED BY <2>1, <3>1, WalkedRestores
  <2> QED BY <2>3, <2>4 DEF m
<1>2. Carries(L, ch, t, me, w, me)
  BY <1>1 DEF Carries
<1> HIDE DEF w
<1>3. Sound(L, ch, w, me, h)
  BY <1>0, <1>2, SoundCarried
<1> QED BY <1>0, <1>3 DEF w

(* Failing back to mark b keeps what the choices up to it have to bring back. *)
LEMMA SoundPopped ==
    ASSUME NEW L, NEW ch, NEW t \in Seq(Entries), NEW me, NEW me2, NEW h \in Nat, Sound(L, ch, t, me, h),
           NEW b \in 0 .. Len(t), Reach(L, ch, b),
           \A x \in Variables(h) : me2[x] = Restored(t, me, b, x)
    PROVE  Sound(L, ch, SubSeq(t, 1, b), me2, h)
<1>0. SubSeq(t, 1, b) \in Seq(Entries) /\ Len(SubSeq(t, 1, b)) = b /\ Len(t) \in Nat
      /\ \A p \in 1 .. b : SubSeq(t, 1, b)[p] = t[p]
  BY PrefixOf
<1>1. ASSUME NEW i \in L
      PROVE  LET m == ch[i[1]][i[2]].mark
             IN m <= Len(SubSeq(t, 1, b)) /\ SubSeq(t, 1, b)[m] = t[m]
                /\ \A x \in Variables(t[m].hb) : Restored(SubSeq(t, 1, b), me2, m, x) = Restored(t, me, m, x)
  <2> DEFINE m == ch[i[1]][i[2]].mark
  <2>0. m \in 1 .. Len(t) /\ m <= b /\ t[m].hb \in Nat
    BY <1>1, SoundMarks DEF Reach
  <2>1. m \in 1 .. Len(t) /\ m <= b /\ t[m].hb \in Nat /\ t[m].hb <= h
    BY <1>1, <2>0 DEF Sound
  <2> HIDE DEF m
  <2>2. ASSUME NEW x \in Variables(t[m].hb) PROVE Restored(SubSeq(t, 1, b), me2, m, x) = Restored(t, me, m, x)
    <3>1. x \in Variables(h)
      BY <2>1 DEF Variables
    <3>2. me2[x] = Restored(t, me, b, x) /\ m \in 0 .. b
      BY <2>1, <3>1
    <3> QED BY <3>2, PoppedBetween
  <2> QED BY <1>0, <2>1, <2>2 DEF m
<1>2. Carries(L, ch, t, me, SubSeq(t, 1, b), me2)
  BY <1>1 DEF Carries
<1> DEFINE s == SubSeq(t, 1, b)
<1>3. Carries(L, ch, t, me, s, me2) /\ s \in Seq(Entries) /\ h <= h
  BY <1>0, <1>2
<1> HIDE DEF s
<1>4. Sound(L, ch, s, me2, h)
  BY <1>3, SoundCarried
<1> QED BY <1>4 DEF s

(* A choice more, on a sentinel of its own on top. *)
LEMMA SoundOpened ==
    ASSUME NEW L, NEW ch, NEW ch2, NEW t \in Seq(Entries), NEW me, NEW h \in Nat,
           DOMAIN me = Variables(h), Sound(L, ch, t, me, h),
           \A i \in L : ch2[i[1]][i[2]] = ch[i[1]][i[2]],
           NEW e \in Entries, IsSentinel(e), e.hb = h,
           NEW j, ch2[j[1]][j[2]].mark = Len(t) + 1, ch2[j[1]][j[2]].snap = me
    PROVE  Sound(L \cup {j}, ch2, Append(t, e), me, h)
<1> DEFINE s == Append(t, e)
           c == ch2[j[1]][j[2]]
<1>0. /\ s \in Seq(Entries) /\ Len(s) = Len(t) + 1 /\ Len(t) \in Nat
      /\ s[Len(t) + 1] = e /\ \A p \in 1 .. Len(t) : s[p] = t[p]
  BY AppendProperties
<1>1. Sound(L, ch, s, me, h)
  BY SoundAppended
<1>2. Sound(L, ch2, s, me, h)
  BY <1>1, SoundOfFewer
<1>3. \A i \in L : /\ ch2[i[1]][i[2]].mark \in 1 .. Len(t)
                   /\ s[ch2[i[1]][i[2]].mark].hb <= h /\ s[ch2[i[1]][i[2]].mark].hb \in Nat
  <2> SUFFICES ASSUME NEW i \in L
               PROVE  /\ ch2[i[1]][i[2]].mark \in 1 .. Len(t)
                      /\ s[ch2[i[1]][i[2]].mark].hb <= h /\ s[ch2[i[1]][i[2]].mark].hb \in Nat
    OBVIOUS
  <2>1. ch[i[1]][i[2]].mark \in 1 .. Len(t) /\ t[ch[i[1]][i[2]].mark].hb \in Nat
    BY SoundMarks
  <2>2. t[ch[i[1]][i[2]].mark].hb <= h
    BY DEF Sound
  <2> QED BY <1>0, <2>1, <2>2
<1>4. /\ c.mark \in 1 .. Len(s) /\ IsSentinel(s[c.mark]) /\ s[c.mark].hb <= h /\ s[c.mark].hb = h
      /\ DOMAIN c.snap = Variables(s[c.mark].hb)
  BY <1>0
<1>5. \A x \in DOMAIN c.snap : Restored(s, me, c.mark, x) = c.snap[x]
  <2>1. \A x : EntriesOf(s, c.mark, x) = {}
    BY <1>0 DEF EntriesOf
  <2> QED BY <2>1, RestoredAsIs
<1> HIDE DEF s
<1>6. c.mark = Len(t) + 1 /\ s[c.mark].hb = h
  BY <1>4
<1>7. \A i, k \in L \cup {j} : ch2[i[1]][i[2]].mark <= ch2[k[1]][k[2]].mark =>
          s[ch2[i[1]][i[2]].mark].hb <= s[ch2[k[1]][k[2]].mark].hb
  <2> SUFFICES ASSUME NEW i \in L \cup {j}, NEW k \in L \cup {j},
                      ch2[i[1]][i[2]].mark <= ch2[k[1]][k[2]].mark
               PROVE  s[ch2[i[1]][i[2]].mark].hb <= s[ch2[k[1]][k[2]].mark].hb
    OBVIOUS
  <2>1. CASE i \in L /\ k \in L
    BY <1>2, <2>1 DEF Sound
  <2>2. CASE i \in L /\ k = j
    BY <1>3, <1>6, <2>2
  <2>3. CASE i = j /\ k \in L
    <3>1. ch2[i[1]][i[2]].mark = Len(t) + 1 /\ ch2[k[1]][k[2]].mark \in 1 .. Len(t)
      BY <1>3, <2>3
    <3> QED BY <1>0, <3>1
  <2>4. CASE i = j /\ k = j
    BY <1>6, <2>4
  <2> QED BY <2>1, <2>2, <2>3, <2>4
<1>8. \A i \in L \cup {j} : LET d == ch2[i[1]][i[2]]
        IN /\ d.mark \in 1 .. Len(s) /\ IsSentinel(s[d.mark]) /\ s[d.mark].hb <= h
           /\ DOMAIN d.snap = Variables(s[d.mark].hb)
           /\ \A x \in DOMAIN d.snap : Restored(s, me, d.mark, x) = d.snap[x]
  <2>1. \A i \in L : LET d == ch2[i[1]][i[2]]
        IN /\ d.mark \in 1 .. Len(s) /\ IsSentinel(s[d.mark]) /\ s[d.mark].hb <= h
           /\ DOMAIN d.snap = Variables(s[d.mark].hb)
           /\ \A x \in DOMAIN d.snap : Restored(s, me, d.mark, x) = d.snap[x]
    BY <1>2 DEF Sound
  <2> QED BY <1>4, <1>5, <2>1
<1>9. Sound(L \cup {j}, ch2, s, me, h)
  BY <1>7, <1>8 DEF Sound
<1> QED BY <1>9 DEF s

-----------------------------------------------------------------------------
(* The last shift of a chain.                                              *)

(* n is where the goal of s last went on after a shift, of the first k.    *)
IsShift(s, k, n) ==
    /\ n \in 1 .. k /\ (n = 1 \/ s[n].kind = "unwound")
    /\ \A i \in n + 1 .. k : s[i].kind # "unwound"

LEMMA OneShift ==
    ASSUME NEW s, NEW k \in Nat, NEW n, NEW m, IsShift(s, k, n), IsShift(s, k, m)
    PROVE  n = m
BY DEF IsShift

LEMMA ShiftInIs ==
    ASSUME NEW s, NEW k \in Nat \ {0}
    PROVE  IsShift(s, k, ShiftIn(s, k)) /\ ShiftIn(s, k) \in Nat
<1> DEFINE S == {m \in 0 .. k - 1 : k - m = 1 \/ s[k - m].kind = "unwound"}
<1>1. S \subseteq Nat /\ k - 1 \in S
  OBVIOUS
<1>2. PICK m \in S : \A j \in S : m <= j
  <2> HIDE DEF S
  <2> QED BY <1>1, NatHasLeast
<1>3. \A i \in (k - m) + 1 .. k : s[i].kind # "unwound"
  <2> SUFFICES ASSUME NEW i \in (k - m) + 1 .. k, s[i].kind = "unwound" PROVE FALSE
    OBVIOUS
  <2>1. k - i \in 0 .. k - 1 /\ k - (k - i) = i /\ k - i < m
    BY <1>2
  <2>2. k - i \in S
    BY <2>1
  <2> QED BY <1>2, <2>1, <2>2
<1>4. IsShift(s, k, k - m)
  BY <1>2, <1>3 DEF IsShift
<1>5. ShiftIn(s, k) = CHOOSE n \in 1 .. k : IsShift(s, k, n)
  <2>1. \A n \in 1 .. k : IsShift(s, k, n) <=> /\ n = 1 \/ s[n].kind = "unwound"
                                               /\ \A i \in n + 1 .. k : s[i].kind # "unwound"
    BY DEF IsShift
  <2> QED BY <2>1 DEF ShiftIn
<1>6. k - m \in 1 .. k
  BY <1>4 DEF IsShift
<1>7. IsShift(s, k, ShiftIn(s, k)) /\ ShiftIn(s, k) \in 1 .. k
  BY <1>4, <1>5, <1>6
<1> QED BY <1>7

LEMMA ShiftInOf ==
    ASSUME NEW s, NEW k \in Nat \ {0}, NEW n, IsShift(s, k, n)
    PROVE  ShiftIn(s, k) = n
BY ShiftInIs, OneShift

(* It depends on those choices only. *)
LEMMA ShiftInSame ==
    ASSUME NEW s, NEW t, NEW k \in Nat \ {0}, \A i \in 1 .. k : s[i].kind = t[i].kind
    PROVE  ShiftIn(s, k) = ShiftIn(t, k)
<1>1. IsShift(s, k, ShiftIn(s, k))
  BY ShiftInIs
<1>2. IsShift(t, k, ShiftIn(s, k))
  BY <1>1 DEF IsShift
<1> QED BY <1>2, ShiftInOf

(* A choice more that is no shift, a shift more, and a choice less. *)
LEMMA ShiftInStays ==
    ASSUME NEW s, NEW k \in Nat \ {0}, s[k + 1].kind # "unwound"
    PROVE  ShiftIn(s, k + 1) = ShiftIn(s, k)
<1>1. IsShift(s, k, ShiftIn(s, k)) /\ ShiftIn(s, k) \in Nat
  BY ShiftInIs
<1>2. IsShift(s, k + 1, ShiftIn(s, k))
  BY <1>1 DEF IsShift
<1> QED BY <1>2, ShiftInOf

LEMMA ShiftInTop ==
    ASSUME NEW s, NEW k \in Nat \ {0}, k = 1 \/ s[k].kind = "unwound"
    PROVE  ShiftIn(s, k) = k
<1>1. IsShift(s, k, k)
  BY DEF IsShift
<1> QED BY <1>1, ShiftInOf

LEMMA ShiftInBelow ==
    ASSUME NEW s, NEW k \in Nat \ {0}, NEW n \in 1 .. k, ShiftIn(s, k) <= n
    PROVE  ShiftIn(s, n) = ShiftIn(s, k)
<1>1. IsShift(s, k, ShiftIn(s, k)) /\ ShiftIn(s, k) \in Nat
  BY ShiftInIs
<1>2. IsShift(s, n, ShiftIn(s, k)) /\ n \in Nat \ {0}
  BY <1>1 DEF IsShift
<1> QED BY <1>2, ShiftInOf

-----------------------------------------------------------------------------
(* The contexts that run or wait.                                          *)

Here == TypeOK /\ Standing /\ Stacked

LEMMA ChainsAre ==
    ASSUME TypeOK, NEW c \in Ctx
    PROVE  /\ chain[c] \in Seq(Headers) /\ Len(chain[c]) \in Nat
           /\ DOMAIN chain[c] = 1 .. Len(chain[c])
           /\ \A n \in 1 .. Len(chain[c]) : chain[c][n].mark \in Nat
           /\ past[c].to \in Nat
<1>1. chain[c] \in Seq(Headers) /\ past[c].to \in Nat
  BY DEF TypeOK
<1>2. \A d \in Headers : d.mark \in Nat
  BY DEF Headers
<1> HIDE DEF Headers
<1>3. \A n \in 1 .. Len(chain[c]) : chain[c][n] \in Headers
  BY <1>1
<1> QED BY <1>1, <1>2, <1>3

LEMMA LivingIs ==
    ASSUME TypeOK, Apart, NEW i \in living
    PROVE  /\ i = <<i[1], i[2]>> /\ i[1] \in Ctx /\ i[2] \in Nat
           /\ i[2] \in 1 .. Len(chain[i[1]]) /\ Mark(i) \in Nat
<1>1. i \in Ctx \X Nat
  BY DEF TypeOK
<1>2. i = <<i[1], i[2]>> /\ i[1] \in Ctx /\ i[2] \in Nat
  BY <1>1
<1>3. i[2] \in 1 .. Len(chain[i[1]])
  BY <1>2, ChainsAre DEF Apart
<1> QED BY <1>2, <1>3, ChainsAre DEF Mark

LEMMA RunningIs ==
    ASSUME TypeOK, Contexted
    PROVE  /\ Len(running) \in Nat \ {0} /\ DOMAIN running = 1 .. Len(running)
           /\ cur = running[Len(running)] /\ cur \in Active
           /\ \A j \in 1 .. Len(running) : running[j] \in Active
           /\ \A c \in Active : \E j \in 1 .. Len(running) : running[j] = c
           /\ Active \subseteq Ctx
<1>1. running \in Seq(Ctx) /\ running # <<>>
  BY DEF TypeOK
<1>2. Len(running) \in Nat \ {0} /\ DOMAIN running = 1 .. Len(running)
      /\ \A j \in 1 .. Len(running) : running[j] \in Ctx
  BY <1>1
<1> QED BY <1>2 DEF cur, Last, Active

LEMMA ActiveIs ==
    ASSUME TypeOK, Contexted, Shaped, NEW c \in Active
    PROVE  /\ c \in Ctx /\ Len(chain[c]) \in Nat \ {0}
           /\ IsShift(chain[c], Len(chain[c]), LastShift(c))
           /\ LastShift(c) \in 1 .. Len(chain[c]) /\ LastShift(c) \in Nat
           /\ past[c].to \in 0 .. Len(chain[c]) /\ past[c].to \in Nat
           /\ c \in Goals => ctx[c].park = Going
<1>1. c \in Ctx
  BY RunningIs
<1>2. chain[c] # <<>> /\ (c \in Goals => ctx[c].park = Going)
  BY <1>1 DEF Contexted, Ctx, Going, Absent
<1>3. Len(chain[c]) \in Nat \ {0}
  BY <1>1, <1>2, ChainsAre, EmptySeq
<1>4. past[c].to \in 0 .. Len(chain[c]) /\ past[c].to \in Nat
  BY <1>1, <1>3, ChainsAre DEF Shaped
<1>5. IsShift(chain[c], Len(chain[c]), LastShift(c))
  BY <1>3, ShiftInIs DEF LastShift
<1> QED BY <1>1, <1>2, <1>3, <1>4, <1>5 DEF IsShift

(* A context's own choices. *)
LEMMA OwnIs ==
    ASSUME Here, NEW c \in Active, NEW n, IsOwn(c, n)
    PROVE  /\ n \in Nat /\ n \in 1 .. Len(chain[c]) /\ <<c, n>> \in living
           /\ Mark(<<c, n>>) \in Nat
           /\ Begin(c) <= Mark(<<c, n>>) /\ Mark(<<c, n>>) <= Level(c)
           /\ Peak(c) = <<c, Len(chain[c])>> /\ IsOwn(c, Len(chain[c]))
<1>1. /\ TypeOK /\ Contexted /\ Shaped /\ Apart /\ OwnLive
  BY DEF Here, Standing, Stacked
<1>2. c \in Ctx /\ Len(chain[c]) \in Nat \ {0} /\ past[c].to \in Nat /\ LastShift(c) \in Nat
      /\ DOMAIN chain[c] = 1 .. Len(chain[c])
  BY <1>1, ActiveIs, ChainsAre
<1>3. n \in 1 .. Len(chain[c]) /\ past[c].to < n /\ LastShift(c) <= n
  BY <1>2 DEF IsOwn
<1>4. n \in Nat /\ <<c, n>> \in living /\ Begin(c) <= Mark(<<c, n>>)
  BY <1>1, <1>3 DEF OwnLive
<1>5. IsOwn(c, Len(chain[c])) /\ past[c].to # Len(chain[c])
  BY <1>2, <1>3 DEF IsOwn
<1>6. <<c, Len(chain[c])>> \in living
  BY <1>1, <1>2, <1>5 DEF OwnLive
<1>7. Peak(c) = <<c, Len(chain[c])>>
  BY <1>5 DEF Peak, PeakAt
<1>8. Mark(<<c, n>>) \in Nat /\ Mark(<<c, Len(chain[c])>>) \in Nat
  BY <1>1, <1>4, <1>6, LivingIs
<1>9. Mark(<<c, n>>) <= Mark(<<c, Len(chain[c])>>)
  <2>1. CASE n = Len(chain[c])
    BY <1>8, <2>1
  <2>2. CASE n < Len(chain[c])
    <3>1. Mark(<<c, n>>) < Mark(<<c, Len(chain[c])>>)
      BY <1>1, <1>4, <1>6, <2>2 DEF Apart
    <3> QED BY <1>8, <3>1
  <2> QED BY <1>2, <1>3, <2>1, <2>2
<1> QED BY <1>3, <1>4, <1>5, <1>7, <1>8, <1>9 DEF Level

LEMMA LostStands ==
    ASSUME Here, NEW c \in Active, Lost(c)
    PROVE  LET u == past[c].under
           IN /\ u \in living /\ u[1] \in Active /\ IsOwn(u[1], u[2])
              /\ Mark(u) \in Nat /\ Begin(c) = Mark(u) + 1
<1> DEFINE u == past[c].under
<1>1. /\ TypeOK /\ Apart /\ Grounded
  BY DEF Here, Standing, Stacked
<1>2. u \in living /\ u[1] \in Active /\ IsOwn(u[1], u[2])
  BY <1>1 DEF Grounded
<1> HIDE DEF u
<1>3. Mark(u) \in Nat
  BY <1>1, <1>2, LivingIs
<1>4. Begin(c) = Mark(u) + 1
  BY DEF Begin, u
<1> QED BY <1>2, <1>3, <1>4 DEF u

(* Where a context begins, and where it has come to. *)
LEMMA PeakStands ==
    ASSUME Here, NEW c \in Active
    PROVE  /\ Peak(c) \in living /\ Peak(c)[1] \in Active /\ IsOwn(Peak(c)[1], Peak(c)[2])
           /\ Level(c) \in Nat /\ Begin(c) \in Nat /\ Begin(c) <= Level(c) + 1
           /\ (past[c].to = Len(chain[c]) => Lost(c) /\ Peak(c) = past[c].under)
           /\ (past[c].to # Len(chain[c]) => IsOwn(c, Len(chain[c])) /\ Peak(c) = <<c, Len(chain[c])>>)
           /\ (~Lost(c) => IsOwn(c, LastShift(c)) /\ Begin(c) = Mark(<<c, LastShift(c)>>))
<1>1. /\ TypeOK /\ Contexted /\ Shaped /\ Apart
  BY DEF Here, Standing
<1>2. /\ c \in Ctx /\ Len(chain[c]) \in Nat \ {0}
      /\ LastShift(c) \in 1 .. Len(chain[c]) /\ LastShift(c) \in Nat
      /\ past[c].to \in 0 .. Len(chain[c]) /\ past[c].to \in Nat
      /\ DOMAIN chain[c] = 1 .. Len(chain[c])
  BY <1>1, ActiveIs, ChainsAre
<1>3. ~Lost(c) => IsOwn(c, LastShift(c)) /\ Begin(c) = Mark(<<c, LastShift(c)>>)
  BY <1>2 DEF Lost, IsOwn, Begin, Mark
<1>4. CASE past[c].to = Len(chain[c])
  <2>1. Lost(c) /\ Peak(c) = past[c].under
    BY <1>2, <1>4 DEF Lost, Peak, PeakAt
  <2>2. /\ Peak(c) \in living /\ Peak(c)[1] \in Active /\ IsOwn(Peak(c)[1], Peak(c)[2])
        /\ Level(c) \in Nat /\ Begin(c) = Level(c) + 1
    BY <2>1, LostStands DEF Level
  <2> QED BY <1>3, <1>4, <2>1, <2>2
<1>5. CASE past[c].to # Len(chain[c])
  <2>1. IsOwn(c, Len(chain[c]))
    BY <1>2, <1>5 DEF IsOwn
  <2>2. Peak(c) = <<c, Len(chain[c])>> /\ Peak(c) \in living /\ Level(c) \in Nat
        /\ Begin(c) <= Level(c)
    BY <2>1, OwnIs DEF Level
  <2>3. Begin(c) \in Nat
    <3>1. CASE Lost(c)
      BY <3>1, LostStands
    <3>2. CASE ~Lost(c)
      BY <1>3, <3>2, OwnIs
    <3> QED BY <3>1, <3>2
  <2>4. Peak(c)[1] = c /\ Peak(c)[2] = Len(chain[c])
    BY <2>2
  <2>5. Begin(c) <= Level(c) + 1
    BY <2>2, <2>3
  <2> QED BY <1>3, <1>5, <2>1, <2>2, <2>3, <2>4, <2>5
<1> QED BY <1>4, <1>5

(* They lie upon each other. *)
LEMMA Rise ==
    ASSUME Here, NEW j \in 1 .. Len(running), NEW k \in 1 .. Len(running), j < k
    PROVE  Level(running[j]) < Begin(running[k]) /\ Begin(running[j]) <= Begin(running[k])
<1>1. TypeOK /\ Contexted /\ Nested
  BY DEF Here, Standing, Stacked
<1>2. Len(running) \in Nat /\ k \in DOMAIN running /\ j \in 1 .. k - 1
      /\ running[j] \in Active /\ running[k] \in Active
  BY <1>1, RunningIs
<1>3. Level(running[j]) < Begin(running[k])
  BY <1>1, <1>2 DEF Nested
<1>4. Level(running[j]) \in Nat /\ Begin(running[j]) \in Nat /\ Begin(running[k]) \in Nat
      /\ Begin(running[j]) <= Level(running[j]) + 1
  BY <1>2, PeakStands
<1> QED BY <1>3, <1>4

LEMMA BelowTheLast ==
    ASSUME Here, NEW c \in Active
    PROVE  Begin(c) <= Begin(cur) /\ (c # cur => Level(c) < Begin(cur))
<1>1. TypeOK /\ Contexted
  BY DEF Here, Standing
<1>2. Len(running) \in Nat \ {0} /\ cur = running[Len(running)] /\ cur \in Active
  BY <1>1, RunningIs
<1>3. PICK j \in 1 .. Len(running) : running[j] = c
  BY <1>1, RunningIs
<1>4. CASE j = Len(running)
  <2>1. c = cur /\ Begin(c) \in Nat
    BY <1>2, <1>3, <1>4, PeakStands
  <2> QED BY <2>1
<1>5. CASE j < Len(running)
  BY <1>2, <1>3, <1>5, Rise
<1> QED BY <1>2, <1>4, <1>5

(* What a lost context stands upon is one that lies below it. *)
LEMMA UnderIsLower ==
    ASSUME Here, NEW k \in 1 .. Len(running), Lost(running[k])
    PROVE  \E j \in 1 .. k - 1 : running[j] = past[running[k]].under[1]
<1> DEFINE c == running[k]
           u == past[c].under
<1>1. TypeOK /\ Contexted /\ Apart
  BY DEF Here, Standing
<1>2. Len(running) \in Nat \ {0} /\ c \in Active
  BY <1>1, RunningIs
<1>3. /\ u \in living /\ u[1] \in Active /\ IsOwn(u[1], u[2])
      /\ Mark(u) \in Nat /\ Begin(c) = Mark(u) + 1
  BY <1>2, LostStands
<1> HIDE DEF u
<1>4. u = <<u[1], u[2]>>
  BY <1>1, <1>3, LivingIs
<1>5. Begin(u[1]) <= Mark(u) /\ Begin(u[1]) \in Nat
  BY <1>3, <1>4, OwnIs, PeakStands
<1>6. PICK j \in 1 .. Len(running) : running[j] = u[1]
  BY <1>1, <1>3, RunningIs
<1>7. CASE j >= k
  <2>1. Begin(c) <= Begin(running[j])
    <3>1. CASE j = k
      BY <1>3, <3>1
    <3>2. CASE j > k
      BY <1>2, <3>2, Rise
    <3> QED BY <1>2, <1>7, <3>1, <3>2
  <2> QED BY <1>3, <1>5, <1>6, <2>1
<1>8. CASE j < k
  BY <1>2, <1>6, <1>8 DEF u
<1> QED BY <1>2, <1>7, <1>8

(* None stands upon a choice of the one that runs. *)
LEMMA UnderIsBelow ==
    ASSUME Here, NEW c \in Active, Lost(c)
    PROVE  past[c].under[1] # cur /\ Mark(past[c].under) < Begin(cur)
<1>1. TypeOK /\ Contexted
  BY DEF Here, Standing
<1>2. Len(running) \in Nat \ {0} /\ cur = running[Len(running)] /\ cur \in Active
  BY <1>1, RunningIs
<1>3. PICK k \in 1 .. Len(running) : running[k] = c
  BY <1>1, RunningIs
<1>4. PICK j \in 1 .. k - 1 : running[j] = past[c].under[1]
  BY <1>3, UnderIsLower
<1>5. j \in DOMAIN running /\ Len(running) \in DOMAIN running /\ j # Len(running)
  BY <1>2, <1>3, <1>4
<1>6. past[c].under[1] # cur
  BY <1>1, <1>2, <1>4, <1>5 DEF Contexted
<1>7. Mark(past[c].under) \in Nat /\ Begin(c) = Mark(past[c].under) + 1
  BY LostStands
<1>8. Begin(c) <= Begin(cur) /\ Begin(cur) \in Nat
  BY <1>2, BelowTheLast, PeakStands
<1> QED BY <1>6, <1>7, <1>8

(* The youngest choice of all: what its context fails into next is not     *)
(* where it has cut past a shift.                                          *)
LEMMA NextInLine ==
    ASSUME Here, InOrder
    PROVE  /\ IsOwn(cur, Len(chain[cur])) /\ past[cur].to < Len(chain[cur])
           /\ Peak(cur) = <<cur, Len(chain[cur])>> /\ Level(cur) = B.mark
           /\ B = chain[cur][Len(chain[cur])] /\ B.mark = Mark(<<cur, Len(chain[cur])>>)
           /\ Len(chain[cur]) \in Nat \ {0}
<1>1. TypeOK /\ Contexted /\ Shaped /\ Apart /\ Highest
  BY DEF Here, Standing, Stacked
<1>2. cur \in Active
  BY <1>1, RunningIs
<1>3. /\ Len(chain[cur]) \in Nat \ {0} /\ past[cur].to \in 0 .. Len(chain[cur]) /\ past[cur].to \in Nat
  BY <1>1, <1>2, ActiveIs
<1>4. /\ B = chain[cur][Len(chain[cur])] /\ B.mark = Mark(<<cur, Len(chain[cur])>>)
  BY DEF B, Last, Mark
<1>5. past[cur].to # Len(chain[cur])
  <2> SUFFICES ASSUME past[cur].to = Len(chain[cur]) PROVE FALSE
    OBVIOUS
  <2> DEFINE u == past[cur].under
  <2>1. Lost(cur) /\ Peak(cur) = u /\ Level(cur) \in Nat
    BY <1>2, PeakStands
  <2>2. u \in living /\ u[1] # cur /\ Level(cur) = Mark(u)
    BY <1>2, <2>1, LostStands, UnderIsBelow DEF Level
  <2> HIDE DEF u
  <2>3. <<cur, Len(chain[cur])>> \in living /\ Mark(u) <= B.mark /\ B.mark <= Level(cur)
    BY <1>1, <1>4, <2>2 DEF InOrder, Highest
  <2>4. Mark(<<cur, Len(chain[cur])>>) = Mark(u)
    <3>1. B.mark \in Nat
      BY <1>1, <1>4, <2>3, LivingIs
    <3> QED BY <1>4, <2>1, <2>2, <2>3, <3>1
  <2>5. u = <<cur, Len(chain[cur])>>
    BY <1>1, <2>2, <2>3, <2>4 DEF Apart
  <2> QED BY <2>2, <2>5
<1>6. IsOwn(cur, Len(chain[cur])) /\ Peak(cur) = <<cur, Len(chain[cur])>>
  BY <1>2, <1>5, PeakStands
<1> QED BY <1>3, <1>4, <1>5, <1>6 DEF Level

(* Unless the context that runs is lost, it is the next in line. *)
LEMMA InLine ==
    ASSUME Here, past[cur].to # Len(chain[cur])
    PROVE  InOrder
<1>1. TypeOK /\ Contexted /\ Highest
  BY DEF Here, Standing, Stacked
<1>2. cur \in Active
  BY <1>1, RunningIs
<1>3. IsOwn(cur, Len(chain[cur])) /\ Peak(cur) = <<cur, Len(chain[cur])>>
  BY <1>2, PeakStands
<1>4. <<cur, Len(chain[cur])>> \in living
  BY <1>2, <1>3, OwnIs
<1>5. Level(cur) = B.mark
  BY <1>3 DEF Level, Mark, B, Last
<1> QED BY <1>1, <1>4, <1>5 DEF InOrder, Highest

-----------------------------------------------------------------------------
(* Steps. What a step leaves alone stands where it stood.                  *)

Alone(c) == chain'[c] = chain[c] /\ past'[c] = past[c]

LEMMA LeftAlone ==
    ASSUME Here, NEW c \in Active, Alone(c),
           Lost(c) => Mark(past[c].under)' = Mark(past[c].under)
    PROVE  /\ LastShift(c)' = LastShift(c) /\ Lost(c)' = Lost(c) /\ Begin(c)' = Begin(c)
           /\ \A n : IsOwn(c, n)' = IsOwn(c, n)
           /\ \A n : PeakAt(c, n)' = PeakAt(c, n)
           /\ Peak(c)' = Peak(c) /\ Level(c)' = Level(c)
<1>1. LastShift(c)' = LastShift(c) /\ Lost(c)' = Lost(c)
  BY DEF LastShift, Lost, Alone
<1>2. \A n : IsOwn(c, n)' = IsOwn(c, n)
  BY <1>1 DEF IsOwn, Alone
<1>3. Begin(c)' = Begin(c)
  <2>1. CASE Lost(c)
    BY <1>1, <2>1 DEF Begin, Alone
  <2>2. CASE ~Lost(c)
    BY <1>1, <2>2 DEF Begin, Alone
  <2> QED BY <2>1, <2>2
<1>4. (\A n : PeakAt(c, n)' = PeakAt(c, n)) /\ Peak(c)' = Peak(c)
  BY DEF PeakAt, Peak, Alone
<1>5. Level(c)' = Level(c)
  <2>1. CASE past[c].to = Len(chain[c])
    <3>1. Lost(c) /\ Peak(c) = past[c].under
      BY <2>1, PeakStands
    <3>2. Level(c)' = Mark(past[c].under)'
      <4>1. Peak(c)' = past'[c].under
        BY <1>4, <3>1 DEF Alone
      <4> QED BY <4>1 DEF Level
    <3> QED BY <3>1, <3>2 DEF Level
  <2>2. CASE past[c].to # Len(chain[c])
    <3>1. Peak(c) = <<c, Len(chain[c])>>
      BY <2>2, PeakStands
    <3>2. Peak(c)' = <<c, Len(chain[c])>>
      BY <1>4, <3>1
    <3> QED BY <3>1, <3>2 DEF Level, Mark, Alone
  <2> QED BY <2>1, <2>2
<1> QED BY <1>1, <1>2, <1>3, <1>4, <1>5

-----------------------------------------------------------------------------
(* A choice more, the youngest of all, of the context that runs then.      *)

Onto(p, N) ==
    /\ p \in Ctx /\ chain'[p] \in Seq(Headers) /\ N = Len(chain[p]) + 1 /\ Len(chain'[p]) = N
    /\ \A n \in 1 .. N - 1 : chain'[p][n] = chain[p][n]
    /\ \A c \in Ctx \ {p} : chain'[c] = chain[c]
    /\ past' = past /\ living' = living \cup {<<p, N>>}
    /\ \A i \in living : Mark(i) < chain'[p][N].mark
    /\ running' \in Seq(Ctx) /\ running' # <<>> /\ running'[Len(running')] = p
    /\ \A j \in 1 .. Len(running') - 1 : j <= Len(running) /\ running'[j] = running[j]

(* It already ran or waited, or it comes to run. *)
Again(p, N) ==
    /\ p \in Active /\ Len(running') <= Len(running) /\ running[Len(running')] = p
    /\ chain'[p][N].kind # "unwound"
Anew(p, N) ==
    /\ p \notin Active /\ Len(running') = Len(running) + 1
    /\ chain[p] = <<>> \/ chain'[p][N].kind = "unwound"

LEMMA PushMarks ==
    ASSUME Here, NEW p, NEW N, Onto(p, N)
    PROVE  /\ \A i \in living : Mark(i)' = Mark(i) /\ Mark(i) \in Nat /\ Mark(i) < Mark(<<p, N>>)'
           /\ Mark(<<p, N>>)' \in Nat /\ Mark(<<p, N>>)' = chain'[p][N].mark
           /\ N \in Nat \ {0} /\ past[p].to < N /\ past[p].to \in Nat
<1>1. TypeOK /\ Apart /\ Shaped
  BY DEF Here, Standing
<1>2. p \in Ctx /\ Len(chain[p]) \in Nat /\ N \in Nat \ {0} /\ past[p].to \in Nat /\ past[p].to < N
  <2>1. p \in Ctx
    BY DEF Onto
  <2>2. Len(chain[p]) \in Nat /\ past[p].to \in Nat
    BY <1>1, <2>1, ChainsAre
  <2>3. past[p].to <= Len(chain[p])
    BY <1>1, <2>1 DEF Shaped
  <2>4. N = Len(chain[p]) + 1
    BY DEF Onto
  <2> QED BY <2>1, <2>2, <2>3, <2>4
<1>3. Mark(<<p, N>>)' = chain'[p][N].mark
  BY DEF Mark
<1>4. Mark(<<p, N>>)' \in Nat
  <2>1. chain'[p][N] \in Headers
    BY <1>2 DEF Onto
  <2> QED BY <1>3, <2>1 DEF Headers
<1>5. ASSUME NEW i \in living
      PROVE  Mark(i)' = Mark(i) /\ Mark(i) \in Nat /\ Mark(i) < Mark(<<p, N>>)'
  <2>1. i[1] \in Ctx /\ i[2] \in 1 .. Len(chain[i[1]]) /\ Mark(i) \in Nat
    BY <1>1, LivingIs
  <2>2. chain'[i[1]][i[2]] = chain[i[1]][i[2]]
    <3>1. CASE i[1] = p
      BY <1>2, <2>1, <3>1 DEF Onto
    <3>2. CASE i[1] # p
      BY <2>1, <3>2 DEF Onto
    <3> QED BY <3>1, <3>2
  <2>3. Mark(i)' = Mark(i)
    BY <2>2 DEF Mark
  <2>4. Mark(i) < chain'[p][N].mark
    BY DEF Onto
  <2> QED BY <1>3, <2>1, <2>3, <2>4
<1> QED BY <1>2, <1>3, <1>4, <1>5

(* The contexts below it. *)
LEMMA PushOthers ==
    ASSUME Here, NEW p, NEW N, Onto(p, N), NEW c \in Active, c # p
    PROVE  /\ LastShift(c)' = LastShift(c) /\ Lost(c)' = Lost(c) /\ Begin(c)' = Begin(c)
           /\ \A n : IsOwn(c, n)' = IsOwn(c, n)
           /\ \A n : PeakAt(c, n)' = PeakAt(c, n)
           /\ Peak(c)' = Peak(c) /\ Level(c)' = Level(c)
<1>1. c \in Ctx
  <2>1. TypeOK /\ Contexted
    BY DEF Here, Standing
  <2> QED BY <2>1, RunningIs
<1>2. Alone(c)
  BY <1>1 DEF Onto, Alone
<1>3. Lost(c) => Mark(past[c].under)' = Mark(past[c].under)
  <2> SUFFICES ASSUME Lost(c) PROVE Mark(past[c].under)' = Mark(past[c].under)
    OBVIOUS
  <2>1. past[c].under \in living
    BY LostStands
  <2> DEFINE u == past[c].under
  <2>2. past' = past
    BY DEF Onto
  <2>3. Mark(u)' = chain'[u[1]][u[2]].mark
    BY <2>2 DEF Mark
  <2>4. \A i \in living : chain'[i[1]][i[2]].mark = Mark(i)
    BY PushMarks DEF Mark
  <2> QED BY <2>1, <2>3, <2>4
<1> QED BY <1>2, <1>3, LeftAlone

(* The context itself. *)
LEMMA PushItself ==
    ASSUME Here, NEW p, NEW N, Onto(p, N), Again(p, N) \/ Anew(p, N)
    PROVE  /\ Peak(p)' = <<p, N>> /\ Level(p)' = Mark(<<p, N>>)' /\ Len(chain'[p]) = N
           /\ \A n \in Nat : n < N => PeakAt(p, n)' = PeakAt(p, n)
           /\ Again(p, N) => /\ LastShift(p)' = LastShift(p) /\ Lost(p)' = Lost(p)
                          /\ Begin(p)' = Begin(p) /\ Begin(p) <= Mark(<<p, N>>)'
                          /\ \A n : IsOwn(p, n)' = (IsOwn(p, n) \/ n = N)
           /\ Anew(p, N) => /\ LastShift(p)' = N /\ ~Lost(p)' /\ Begin(p)' = Mark(<<p, N>>)'
                         /\ \A n : IsOwn(p, n)' = (n = N)
<1>1. TypeOK /\ Apart /\ Shaped /\ Contexted
  BY DEF Here, Standing
<1>2. /\ p \in Ctx /\ Len(chain[p]) \in Nat /\ N = Len(chain[p]) + 1 /\ N \in Nat \ {0} /\ past[p].to \in Nat
      /\ past[p].to < N /\ past' = past /\ Len(chain'[p]) = N /\ DOMAIN chain'[p] = 1 .. N
      /\ DOMAIN chain[p] = 1 .. N - 1
      /\ \A n \in 1 .. N - 1 : chain'[p][n] = chain[p][n]
  <2>1. p \in Ctx /\ past' = past /\ Len(chain'[p]) = N /\ chain'[p] \in Seq(Headers)
        /\ N = Len(chain[p]) + 1
        /\ \A n \in 1 .. N - 1 : chain'[p][n] = chain[p][n]
    BY DEF Onto
  <2>2. Len(chain[p]) \in Nat /\ DOMAIN chain[p] = 1 .. Len(chain[p])
    BY <1>1, <2>1, ChainsAre
  <2>3. DOMAIN chain'[p] = 1 .. N
    BY <2>1
  <2>4. N \in Nat \ {0} /\ past[p].to < N /\ past[p].to \in Nat
    BY PushMarks
  <2>5. DOMAIN chain[p] = 1 .. N - 1
    BY <2>1, <2>2
  <2> QED BY <2>1, <2>2, <2>3, <2>4, <2>5
<1>3. /\ Peak(p)' = <<p, N>> /\ Level(p)' = Mark(<<p, N>>)' /\ Len(chain'[p]) = N
      /\ \A n \in Nat : n < N => PeakAt(p, n)' = PeakAt(p, n)
  <2>1. Peak(p)' = <<p, N>>
    BY <1>2 DEF Peak, PeakAt
  <2>2. Level(p)' = Mark(<<p, N>>)'
    BY <2>1 DEF Level
  <2>3. \A n \in Nat : PeakAt(p, n)' = PeakAt(p, n)
    BY <1>2 DEF PeakAt
  <2> QED BY <1>2, <2>1, <2>2, <2>3
<1>4. ASSUME Again(p, N)
      PROVE  /\ LastShift(p)' = LastShift(p) /\ Lost(p)' = Lost(p)
             /\ Begin(p)' = Begin(p) /\ Begin(p) <= Mark(<<p, N>>)'
             /\ \A n : IsOwn(p, n)' = (IsOwn(p, n) \/ n = N)
  <2>1. p \in Active /\ chain'[p][N].kind # "unwound"
    BY <1>4 DEF Again
  <2>2. Len(chain[p]) \in Nat \ {0} /\ LastShift(p) \in 1 .. Len(chain[p])
    BY <1>1, <2>1, ActiveIs
  <2>3. LastShift(p)' = LastShift(p)
    <3>1. LastShift(p)' = ShiftIn(chain'[p], Len(chain[p]) + 1)
      BY <1>2 DEF LastShift
    <3>2. ShiftIn(chain'[p], Len(chain[p]) + 1) = ShiftIn(chain'[p], Len(chain[p]))
      BY <1>2, <2>1, <2>2, ShiftInStays
    <3>3. ShiftIn(chain'[p], Len(chain[p])) = ShiftIn(chain[p], Len(chain[p]))
      <4>1. \A n \in 1 .. Len(chain[p]) : chain'[p][n].kind = chain[p][n].kind
        BY <1>2
      <4> QED BY <2>2, <4>1, ShiftInSame
    <3> QED BY <3>1, <3>2, <3>3 DEF LastShift
  <2>4. Lost(p)' = Lost(p)
    BY <1>2, <2>3 DEF Lost
  <2>5. \A n : IsOwn(p, n)' = (IsOwn(p, n) \/ n = N)
    BY <1>2, <2>2, <2>3 DEF IsOwn
  <2>6. Begin(p)' = Begin(p) /\ Begin(p) <= Mark(<<p, N>>)'
    <3>1. CASE Lost(p)
      <4> DEFINE u == past[p].under
      <4>1. u \in living /\ Begin(p) = Mark(u) + 1 /\ Mark(u) \in Nat
        BY <2>1, <3>1, LostStands
      <4>2. Begin(p)' = Mark(u)' + 1
        BY <1>2, <2>4, <3>1 DEF Begin, Mark
      <4>3. Mark(u)' = Mark(u) /\ Mark(u) < Mark(<<p, N>>)' /\ Mark(<<p, N>>)' \in Nat
        <5>1. \A i \in living : chain'[i[1]][i[2]].mark = Mark(i) /\ Mark(i) < Mark(<<p, N>>)'
          BY PushMarks DEF Mark
        <5>2. Mark(u)' = chain'[u[1]][u[2]].mark
          BY <1>2 DEF Mark
        <5> QED BY <4>1, <5>1, <5>2, PushMarks
      <4> HIDE DEF u
      <4> QED BY <4>1, <4>2, <4>3
    <3>2. CASE ~Lost(p)
      <4>1. Begin(p) = Mark(<<p, LastShift(p)>>) /\ <<p, LastShift(p)>> \in living
        BY <2>1, <3>2, PeakStands, OwnIs
      <4>2. Begin(p)' = chain'[p][LastShift(p)].mark
        BY <2>3, <2>4, <3>2 DEF Begin
      <4>3. chain'[p][LastShift(p)] = chain[p][LastShift(p)]
        BY <1>2, <2>2
      <4>4. Begin(p)' = Begin(p)
        BY <4>1, <4>2, <4>3 DEF Mark
      <4>5. Mark(<<p, LastShift(p)>>) < Mark(<<p, N>>)' /\ Mark(<<p, LastShift(p)>>) \in Nat
            /\ Mark(<<p, N>>)' \in Nat
        BY <4>1, PushMarks
          <4> QED BY <4>1, <4>4, <4>5
    <3> QED BY <3>1, <3>2
  <2> QED BY <2>3, <2>4, <2>5, <2>6
<1>5. ASSUME Anew(p, N)
      PROVE  /\ LastShift(p)' = N /\ ~Lost(p)' /\ Begin(p)' = Mark(<<p, N>>)'
             /\ \A n : IsOwn(p, n)' = (n = N)
  <2>1. N = 1 \/ chain'[p][N].kind = "unwound"
    <3>1. chain[p] = <<>> => Len(chain[p]) = 0
      OBVIOUS
    <3> QED BY <1>2, <1>5, <3>1 DEF Anew
  <2>2. ShiftIn(chain'[p], N) = N
    <3> QED BY <1>2, <2>1, ShiftInTop
  <2>3. LastShift(p)' = N
    BY <1>2, <2>2 DEF LastShift
  <2>4. ~Lost(p)'
    BY <1>2, <2>3 DEF Lost
  <2>5. Begin(p)' = Mark(<<p, N>>)'
    BY <2>3, <2>4 DEF Begin, Mark
  <2>6. \A n : IsOwn(p, n)' = (n = N)
    BY <1>2, <2>3 DEF IsOwn
  <2> QED BY <2>3, <2>4, <2>5, <2>6
<1> QED BY <1>3, <1>4, <1>5

(* Who runs and waits then. *)
LEMMA PushActive ==
    ASSUME Here, NEW p, NEW N, Onto(p, N), Again(p, N) \/ Anew(p, N)
    PROVE  /\ Len(running') \in Nat \ {0} /\ DOMAIN running' = 1 .. Len(running') /\ cur' = p
           /\ Len(running) \in Nat \ {0}
           /\ \A j \in 1 .. Len(running') - 1 :
                  /\ j \in 1 .. Len(running) /\ running'[j] = running[j]
                  /\ running'[j] # p /\ running'[j] \in Active
           /\ Again(p, N) => \A j \in 1 .. Len(running') : j \in 1 .. Len(running) /\ running'[j] = running[j]
           /\ Anew(p, N) => Len(running') = Len(running) + 1
           /\ \A c \in Active' : c # p => c \in Active
           /\ \A c \in Active' : \E j \in 1 .. Len(running') : running'[j] = c
           /\ \A j \in 1 .. Len(running') : running'[j] \in Active'
<1>1. TypeOK /\ Contexted
  BY DEF Here, Standing
<1>2. /\ Len(running) \in Nat \ {0} /\ DOMAIN running = 1 .. Len(running)
      /\ \A j \in 1 .. Len(running) : running[j] \in Active
      /\ \A c \in Active : \E j \in 1 .. Len(running) : running[j] = c
  BY <1>1, RunningIs
<1>3. /\ running' \in Seq(Ctx) /\ running' # <<>> /\ running'[Len(running')] = p
      /\ \A j \in 1 .. Len(running') - 1 : j <= Len(running) /\ running'[j] = running[j]
  BY DEF Onto
<1>4. Len(running') \in Nat \ {0} /\ DOMAIN running' = 1 .. Len(running') /\ cur' = p
  BY <1>3 DEF cur, Last
<1>5. Active' = {running'[j] : j \in 1 .. Len(running')}
  BY <1>4 DEF Active
<1>6. Again(p, N) => \A j \in 1 .. Len(running') : j \in 1 .. Len(running) /\ running'[j] = running[j]
  BY <1>2, <1>3, <1>4 DEF Again
<1>7. Anew(p, N) => Len(running') = Len(running) + 1
  BY DEF Anew
<1>8. ASSUME NEW j \in 1 .. Len(running') - 1
      PROVE  /\ j \in 1 .. Len(running) /\ running'[j] = running[j]
             /\ running'[j] # p /\ running'[j] \in Active
  <2>1. j \in 1 .. Len(running) /\ running'[j] = running[j] /\ running'[j] \in Active
    BY <1>2, <1>3, <1>4, <1>8
  <2>2. CASE Again(p, N)
    <3> DEFINE m == Len(running')
    <3>3. running[m] = p /\ m <= Len(running)
      BY <2>2 DEF Again
    <3>4. m \in Nat \ {0} /\ j \in 1 .. m - 1
      BY <1>4, <1>8
    <3>1. running[m] = p /\ m \in DOMAIN running /\ j \in DOMAIN running /\ j # m
      BY <1>2, <2>1, <3>3, <3>4
    <3> HIDE DEF m
    <3>2. running[j] # running[m]
      BY <1>1, <3>1 DEF Contexted
    <3> QED BY <2>1, <3>1, <3>2
  <2>3. CASE Anew(p, N)
    BY <2>1, <2>3 DEF Anew
  <2> QED BY <2>1, <2>2, <2>3
<1>9. ASSUME NEW c \in Active' PROVE \E j \in 1 .. Len(running') : running'[j] = c
  BY <1>5
<1>10. ASSUME NEW c \in Active', c # p PROVE c \in Active
  <2>1. PICK j \in 1 .. Len(running') : running'[j] = c
    BY <1>9
  <2>2. j \in 1 .. Len(running') - 1
    BY <1>3, <1>4, <1>10, <2>1
  <2> QED BY <1>8, <2>1, <2>2
<1>11. \A j \in 1 .. Len(running') : running'[j] \in Active'
  BY <1>5
<1> QED BY <1>2, <1>4, <1>6, <1>7, <1>8, <1>9, <1>10, <1>11

LEMMA PushHighest ==
    ASSUME Here, NEW p, NEW N, Onto(p, N), Again(p, N) \/ Anew(p, N)
    PROVE  Highest'
<1>1. cur' = p /\ Level(p)' = Mark(<<p, N>>)' /\ living' = living \cup {<<p, N>>}
  BY PushActive, PushItself DEF Onto
<1>2. Level(cur)' = Mark(<<p, N>>)'
  BY <1>1 DEF Level, Peak
<1>3. \A i \in living : Mark(i)' = Mark(i) /\ Mark(i) \in Nat /\ Mark(i) < Mark(<<p, N>>)'
  BY PushMarks
<1>4. Mark(<<p, N>>)' \in Nat
  BY PushMarks
<1> QED BY <1>1, <1>2, <1>3, <1>4 DEF Highest

LEMMA PushOwnLive ==
    ASSUME Here, NEW p, NEW N, Onto(p, N), Again(p, N) \/ Anew(p, N)
    PROVE  OwnLive'
<1> SUFFICES ASSUME NEW c \in Active', NEW n \in Nat, IsOwn(c, n)'
             PROVE  <<c, n>> \in living' /\ Begin(c)' <= Mark(<<c, n>>)'
  BY DEF OwnLive
<1>1. living' = living \cup {<<p, N>>}
  BY DEF Onto
<1>2. \A i \in living : Mark(i)' = Mark(i)
  BY PushMarks
<1>3. Mark(<<p, N>>)' \in Nat
  BY PushMarks
<1>4. CASE c # p
  <2>1. c \in Active
    BY <1>4, PushActive
  <2>2. IsOwn(c, n) /\ Begin(c)' = Begin(c)
    BY <1>4, <2>1, PushOthers
  <2>3. <<c, n>> \in living /\ Begin(c) <= Mark(<<c, n>>)
    BY <2>1, <2>2, OwnIs
  <2> QED BY <1>1, <1>2, <2>2, <2>3
<1>5. CASE c = p /\ Again(p, N)
  <2>1. p \in Active
    BY <1>5 DEF Again
  <2>2. /\ Begin(p)' = Begin(p) /\ Begin(p) <= Mark(<<p, N>>)'
        /\ IsOwn(p, n) \/ n = N
    BY <1>5, PushItself
  <2>3. CASE IsOwn(p, n)
    <3>1. <<p, n>> \in living /\ Begin(p) <= Mark(<<p, n>>)
      BY <2>1, <2>3, OwnIs
    <3> QED BY <1>1, <1>2, <1>5, <2>2, <3>1
  <2>4. CASE n = N
    BY <1>1, <1>5, <2>2, <2>4
  <2> QED BY <2>2, <2>3, <2>4
<1>6. CASE c = p /\ Anew(p, N)
  <2>1. Begin(p)' = Mark(<<p, N>>)' /\ n = N
    BY <1>6, PushItself
  <2> QED BY <1>1, <1>3, <1>6, <2>1
<1> QED BY <1>4, <1>5, <1>6

LEMMA PushGrounded ==
    ASSUME Here, NEW p, NEW N, Onto(p, N), Again(p, N) \/ Anew(p, N)
    PROVE  Grounded'
<1> SUFFICES ASSUME NEW c \in Active', Lost(c)', NEW u, u = past'[c].under
             PROVE  u \in living' /\ u[1] \in Active' /\ IsOwn(u[1], u[2])'
  BY DEF Grounded
<1>1. living' = living \cup {<<p, N>>} /\ past' = past
  BY DEF Onto
<1>2. c \in Active /\ Lost(c)
  <2>1. CASE c # p
    BY <2>1, PushActive, PushOthers
  <2>2. CASE c = p
    <3>1. Again(p, N)
      BY <2>2, PushItself
    <3> QED BY <2>2, <3>1, PushItself DEF Again
  <2> QED BY <2>1, <2>2
<1>3. u = past[c].under
  BY <1>1
<1>4. u \in living /\ u[1] \in Active /\ IsOwn(u[1], u[2])
  BY <1>2, <1>3, LostStands
<1>5. u[1] \in Active'
  <2>1. PICK k \in 1 .. Len(running') : running'[k] = c
    BY PushActive
  <2>2. k \in 1 .. Len(running) /\ running[k] = c
    <3>1. CASE c # p
      <4>1. k # Len(running')
        BY <2>1, <3>1 DEF Onto
      <4>2. k \in 1 .. Len(running') - 1
        BY <2>1, <4>1, PushActive
      <4> QED BY <2>1, <4>2, PushActive
    <3>2. CASE c = p
      <4>1. Again(p, N)
        BY <1>2, <3>2 DEF Anew
      <4> QED BY <2>1, <4>1, PushActive
    <3> QED BY <3>1, <3>2
  <2>3. PICK j \in 1 .. k - 1 : running[j] = u[1]
    BY <1>2, <1>3, <2>2, UnderIsLower
  <2>4. j \in 1 .. Len(running') - 1 /\ j \in 1 .. Len(running')
    BY <2>1, <2>3, PushActive
  <2> QED BY <2>3, <2>4, PushActive
<1>6. IsOwn(u[1], u[2])'
  <2>1. CASE u[1] # p
    BY <1>4, <2>1, PushOthers
  <2>2. CASE u[1] = p
    <3>1. Again(p, N)
      BY <1>4, <2>2 DEF Anew
    <3> QED BY <1>4, <2>2, <3>1, PushItself
  <2> QED BY <2>1, <2>2
<1> QED BY <1>1, <1>3, <1>4, <1>5, <1>6

LEMMA PushLost ==
    ASSUME Here, NEW p, NEW N, Onto(p, N), Again(p, N) \/ Anew(p, N),
           NEW c \in Active', Lost(c)'
    PROVE  c \in Active /\ Lost(c)
<1>1. CASE c # p
  BY <1>1, PushActive, PushOthers
<1>2. CASE c = p
  <2>1. Again(p, N)
    BY <1>2, PushItself
  <2> QED BY <1>2, <2>1, PushItself DEF Again
<1> QED BY <1>1, <1>2

LEMMA PushNested ==
    ASSUME Here, NEW p, NEW N, Onto(p, N), Again(p, N) \/ Anew(p, N)
    PROVE  Nested'
<1> SUFFICES ASSUME NEW k \in 1 .. Len(running'), NEW j \in 1 .. k - 1,
                    NEW c, c = running'[j], NEW d, d = running'[k]
             PROVE  Level(c)' < Begin(d)'
  BY PushActive DEF Nested
<1>1. /\ Len(running') \in Nat \ {0} /\ Len(running) \in Nat \ {0} /\ j \in 1 .. Len(running') - 1
  BY PushActive
<1>2. /\ j \in 1 .. Len(running) /\ c = running[j] /\ c # p /\ c \in Active
  BY <1>1, PushActive
<1>3. Level(c)' = Level(c)
  BY <1>2, PushOthers
<1>4. CASE k # Len(running')
  <2>1. k \in 1 .. Len(running') - 1
    BY <1>1, <1>4
  <2>2. k \in 1 .. Len(running) /\ d = running[k] /\ d # p /\ d \in Active
    BY <2>1, PushActive
  <2>3. Begin(d)' = Begin(d)
    BY <2>2, PushOthers
  <2>4. j < k
    BY <1>1
  <2>5. Level(c) < Begin(d)
    BY <1>2, <2>2, <2>4, Rise
  <2> QED BY <1>3, <2>3, <2>5
<1>5. CASE k = Len(running') /\ Again(p, N)
  <2>1. d = p /\ k \in 1 .. Len(running) /\ d = running[k] /\ j < k
    BY <1>1, <1>5, PushActive DEF Onto
  <2>2. Begin(p)' = Begin(p)
    BY <1>5, PushItself
  <2>3. Level(c) < Begin(d)
    BY <1>2, <2>1, Rise
  <2> QED BY <1>3, <2>1, <2>2, <2>3
<1>6. CASE k = Len(running') /\ Anew(p, N)
  <2>1. d = p
    BY <1>6 DEF Onto
  <2>2. Begin(d)' = Mark(<<p, N>>)'
    BY <1>6, <2>1, PushItself
  <2>3. Peak(c) \in living /\ Level(c) = Mark(Peak(c))
    BY <1>2, PeakStands DEF Level
  <2>4. Level(c) < Mark(<<p, N>>)'
    <3>1. \A i \in living : Mark(i) < Mark(<<p, N>>)'
      BY PushMarks
    <3> QED BY <2>3, <3>1
  <2> QED BY <1>3, <2>2, <2>4
<1> QED BY <1>4, <1>5, <1>6

LEMMA PushAdjoined ==
    ASSUME Here, NEW p, NEW N, Onto(p, N), Again(p, N) \/ Anew(p, N)
    PROVE  Adjoined'
<1> SUFFICES ASSUME NEW k \in 2 .. Len(running'), NEW i \in living',
                    NEW c, c = running'[k - 1], NEW d, d = running'[k], Mark(i)' < Begin(d)'
             PROVE  Mark(i)' <= Level(c)'
  BY DEF Adjoined
<1>0. TypeOK /\ Contexted /\ Adjoined /\ Highest
  BY DEF Here, Standing, Stacked
<1>1. /\ Len(running') \in Nat \ {0} /\ Len(running) \in Nat \ {0} /\ k - 1 \in 1 .. Len(running') - 1
  BY PushActive
<1>2. /\ k - 1 \in 1 .. Len(running) /\ c = running[k - 1] /\ c # p /\ c \in Active
  BY <1>1, PushActive
<1>3. Level(c)' = Level(c)
  BY <1>2, PushOthers
<1>4. living' = living \cup {<<p, N>>}
  BY DEF Onto
<1>5. /\ Mark(<<p, N>>)' \in Nat
      /\ \A l \in living : Mark(l)' = Mark(l) /\ Mark(l) < Mark(<<p, N>>)' /\ Mark(l) \in Nat
  BY PushMarks
<1>6. CASE Anew(p, N) /\ k = Len(running')
  <2>0. d = p /\ Begin(p)' = Mark(<<p, N>>)'
    BY <1>6, PushItself DEF Onto
  <2>1. Begin(d)' = Mark(<<p, N>>)'
    BY <2>0
  <2>2. i # <<p, N>>
    BY <1>5, <2>1
  <2>3. i \in living
    BY <1>4, <2>2
  <2>4. k - 1 = Len(running)
    BY <1>1, <1>6, PushActive
  <2>5. c = cur
    BY <1>0, <1>2, <2>4, RunningIs
  <2> QED BY <1>0, <1>3, <1>5, <2>3, <2>5 DEF Highest
<1>7. CASE ~(Anew(p, N) /\ k = Len(running'))
  <2>1. k \in 2 .. Len(running) /\ d = running[k] /\ Begin(d)' = Begin(d) /\ d \in Active
        /\ (d = p => Again(p, N))
    <3>1. CASE k # Len(running')
      <4>1. k \in 1 .. Len(running') - 1
        BY <1>1, <3>1
      <4>2. k \in 1 .. Len(running) /\ d = running[k] /\ d # p /\ d \in Active
        BY <4>1, PushActive
      <4> QED BY <1>1, <4>2, PushOthers
    <3>2. CASE k = Len(running')
      <4>1. Again(p, N) /\ d = p
        BY <1>7, <3>2 DEF Onto
      <4>2. k \in 1 .. Len(running') /\ k \in 2 .. Len(running')
        BY <1>1
      <4>3. k \in 1 .. Len(running) /\ d = running[k] /\ d \in Active
        BY <4>1, <4>2, PushActive DEF Again
      <4>4. Begin(p)' = Begin(p)
        BY <4>1, PushItself
      <4>5. k \in 2 .. Len(running)
        BY <1>1, <4>2, <4>3
      <4>6. Begin(d)' = Begin(d)
        BY <4>1, <4>4
      <4> QED BY <4>1, <4>3, <4>5, <4>6
    <3> QED BY <3>1, <3>2
  <2>2. i # <<p, N>>
    <3> SUFFICES ASSUME i = <<p, N>> PROVE FALSE
      OBVIOUS
    <3>1. CASE d = p
      <4>1. Begin(d) <= Mark(<<p, N>>)' /\ Begin(d) \in Nat
        BY <2>1, <3>1, PushItself, PeakStands
      <4> QED BY <1>5, <2>1, <4>1
    <3>2. CASE d # p
      <4>1. Begin(d) <= Level(d) + 1 /\ Begin(d) \in Nat /\ Level(d) \in Nat
            /\ Peak(d) \in living /\ Level(d) = Mark(Peak(d))
        BY <2>1, PeakStands DEF Level
      <4>2. Level(d) < Mark(<<p, N>>)'
        BY <1>5, <4>1
      <4> QED BY <1>5, <2>1, <4>1, <4>2
    <3> QED BY <3>1, <3>2
  <2>3. i \in living
    BY <1>4, <2>2
  <2>4. Mark(i) < Begin(d)
    BY <1>5, <2>1, <2>3
  <2>5. Mark(i) <= Level(c)
    BY <1>0, <1>2, <2>1, <2>3, <2>4 DEF Adjoined
  <2> QED BY <1>3, <1>5, <2>3, <2>5
<1> QED BY <1>6, <1>7

LEMMA PushFloored ==
    ASSUME Here, NEW p, NEW N, Onto(p, N), Again(p, N) \/ Anew(p, N),
           \A c \in Active : ctx'[c].base = ctx[c].base /\ ctx'[c].floor = ctx[c].floor,
           Anew(p, N) /\ ctx'[p].base < ctx'[p].floor => Level(cur) <= ctx'[p].floor
    PROVE  Floored'
<1> SUFFICES ASSUME NEW k \in 2 .. Len(running'), NEW c, c = running'[k], NEW a, a = running'[k - 1]
             PROVE  /\ ctx'[c].base < ctx'[c].floor => Level(a)' <= ctx'[c].floor
                    /\ Lost(c)' => Begin(c)' <= ctx'[c].floor + 1
  BY DEF Floored
<1>0. TypeOK /\ Contexted /\ Floored
  BY DEF Here, Standing, Stacked
<1>1. /\ Len(running') \in Nat \ {0} /\ Len(running) \in Nat \ {0} /\ k - 1 \in 1 .. Len(running') - 1
  BY PushActive
<1>2. /\ k - 1 \in 1 .. Len(running) /\ a = running[k - 1] /\ a # p /\ a \in Active
  BY <1>1, PushActive
<1>3. Level(a)' = Level(a)
  BY <1>2, PushOthers
<1>4. c \in Active'
  BY <1>1, PushActive
<1>5. CASE Anew(p, N) /\ k = Len(running')
  <2>0. c = p /\ ~Lost(p)'
    BY <1>5, PushItself DEF Onto
  <2>1. c = p /\ ~Lost(c)'
    BY <2>0
  <2>2. k - 1 = Len(running)
    BY <1>1, <1>5, PushActive
  <2>3. a = cur
    BY <1>0, <1>2, <2>2, RunningIs
  <2> QED BY <1>3, <1>5, <2>1, <2>3
<1>6. CASE ~(Anew(p, N) /\ k = Len(running'))
  <2>1. k \in 2 .. Len(running) /\ c = running[k] /\ c \in Active
    <3>1. CASE k # Len(running')
      <4>1. k \in 1 .. Len(running') - 1
        BY <1>1, <3>1
      <4> QED BY <1>1, <4>1, PushActive
    <3>2. CASE k = Len(running')
      <4>1. Again(p, N) /\ c = p
        BY <1>6, <3>2 DEF Onto
      <4>2. k \in 1 .. Len(running') /\ k \in 2 .. Len(running')
        BY <1>1
      <4>3. k \in 1 .. Len(running) /\ running'[k] = running[k]
        BY <4>1, <4>2, PushActive
      <4>4. p \in Active
        BY <4>1 DEF Again
      <4>5. k \in 2 .. Len(running)
        BY <1>1, <4>2, <4>3
      <4>6. c = running[k] /\ c \in Active
        BY <4>1, <4>3, <4>4
      <4> QED BY <4>5, <4>6
    <3> QED BY <3>1, <3>2
  <2>2. /\ ctx[c].base < ctx[c].floor => Level(a) <= ctx[c].floor
        /\ Lost(c) => Begin(c) <= ctx[c].floor + 1
    BY <1>0, <1>2, <2>1 DEF Floored
  <2>3. Lost(c)' => Lost(c) /\ Begin(c)' = Begin(c)
    <3>1. CASE c # p
      BY <2>1, <3>1, PushOthers
    <3>2. CASE c = p
      <4>1. Again(p, N)
        BY <2>1, <3>2 DEF Anew
      <4>2. Lost(p)' = Lost(p) /\ Begin(p)' = Begin(p)
        BY <4>1, PushItself
      <4> QED BY <3>2, <4>2
    <3> QED BY <3>1, <3>2
  <2> QED BY <1>3, <2>1, <2>2, <2>3
<1> QED BY <1>5, <1>6

(* Choices that will be retried, as they are seen after it. *)
LEMMA PeakIsThere ==
    ASSUME Here, NEW i \in living, Kind(i) \in {"user", "redo"}, Returns(i[1], i[2] - 1)
    PROVE  LET v == PeakAt(i[1], i[2] - 1)
           IN /\ v = <<v[1], v[2]>> /\ v[1] \in Ctx /\ v[2] \in 1 .. Len(chain[v[1]])
              /\ i[2] - 1 \in Nat /\ i[2] - 1 \in 1 .. Len(chain[i[1]])
              /\ \/ v = <<i[1], i[2] - 1>>
                 \/ /\ v = past[i[1]].under /\ v \in living /\ i[1] \in Active /\ Lost(i[1])
                    /\ i[2] - 1 = past[i[1]].to
<1>1. TypeOK /\ Shaped /\ Apart
  BY DEF Here, Standing
<1>2. i[1] \in Ctx /\ i[2] \in 1 .. Len(chain[i[1]]) /\ Len(chain[i[1]]) \in Nat
      /\ DOMAIN chain[i[1]] = 1 .. Len(chain[i[1]]) /\ past[i[1]].to \in Nat
  BY <1>1, LivingIs, ChainsAre
<1>3. i[2] # 1
  BY <1>1, <1>2 DEF Shaped, Kind
<1>4. i[2] - 1 \in Nat /\ i[2] - 1 \in 1 .. Len(chain[i[1]])
  BY <1>2, <1>3
<1>5. CASE i[2] - 1 = past[i[1]].to
  <2>1. i[1] \in Active /\ Lost(i[1]) /\ PeakAt(i[1], i[2] - 1) = past[i[1]].under
    BY <1>2, <1>5 DEF Returns, PeakAt
  <2>2. past[i[1]].under \in living
    BY <2>1, LostStands
  <2> QED BY <1>1, <1>4, <1>5, <2>1, <2>2, LivingIs
<1>6. CASE i[2] - 1 # past[i[1]].to
  <2>1. PeakAt(i[1], i[2] - 1) = <<i[1], i[2] - 1>>
    BY <1>6 DEF PeakAt
  <2> QED BY <1>2, <1>4, <2>1
<1> QED BY <1>5, <1>6

(* What must hold for choices to keep their marks. *)
LEMMA PushNoneBetween ==
    ASSUME Here, NEW p, NEW N, Onto(p, N), NEW i, NEW j \in living,
           i[1] \in Ctx, i[2] \in 1 .. Len(chain[i[1]]), NoneBetween(i, j)
    PROVE  NoneBetween(i, j)'
<1>1. living' = living \cup {<<p, N>>}
  BY DEF Onto
<1>2. \A l \in living : Mark(l)' = Mark(l) /\ Mark(l) < Mark(<<p, N>>)' /\ Mark(l) \in Nat
  BY PushMarks
<1>3. Mark(<<p, N>>)' \in Nat
  BY PushMarks
<1>4. Mark(i)' = Mark(i)
  <2>1. N - 1 = Len(chain[p])
    <3>1. TypeOK /\ p \in Ctx /\ N = Len(chain[p]) + 1
      BY DEF Here, Onto
    <3>2. Len(chain[p]) \in Nat
      BY <3>1, ChainsAre
    <3> QED BY <3>1, <3>2
  <2>2. chain'[i[1]][i[2]] = chain[i[1]][i[2]]
    <3>1. CASE i[1] = p
      BY <2>1, <3>1 DEF Onto
    <3>2. CASE i[1] # p
      BY <3>2 DEF Onto
    <3> QED BY <3>1, <3>2
  <2> QED BY <2>2 DEF Mark
<1>5. Mark(i) < Mark(j) /\ \A l \in living : Mark(l) <= Mark(i) \/ Mark(j) <= Mark(l)
  BY DEF NoneBetween
<1>6. \A l \in living' : Mark(l)' <= Mark(i)' \/ Mark(j)' <= Mark(l)'
  <2> SUFFICES ASSUME NEW l \in living' PROVE Mark(l)' <= Mark(i)' \/ Mark(j)' <= Mark(l)'
    OBVIOUS
  <2>1. CASE l \in living
    BY <1>2, <1>4, <1>5, <2>1
  <2>2. CASE l = <<p, N>>
    BY <1>2, <1>3, <2>2
  <2> QED BY <1>1, <2>1, <2>2
<1> QED BY <1>2, <1>4, <1>5, <1>6 DEF NoneBetween

LEMMA PushReturns ==
    ASSUME Here, NEW p, NEW N, Onto(p, N), Again(p, N) \/ Anew(p, N), NEW c, NEW n
    PROVE  PeakAt(c, n)' = PeakAt(c, n) /\ (Returns(c, n)' => Returns(c, n))
<1>1. past' = past
  BY DEF Onto
<1>2. PeakAt(c, n)' = PeakAt(c, n)
  BY <1>1 DEF PeakAt
<1>3. Returns(c, n)' => Returns(c, n)
  BY <1>1, PushLost DEF Returns
<1> QED BY <1>2, <1>3

LEMMA PushUserNext ==
    ASSUME Here, UserNext, NEW p, NEW N, Onto(p, N), Again(p, N) \/ Anew(p, N),
           chain'[p][N].kind = "user" => p = cur
    PROVE  UserNext'
<1> SUFFICES ASSUME NEW i \in living', Kind(i)' = "user", Returns(i[1], i[2] - 1)',
                    NEW v, v = PeakAt(i[1], i[2] - 1)'
             PROVE  NoneBetween(v, i)'
  BY DEF UserNext
<1>0. TypeOK /\ Apart /\ Highest /\ Contexted
  BY DEF Here, Standing, Stacked
<1>1. living' = living \cup {<<p, N>>}
  BY DEF Onto
<1>2. v = PeakAt(i[1], i[2] - 1) /\ Returns(i[1], i[2] - 1)
  BY PushReturns
<1>3. CASE i \in living
  <2>1. Kind(i) = "user"
    <3>1. i[1] \in Ctx /\ i[2] \in 1 .. Len(chain[i[1]])
      BY <1>0, <1>3, LivingIs
    <3>2. chain'[i[1]][i[2]] = chain[i[1]][i[2]]
      <4>1. CASE i[1] = p
        <5>1. Len(chain[p]) \in Nat /\ N = Len(chain[p]) + 1
          BY <1>0, <3>1, <4>1, ChainsAre DEF Onto
        <5> QED BY <3>1, <4>1, <5>1 DEF Onto
      <4>2. CASE i[1] # p
        BY <3>1, <4>2 DEF Onto
      <4> QED BY <4>1, <4>2
    <3> QED BY <3>2 DEF Kind
  <2>2. v[1] \in Ctx /\ v[2] \in 1 .. Len(chain[v[1]])
    BY <1>2, <1>3, <2>1, PeakIsThere
  <2>3. NoneBetween(v, i)
    BY <1>2, <1>3, <2>1 DEF UserNext
  <2> QED BY <1>3, <2>2, <2>3, PushNoneBetween
<1>4. CASE i = <<p, N>>
  <2>1. chain'[p][N].kind = "user" /\ i[1] = p /\ i[2] = N
    BY <1>4 DEF Kind
  <2>2. p = cur /\ p \in Active
    BY <1>0, <2>1, RunningIs
  <2>3. Len(chain[p]) \in Nat /\ N = Len(chain[p]) + 1
    BY <1>0, <2>2, RunningIs, ChainsAre DEF Onto
  <2>4. v = Peak(p) /\ v \in living /\ Mark(v) = Level(cur)
    <3>1. N - 1 = Len(chain[p])
      BY <2>3
    <3>2. v = PeakAt(p, Len(chain[p]))
      BY <1>2, <2>1, <3>1
    <3>3. v = Peak(p)
      BY <3>2 DEF Peak
    <3> QED BY <2>2, <3>3, PeakStands DEF Level
  <2>5. \A l \in living : Mark(l)' = Mark(l) /\ Mark(l) < Mark(<<p, N>>)' /\ Mark(l) \in Nat
    BY PushMarks
  <2>6. Mark(<<p, N>>)' \in Nat
    BY PushMarks
  <2>7. \A l \in living : Mark(l) <= Mark(v)
    BY <1>0, <2>4 DEF Highest
  <2>8. \A l \in living' : Mark(l)' <= Mark(v)' \/ Mark(<<p, N>>)' <= Mark(l)'
    BY <1>1, <2>4, <2>5, <2>6, <2>7
  <2> QED BY <1>4, <2>4, <2>5, <2>8 DEF NoneBetween
<1> QED BY <1>1, <1>3, <1>4

LEMMA PushKeepsChoices ==
    ASSUME Here, NEW p, NEW N, Onto(p, N)
    PROVE  /\ \A c \in Ctx : \A n \in 1 .. Len(chain[c]) : chain'[c][n] = chain[c][n]
           /\ \A c \in Ctx : Len(chain'[c]) = IF c = p THEN N ELSE Len(chain[c])
           /\ \A i \in living : chain'[i[1]][i[2]] = chain[i[1]][i[2]]
           /\ Len(chain[p]) \in Nat /\ N = Len(chain[p]) + 1
<1>0. TypeOK /\ Apart
  BY DEF Here, Standing
<1>1. p \in Ctx /\ N = Len(chain[p]) + 1 /\ Len(chain'[p]) = N
      /\ (\A n \in 1 .. N - 1 : chain'[p][n] = chain[p][n])
      /\ \A c \in Ctx \ {p} : chain'[c] = chain[c]
  BY DEF Onto
<1>2. Len(chain[p]) \in Nat
  BY <1>0, <1>1, ChainsAre
<1>3. \A c \in Ctx : \A n \in 1 .. Len(chain[c]) : chain'[c][n] = chain[c][n]
  <2> SUFFICES ASSUME NEW c \in Ctx, NEW n \in 1 .. Len(chain[c]) PROVE chain'[c][n] = chain[c][n]
    OBVIOUS
  <2>1. CASE c = p
    <3>1. N - 1 = Len(chain[p])
      BY <1>1, <1>2
    <3> QED BY <1>1, <2>1, <3>1
  <2>2. CASE c # p
    BY <1>1, <2>2
  <2> QED BY <2>1, <2>2
<1>4. \A i \in living : chain'[i[1]][i[2]] = chain[i[1]][i[2]]
  BY <1>0, <1>3, LivingIs
<1> QED BY <1>1, <1>2, <1>3, <1>4

(* No goal can be sent back where it could not before. *)
NoNewBack ==
    \A i \in living : Kind(i) = "redo" =>
        LET h == chain[i[1]][i[2]].of
            m == chain[i[1]][i[2]].gen
        IN /\ h \in Goals
           /\ \A n \in 1 .. Len(chain'[h]) : Back(h, m, n)' => n \in 1 .. Len(chain[h]) /\ Back(h, m, n)

(* The new choice is no $reset_redo, or stands for the context that ran.   *)
NewRedo(p, N) ==
    chain'[p][N].kind = "redo" =>
        /\ Len(running) > 1 /\ p = running[Len(running) - 1] /\ chain'[p][N].of = cur
        /\ \A h, m : h = cur /\ m = chain'[p][N].gen =>
               \A n \in 1 .. Len(chain'[h]) : Back(h, m, n)' => n = Len(chain[h])

LEMMA CallersAre ==
    ASSUME TypeOK, Contexted, Len(running) > 1
    PROVE  /\ Activator \in Active /\ Activator = running[Len(running) - 1] /\ Activator # cur
           /\ Len(running) - 1 \in 1 .. Len(running) /\ Len(running) \in 2 .. Len(running)
<1>1. Len(running) \in Nat \ {0} /\ DOMAIN running = 1 .. Len(running)
      /\ cur = running[Len(running)] /\ \A j \in 1 .. Len(running) : running[j] \in Active
  BY RunningIs
<1>2. Len(running) - 1 \in DOMAIN running /\ Len(running) \in DOMAIN running
      /\ Len(running) - 1 # Len(running) /\ Len(running) \in 2 .. Len(running)
  <2> DEFINE n == Len(running)
  <2>1. n \in Nat \ {0} /\ n > 1 /\ DOMAIN running = 1 .. n
    BY <1>1
  <2> HIDE DEF n
  <2>2. n - 1 \in 1 .. n /\ n \in 1 .. n /\ n - 1 # n /\ n \in 2 .. n
    BY <2>1
  <2> QED BY <2>1, <2>2 DEF n
<1>3. \A j, k \in DOMAIN running : running[j] = running[k] => j = k
  BY DEF Contexted
<1> QED BY <1>1, <1>2, <1>3 DEF Activator

(* Between it and the choices of its context lie those of the context that *)
(* ran, from its last shift on.                                            *)
LEMMA PushSpans ==
    ASSUME Here, NEW p, NEW N, Onto(p, N), Len(running) > 1, p = running[Len(running) - 1],
           NEW h, h = cur, ~Lost(h), NEW n, n = Len(chain[h])
    PROVE  Len(chain'[h]) = n /\ Spans(<<p, N>>, h, n)'
<1>0. TypeOK /\ Apart /\ Highest /\ Contexted /\ Adjoined /\ Shaped
  BY DEF Here, Standing, Stacked
<1>20. living' = living \cup {<<p, N>>} /\ past' = past
  BY DEF Onto
<1>1. h = cur /\ Len(running) > 1 /\ p = running[Len(running) - 1] /\ n = Len(chain[h])
  OBVIOUS
<1>16. PICK v : v = PeakAt(p, N - 1)
  OBVIOUS
<1>21. v = PeakAt(p, N - 1)'
  BY <1>16, <1>20 DEF PeakAt
<1>2. /\ Len(running) \in Nat \ {0} /\ h = running[Len(running)] /\ h \in Active /\ h \in Ctx
      /\ p \in Active /\ Len(running) \in DOMAIN running /\ Len(running) - 1 \in DOMAIN running
  BY <1>0, <1>1, RunningIs
<1>3. h # p
  <2>1. Len(running) # Len(running) - 1
    BY <1>2
  <2> QED BY <1>0, <1>1, <1>2, <2>1 DEF Contexted
<1>4. chain'[h] = chain[h] /\ n = Len(chain[h]) /\ n \in Nat \ {0}
  BY <1>0, <1>1, <1>2, <1>3, ActiveIs DEF Onto, Here, Standing
<1>5. PICK q : q = LastShift(h)
  OBVIOUS
<1>6. /\ q = ShiftIn(chain'[h], n) /\ q \in 1 .. n /\ past[h].to < q /\ past[h].to \in Nat
      /\ q \in Nat /\ 1 <= q /\ q <= n
  <2>1. q = ShiftIn(chain'[h], n)
    BY <1>4, <1>5 DEF LastShift
  <2>2. q \in 1 .. n
    <3>1. IsShift(chain'[h], n, q)
      BY <1>4, <2>1, ShiftInIs
    <3> QED BY <3>1 DEF IsShift
  <2>3. past[h].to \in Nat
    BY <1>0, <1>2, ChainsAre
  <2>4. past[h].to < q
    BY <1>4, <1>5, <2>2, <2>3 DEF Lost
  <2>5. q \in Nat /\ 1 <= q /\ q <= n
    BY <1>4, <2>2
  <2> QED BY <2>1, <2>2, <2>3, <2>4, <2>5
<1>7. ASSUME NEW k \in q .. n PROVE IsOwn(h, k) /\ <<h, k>> \in living
  <2>1. IsOwn(h, k)
    <3>1. DOMAIN chain[h] = 1 .. n
      BY <1>0, <1>2, <1>4, ChainsAre
    <3>2. k \in Nat /\ q <= k /\ k <= n
      BY <1>4, <1>6
    <3>3. k \in DOMAIN chain[h] /\ past[h].to < k
      BY <1>4, <1>6, <3>1, <3>2
    <3>4. LastShift(h) <= k
      BY <1>5, <3>2
    <3> QED BY <3>3, <3>4 DEF IsOwn
  <2> QED BY <1>2, <2>1, OwnIs
<1>8. Peak(h) = <<h, n>> /\ <<h, n>> \in living /\ ~Lost(h) /\ <<h, q>> \in living
  <2>1. n \in q .. n /\ q \in q .. n
    BY <1>4, <1>6
  <2>2. ~Lost(h)
    BY <1>5, <1>6 DEF Lost
  <2> QED BY <1>2, <1>4, <1>7, <2>1, <2>2, OwnIs
<1>9. \A l \in living : Mark(l)' = Mark(l) /\ Mark(l) < Mark(<<p, N>>)' /\ Mark(l) \in Nat
  BY PushMarks
<1>10. Mark(<<p, N>>)' \in Nat
  BY PushMarks
<1>11. NoneBetween(<<h, n>>, <<p, N>>)'
  <2>1. \A l \in living : Mark(l) <= Mark(<<h, n>>)
    <3>1. Level(cur) = Mark(<<h, n>>)
      BY <1>1, <1>8 DEF Level
    <3> QED BY <1>0, <3>1 DEF Highest
  <2>2. \A l \in living' : Mark(l)' <= Mark(<<h, n>>)' \/ Mark(<<p, N>>)' <= Mark(l)'
    BY <1>20, <1>8, <1>9, <1>10, <2>1
  <2> QED BY <1>8, <1>9, <2>2 DEF NoneBetween
<1>12. v = Peak(p) /\ v \in living /\ Mark(v) = Level(p)
  <2>1. N - 1 = Len(chain[p])
    BY PushKeepsChoices
  <2>2. v = Peak(p)
    BY <1>16, <2>1 DEF Peak
  <2> QED BY <1>2, <2>2, PeakStands DEF Level
<1>13. Begin(h) = Mark(<<h, q>>)
  BY <1>2, <1>5, <1>8, PeakStands
<1>14. NoneBetween(v, <<h, q>>)'
  <2>1. Level(p) < Begin(h)
    <3>1. Len(running) - 1 \in 1 .. Len(running) /\ Len(running) \in 1 .. Len(running)
          /\ Len(running) - 1 < Len(running)
      BY <1>1, <1>2
    <3> QED BY <1>1, <1>2, <3>1, Rise
  <2>2. \A l \in living : Mark(l) < Begin(h) => Mark(l) <= Level(p)
    <3>1. Len(running) \in 2 .. Len(running)
      BY <1>1, <1>2
    <3> QED BY <1>0, <1>1, <1>2, <3>1 DEF Adjoined
  <2>3. \A l \in living : Mark(l) <= Mark(v) \/ Mark(<<h, q>>) <= Mark(l)
    BY <1>8, <1>9, <1>12, <1>13, <2>2
  <2>4. \A l \in living' : Mark(l)' <= Mark(v)' \/ Mark(<<h, q>>)' <= Mark(l)'
    BY <1>20, <1>8, <1>9, <1>10, <1>12, <2>3
  <2> QED BY <1>8, <1>9, <1>12, <1>13, <2>1, <2>4 DEF NoneBetween
<1>15. \A k \in q .. n : <<h, k>> \in living'
  BY <1>20, <1>7
<1>17. PICK i : i = <<p, N>>
  OBVIOUS
<1>18. i[1] = p /\ i[2] = N
  BY <1>17
<1>19. Spans(i, h, n)'
  BY <1>6, <1>11, <1>14, <1>15, <1>17, <1>18, <1>21 DEF Spans
<1> QED BY <1>4, <1>17, <1>19

LEMMA PushRedoNext ==
    ASSUME Here, RedoNext, NEW p, NEW N, Onto(p, N), Again(p, N) \/ Anew(p, N),
           NoNewBack, NewRedo(p, N)
    PROVE  RedoNext'
<1> SUFFICES ASSUME NEW i \in living', Kind(i)' = "redo", Returns(i[1], i[2] - 1)',
                    NEW h, h = chain'[i[1]][i[2]].of, NEW m, m = chain'[i[1]][i[2]].gen,
                    NEW n \in 1 .. Len(chain'[h]),
                    Back(h, m, n)', past'[h].to < ShiftIn(chain'[h], n)
             PROVE  Spans(i, h, n)'
  BY DEF RedoNext
<1>0. TypeOK /\ Apart /\ Highest /\ Contexted /\ Adjoined
  BY DEF Here, Standing, Stacked
<1>1. living' = living \cup {<<p, N>>} /\ past' = past
  BY DEF Onto
<1>2. PICK v : v = PeakAt(i[1], i[2] - 1)
  OBVIOUS
<1>3. v = PeakAt(i[1], i[2] - 1)' /\ Returns(i[1], i[2] - 1)
  BY <1>2, PushReturns
<1>4. CASE i \in living
  <2>1. Kind(i) = "redo" /\ h = chain[i[1]][i[2]].of /\ m = chain[i[1]][i[2]].gen
    BY <1>4, PushKeepsChoices DEF Kind
  <2>2. v[1] \in Ctx /\ v[2] \in 1 .. Len(chain[v[1]])
    BY <1>2, <1>3, <1>4, <2>1, PeakIsThere
  <2>3. n \in 1 .. Len(chain[h]) /\ Back(h, m, n) /\ h \in Ctx
    BY <1>4, <2>1 DEF Ctx, NoNewBack
  <2>4. Len(chain[h]) \in Nat /\ n \in Nat \ {0}
    BY <1>0, <2>3, ChainsAre
  <2>5. ShiftIn(chain'[h], n) = ShiftIn(chain[h], n)
    <3>1. \A k \in 1 .. n : chain'[h][k].kind = chain[h][k].kind
      <4>1. \A k \in 1 .. n : k \in 1 .. Len(chain[h])
        BY <2>3, <2>4
      <4> QED BY <2>3, <4>1, PushKeepsChoices
    <3> QED BY <2>4, <3>1, ShiftInSame
  <2>6. PICK q : q = ShiftIn(chain[h], n)
    OBVIOUS
  <2>7. Spans(i, h, n)
    BY <1>1, <1>3, <1>4, <2>1, <2>3, <2>5 DEF RedoNext
  <2>8. /\ \A k \in q .. n : <<h, k>> \in living
        /\ NoneBetween(<<h, n>>, i) /\ NoneBetween(v, <<h, q>>)
    BY <1>2, <2>6, <2>7 DEF Spans
  <2>9. q \in 1 .. n
    <3>1. IsShift(chain[h], n, q)
      BY <2>4, <2>6, ShiftInIs
    <3> QED BY <3>1 DEF IsShift
  <2>10. <<h, q>> \in living /\ <<h, n>> \in living
    BY <2>4, <2>8, <2>9
  <2>11. NoneBetween(<<h, n>>, i)'
    BY <1>4, <2>3, <2>8, PushNoneBetween
  <2>12. NoneBetween(v, <<h, q>>)'
    BY <2>2, <2>8, <2>10, PushNoneBetween
  <2>13. q = ShiftIn(chain'[h], n)
    BY <2>5, <2>6
  <2> QED BY <1>1, <1>3, <2>8, <2>11, <2>12, <2>13 DEF Spans
<1>5. CASE i = <<p, N>>
  <2>1. chain'[p][N].kind = "redo" /\ i[1] = p /\ i[2] = N
    BY <1>5 DEF Kind
  <2>2. h = cur /\ m = chain'[p][N].gen /\ Len(running) > 1 /\ p = running[Len(running) - 1]
    BY <2>1 DEF NewRedo
  <2>3. n = Len(chain[h])
    BY <2>1, <2>2 DEF NewRedo
  <2>4. h \in Active /\ Len(chain[h]) \in Nat \ {0} /\ h # p
    <3>1. h \in Active /\ Len(chain[h]) \in Nat \ {0}
      BY <1>0, <2>2, RunningIs, ActiveIs DEF Here, Standing
    <3>4. h # p
      BY <1>0, <2>2, CallersAre
    <3> QED BY <3>1, <3>4
  <2>5. chain'[h] = chain[h]
    BY <1>0, <2>4, RunningIs DEF Onto
  <2>6. ~Lost(h)
    <3>1. past[h].to < LastShift(h) /\ past[h].to \in Nat /\ LastShift(h) \in Nat
      BY <1>0, <1>1, <2>3, <2>4, <2>5, ActiveIs DEF LastShift, Here, Standing
    <3> QED BY <3>1 DEF Lost
  <2> QED BY <1>5, <2>2, <2>3, <2>6, PushSpans
<1> QED BY <1>1, <1>4, <1>5

LEMMA PushApart ==
    ASSUME Here, NEW p, NEW N, Onto(p, N)
    PROVE  Apart'
<1>0. TypeOK /\ Apart
  BY DEF Here, Standing
<1>1. living' = living \cup {<<p, N>>} /\ p \in Ctx /\ chain'[p] \in Seq(Headers)
      /\ N = Len(chain[p]) + 1 /\ Len(chain'[p]) = N
  BY DEF Onto
<1>2. \A l \in living : Mark(l)' = Mark(l) /\ Mark(l) < Mark(<<p, N>>)' /\ Mark(l) \in Nat
  BY PushMarks
<1>3. Mark(<<p, N>>)' \in Nat /\ Len(chain[p]) \in Nat
  BY <1>0, <1>1, PushMarks, ChainsAre
<1>4. N \in DOMAIN chain'[p]
  BY <1>1, <1>3
<1>5. \A i \in living' : i[2] \in DOMAIN chain'[i[1]]
  <2> SUFFICES ASSUME NEW i \in living' PROVE i[2] \in DOMAIN chain'[i[1]]
    OBVIOUS
  <2>1. CASE i \in living
    <3>1. i[1] \in Ctx /\ i[2] \in 1 .. Len(chain[i[1]]) /\ DOMAIN chain[i[1]] = 1 .. Len(chain[i[1]])
      BY <1>0, <2>1, LivingIs, ChainsAre
    <3>2. CASE i[1] = p
      <4>1. i[2] \in 1 .. Len(chain'[p])
        BY <1>1, <1>3, <3>1, <3>2
      <4> QED BY <1>1, <3>2, <4>1
    <3>3. CASE i[1] # p
      BY <3>1, <3>3 DEF Onto
    <3> QED BY <3>2, <3>3
  <2>2. CASE i = <<p, N>>
    BY <1>4, <2>2
  <2> QED BY <1>1, <2>1, <2>2
<1>6. ASSUME NEW i \in living', NEW j \in living'
      PROVE  /\ Mark(i)' = Mark(j)' => i = j
             /\ i[1] = j[1] /\ i[2] < j[2] => Mark(i)' < Mark(j)'
  <2>1. CASE i \in living /\ j \in living
    BY <1>0, <1>2, <2>1 DEF Apart
  <2>2. CASE i = <<p, N>> /\ j = <<p, N>>
    BY <1>1, <1>3, <2>2
  <2>3. CASE i \in living /\ j = <<p, N>>
    BY <1>2, <1>3, <2>3
  <2>4. CASE i = <<p, N>> /\ j \in living
    <3>1. i[1] = p /\ i[2] = N
      BY <2>4
    <3>2. j[1] = p => j[2] \in 1 .. Len(chain[p])
      BY <1>0, <2>4, LivingIs
    <3>3. ~(i[1] = j[1] /\ i[2] < j[2])
      BY <1>1, <1>3, <3>1, <3>2
    <3> QED BY <1>2, <1>3, <2>4, <3>3
  <2> QED BY <1>1, <2>1, <2>2, <2>3, <2>4
<1> QED BY <1>5, <1>6 DEF Apart

(* What a choice is, at the n-th place of context c's chain. *)
Fits(c, n, d, x) ==
    /\ (n = 1) <=> d.kind \in {"top", "finish"}
    /\ d.kind = "top" => c = Main
    /\ d.kind = "finish" => c \in Goals
    /\ d.kind = "unwound" => c \in Goals /\ d.gen <= x[c].seq
    /\ d.kind = "redo" => d.of \in Goals /\ d.gen <= x[d.of].seq

(* Generations only grow. *)
Later(x, y) == \A g \in Goals : x[g].seq \in Nat /\ y[g].seq \in Nat /\ x[g].seq <= y[g].seq

GenOfChoice == \A c \in Ctx : \A n \in DOMAIN chain[c] : chain[c][n].gen \in Nat

LEMMA GenIsNat == ASSUME TypeOK PROVE GenOfChoice
<1> SUFFICES ASSUME NEW c \in Ctx, NEW n \in DOMAIN chain[c] PROVE chain[c][n].gen \in Nat
  BY DEF GenOfChoice
<1>1. chain[c] \in Seq(Headers)
  BY DEF TypeOK
<1>2. chain[c][n] \in Headers
  <2> HIDE DEF Headers
  <2> QED BY <1>1
<1> QED BY <1>2 DEF Headers

LEMMA FitsLater ==
    ASSUME NEW c, NEW n, NEW d, d.gen \in Nat, NEW x, NEW y, Later(x, y), Fits(c, n, d, x)
    PROVE  Fits(c, n, d, y)
BY DEF Fits, Later

LEMMA PushShaped ==
    ASSUME Here, NEW p, NEW N, Onto(p, N), Fits(p, N, chain'[p][N], ctx'), Later(ctx, ctx')
    PROVE  Shaped'
<1>0. TypeOK /\ Shaped /\ GenOfChoice
  BY GenIsNat DEF Here, Standing
<1>1. /\ p \in Ctx /\ chain'[p] \in Seq(Headers) /\ Len(chain'[p]) = N /\ N = Len(chain[p]) + 1
      /\ past' = past /\ Len(chain[p]) \in Nat
  BY <1>0, ChainsAre DEF Onto
<1> SUFFICES ASSUME NEW c \in Ctx
             PROVE  /\ past'[c].to <= Len(chain'[c])
                    /\ \A n \in DOMAIN chain'[c] : Fits(c, n, chain'[c][n], ctx')
  BY DEF Shaped, Fits
<1>2. /\ past[c].to <= Len(chain[c]) /\ past[c].to \in Nat
      /\ \A n \in DOMAIN chain[c] : Fits(c, n, chain[c][n], ctx) /\ chain[c][n].gen \in Nat
  <2>1. \A n \in DOMAIN chain[c] : Fits(c, n, chain[c][n], ctx)
    BY <1>0 DEF Shaped, Fits
  <2> QED BY <1>0, <2>1, ChainsAre DEF Shaped, GenOfChoice
<1>3. \A n \in DOMAIN chain[c] : Fits(c, n, chain[c][n], ctx')
  BY <1>2, FitsLater
<1>4. CASE c # p
  BY <1>1, <1>2, <1>3, <1>4 DEF Onto
<1>5. CASE c = p
  <2>1. past'[c].to <= Len(chain'[c])
    BY <1>1, <1>2, <1>5
  <2>2. ASSUME NEW n \in DOMAIN chain'[c] PROVE Fits(c, n, chain'[c][n], ctx')
    <3>1. n \in 1 .. N
      BY <1>1, <1>5
    <3>2. CASE n = N
      BY <1>5, <3>2
    <3>3. CASE n # N
      <4>1. n \in 1 .. N - 1 /\ n \in 1 .. Len(chain[p])
        BY <1>1, <3>1, <3>3
      <4>2. chain'[c][n] = chain[c][n] /\ n \in DOMAIN chain[c]
        BY <1>0, <1>1, <1>5, <4>1, ChainsAre DEF Onto
      <4> QED BY <1>3, <4>2
    <3> QED BY <3>2, <3>3
  <2> QED BY <2>1, <2>2
<1> QED BY <1>4, <1>5

LEMMA PushRunning ==
    ASSUME Here, NEW p, NEW N, Onto(p, N), Again(p, N) \/ Anew(p, N)
    PROVE  /\ running'[1] = Main
           /\ \A j, k \in DOMAIN running' : running'[j] = running'[k] => j = k
<1>0. TypeOK /\ Contexted
  BY DEF Here, Standing
<1>1. \A j, k \in 1 .. Len(running) : running[j] = running[k] => j = k
  BY <1>0, RunningIs DEF Contexted
<1>2. Len(running') \in Nat \ {0} /\ DOMAIN running' = 1 .. Len(running')
      /\ Len(running) \in Nat \ {0} /\ running'[Len(running')] = p
  BY PushActive DEF Onto
<1>3. running'[1] = Main
  <2>1. CASE Len(running') = 1
    <3>1. Again(p, N)
      BY <1>2, <2>1 DEF Anew
    <3> QED BY <1>0, <1>2, <2>1, <3>1 DEF Contexted, Again
  <2>2. CASE Len(running') # 1
    <3>1. 1 \in 1 .. Len(running') - 1
      BY <1>2, <2>2
    <3>2. running'[1] = running[1]
      BY <3>1, PushActive
    <3> QED BY <1>0, <3>2 DEF Contexted
  <2> QED BY <2>1, <2>2
<1>4. ASSUME NEW j \in DOMAIN running', NEW k \in DOMAIN running', running'[j] = running'[k]
      PROVE  j = k
  <2>1. \A l \in 1 .. Len(running') - 1 : l \in 1 .. Len(running) /\ running'[l] = running[l] /\ running'[l] # p
    BY PushActive
  <2>2. CASE j = Len(running') \/ k = Len(running')
    <3>1. ASSUME NEW l \in 1 .. Len(running'), l # Len(running') PROVE running'[l] # p
      <4> DEFINE n == Len(running')
      <4>1. n \in Nat /\ l \in 1 .. n /\ l # n
        BY <1>2, <3>1
      <4> HIDE DEF n
      <4>2. l \in 1 .. n - 1
        BY <4>1
      <4> QED BY <2>1, <4>2 DEF n
    <3> QED BY <1>2, <1>4, <2>2, <3>1
  <2>3. CASE j # Len(running') /\ k # Len(running')
    <3>1. j \in 1 .. Len(running') - 1 /\ k \in 1 .. Len(running') - 1
      BY <1>2, <2>3
    <3> QED BY <1>1, <1>4, <2>1, <3>1
  <2> QED BY <2>2, <2>3
<1> QED BY <1>3, <1>4

(* Together. *)
LEMMA PushKeeps ==
    ASSUME Here, UserNext, RedoNext, NEW p, NEW N, Onto(p, N), Again(p, N) \/ Anew(p, N),
           Fits(p, N, chain'[p][N], ctx'), Later(ctx, ctx'),
           \A c \in Active : ctx'[c].base = ctx[c].base /\ ctx'[c].floor = ctx[c].floor,
           Anew(p, N) /\ ctx'[p].base < ctx'[p].floor => Level(cur) <= ctx'[p].floor,
           chain'[p][N].kind = "user" => p = cur, NoNewBack, NewRedo(p, N)
    PROVE  Stacked' /\ Spliced' /\ Shaped' /\ Apart'
<1>1. Highest' /\ OwnLive' /\ Grounded'
  BY PushHighest, PushOwnLive, PushGrounded
<1>2. Nested' /\ Adjoined' /\ Floored'
  BY PushNested, PushAdjoined, PushFloored
<1>3. UserNext' /\ RedoNext'
  BY PushUserNext, PushRedoNext
<1>4. Shaped' /\ Apart'
  BY PushShaped, PushApart
<1> QED BY <1>1, <1>2, <1>3, <1>4 DEF Stacked, Spliced

-----------------------------------------------------------------------------
(* A choice less: the last of the context c that ran is retried no more.   *)

Less(c, N) ==
    /\ c = cur /\ N = Len(chain[c])
    /\ chain'[c] \in Seq(Headers) /\ Len(chain'[c]) \in {N - 1, N}
    /\ \A n \in 1 .. N - 1 : chain'[c][n] = chain[c][n]
    /\ \A d \in Ctx \ {c} : chain'[d] = chain[d]
    /\ past' = past /\ living' = living \ {<<c, N>>}

(* None is lost that was not. *)
NoneLost == \A d \in Active' : Lost(d)' => d \in Active /\ Lost(d)

LEMMA LessIs ==
    ASSUME Here, NEW c, NEW N, Less(c, N)
    PROVE  /\ c \in Active /\ c \in Ctx /\ N \in Nat \ {0} /\ Len(chain[c]) = N
           /\ DOMAIN chain[c] = 1 .. N /\ past[c].to \in 0 .. N /\ past[c].to \in Nat
           /\ LastShift(c) \in 1 .. N /\ LastShift(c) = ShiftIn(chain[c], N)
           /\ IsShift(chain[c], N, LastShift(c))
<1>1. TypeOK /\ Contexted /\ Shaped
  BY DEF Here, Standing
<1>2. c = cur /\ N = Len(chain[c])
  BY DEF Less
<1>3. c \in Active
  BY <1>1, <1>2, RunningIs
<1>4. /\ c \in Ctx /\ N \in Nat \ {0}
      /\ past[c].to \in 0 .. N /\ past[c].to \in Nat /\ LastShift(c) \in 1 .. N
      /\ IsShift(chain[c], N, LastShift(c))
  BY <1>1, <1>2, <1>3, ActiveIs
<1>5. DOMAIN chain[c] = 1 .. N
  BY <1>1, <1>2, <1>4, ChainsAre
<1> QED BY <1>2, <1>3, <1>4, <1>5 DEF LastShift

LEMMA LessMark ==
    ASSUME Here, NEW c, NEW N, Less(c, N), NEW v, v[1] \in Ctx, v[2] \in 1 .. Len(chain[v[1]]),
           v[1] = c => v[2] # N
    PROVE  chain'[v[1]][v[2]] = chain[v[1]][v[2]] /\ Mark(v)' = Mark(v)
<1>1. chain'[v[1]][v[2]] = chain[v[1]][v[2]]
  <2>1. CASE v[1] = c
    <3>1. v[2] \in 1 .. N - 1
      BY <2>1, LessIs
    <3> QED BY <2>1, <3>1 DEF Less
  <2>2. CASE v[1] # c
    BY <2>2 DEF Less
  <2> QED BY <2>1, <2>2
<1> QED BY <1>1 DEF Mark

LEMMA LessLiving ==
    ASSUME Here, NEW c, NEW N, Less(c, N), NEW i \in living'
    PROVE  /\ i \in living /\ i # <<c, N>> /\ Mark(i)' = Mark(i) /\ Mark(i) \in Nat
           /\ (i[1] = c => i[2] # N) /\ chain'[i[1]][i[2]] = chain[i[1]][i[2]]
<1>1. TypeOK /\ Apart
  BY DEF Here, Standing
<1>2. i \in living /\ i # <<c, N>>
  BY DEF Less
<1>3. i = <<i[1], i[2]>> /\ i[1] \in Ctx /\ i[2] \in 1 .. Len(chain[i[1]]) /\ Mark(i) \in Nat
  BY <1>1, <1>2, LivingIs
<1>4. i[1] = c => i[2] # N
  BY <1>2, <1>3
<1> QED BY <1>2, <1>3, <1>4, LessMark

LEMMA LessOthers ==
    ASSUME Here, NEW c, NEW N, Less(c, N), NEW d \in Active, d # c
    PROVE  /\ LastShift(d)' = LastShift(d) /\ Lost(d)' = Lost(d) /\ Begin(d)' = Begin(d)
           /\ \A n : IsOwn(d, n)' = IsOwn(d, n)
           /\ Peak(d)' = Peak(d) /\ Level(d)' = Level(d)
<1>1. TypeOK /\ Contexted /\ Apart
  BY DEF Here, Standing
<1>2. d \in Ctx
  BY <1>1, RunningIs
<1>3. Alone(d)
  BY <1>2 DEF Less, Alone
<1>4. Lost(d) => Mark(past[d].under)' = Mark(past[d].under)
  <2> SUFFICES ASSUME Lost(d) PROVE Mark(past[d].under)' = Mark(past[d].under)
    OBVIOUS
  <2>1. PICK u : u = past[d].under
    OBVIOUS
  <2>2. u \in living /\ u[1] # c
    BY <2>1, LostStands, UnderIsBelow DEF Less
  <2>3. u[1] \in Ctx /\ u[2] \in 1 .. Len(chain[u[1]])
    BY <1>1, <2>2, LivingIs
  <2>4. Mark(u)' = Mark(u)
    BY <2>2, <2>3, LessMark
  <2>5. past' = past
    BY DEF Less
  <2>6. u = past'[d].under
    BY <2>1, <2>5
  <2> QED BY <2>1, <2>4, <2>6
<1> QED BY <1>3, <1>4, LeftAlone

LEMMA LessGrounded ==
    ASSUME Here, NEW c, NEW N, Less(c, N), NoneLost, Active \ {c} \subseteq Active'
    PROVE  Grounded'
<1> SUFFICES ASSUME NEW d \in Active', Lost(d)', NEW u, u = past'[d].under
             PROVE  u \in living' /\ u[1] \in Active' /\ IsOwn(u[1], u[2])'
  BY DEF Grounded
<1>1. d \in Active /\ Lost(d)
  BY DEF NoneLost
<1>2. u = past[d].under
  BY DEF Less
<1>3. u \in living /\ u[1] \in Active /\ IsOwn(u[1], u[2]) /\ u[1] # c
  BY <1>1, <1>2, LostStands, UnderIsBelow DEF Less
<1>4. IsOwn(u[1], u[2])'
  BY <1>3, LessOthers
<1>5. u # <<c, N>>
  BY <1>3
<1> QED BY <1>3, <1>4, <1>5 DEF Less

LEMMA LessReturns ==
    ASSUME Here, NEW c, NEW N, Less(c, N), NoneLost, NEW d, NEW n
    PROVE  PeakAt(d, n)' = PeakAt(d, n) /\ (Returns(d, n)' => Returns(d, n))
<1>1. past' = past
  BY DEF Less
<1>2. PeakAt(d, n)' = PeakAt(d, n)
  BY <1>1 DEF PeakAt
<1>3. Returns(d, n)' => Returns(d, n)
  BY <1>1 DEF Returns, NoneLost
<1> QED BY <1>2, <1>3

LEMMA LessPeak ==
    ASSUME Here, NEW c, NEW N, Less(c, N), NoneLost, NEW i \in living', Kind(i) \in {"user", "redo"},
           Returns(i[1], i[2] - 1)', NEW v, v = PeakAt(i[1], i[2] - 1)
    PROVE  v[1] \in Ctx /\ v[2] \in 1 .. Len(chain[v[1]]) /\ (v[1] = c => v[2] # N)
<1>1. i \in living /\ Returns(i[1], i[2] - 1)
  BY LessLiving, LessReturns
<1>2. /\ v = <<v[1], v[2]>> /\ v[1] \in Ctx /\ v[2] \in 1 .. Len(chain[v[1]])
      /\ i[2] - 1 \in Nat /\ i[2] - 1 \in 1 .. Len(chain[i[1]])
      /\ \/ v = <<i[1], i[2] - 1>>
         \/ v = past[i[1]].under /\ i[1] \in Active /\ Lost(i[1])
  BY <1>1, PeakIsThere
<1>3. v[1] = c => v[2] # N
  <2>1. CASE v = <<i[1], i[2] - 1>>
    <3>1. v[1] = i[1] /\ v[2] = i[2] - 1
      BY <2>1
    <3>2. i[2] \in 1 .. Len(chain[i[1]]) /\ i[2] \in Nat
      BY <1>1, LivingIs DEF Here, Standing
    <3>3. i[1] = c => i[2] \in 1 .. N
      BY <3>2, LessIs
    <3> QED BY <1>2, <3>1, <3>2, <3>3, LessIs
  <2>2. CASE v = past[i[1]].under /\ i[1] \in Active /\ Lost(i[1])
    BY <2>2, UnderIsBelow DEF Less
  <2> QED BY <1>2, <2>1, <2>2
<1> QED BY <1>2, <1>3

LEMMA LessNoneBetween ==
    ASSUME Here, NEW c, NEW N, Less(c, N), NEW i, NEW j,
           i[1] \in Ctx, i[2] \in 1 .. Len(chain[i[1]]), i[1] = c => i[2] # N,
           j[1] \in Ctx, j[2] \in 1 .. Len(chain[j[1]]), j[1] = c => j[2] # N, NoneBetween(i, j)
    PROVE  NoneBetween(i, j)'
<1>1. Mark(i)' = Mark(i) /\ Mark(j)' = Mark(j)
  BY LessMark
<1>2. \A l \in living' : l \in living /\ Mark(l)' = Mark(l)
  BY LessLiving
<1> QED BY <1>1, <1>2 DEF NoneBetween

LEMMA LessUserNext ==
    ASSUME Here, UserNext, NEW c, NEW N, Less(c, N), NoneLost
    PROVE  UserNext'
<1> SUFFICES ASSUME NEW i \in living', Kind(i)' = "user", Returns(i[1], i[2] - 1)',
                    NEW v, v = PeakAt(i[1], i[2] - 1)'
             PROVE  NoneBetween(v, i)'
  BY DEF UserNext
<1>1. v = PeakAt(i[1], i[2] - 1) /\ Returns(i[1], i[2] - 1)
  BY LessReturns
<1>2. i \in living /\ Kind(i) = "user" /\ (i[1] = c => i[2] # N)
  BY LessLiving DEF Kind
<1>3. i[1] \in Ctx /\ i[2] \in 1 .. Len(chain[i[1]])
  BY <1>2, LivingIs DEF Here, Standing
<1>4. v[1] \in Ctx /\ v[2] \in 1 .. Len(chain[v[1]]) /\ (v[1] = c => v[2] # N)
  BY <1>1, <1>2, LessPeak
<1>5. NoneBetween(v, i)
  BY <1>1, <1>2 DEF UserNext
<1> QED BY <1>2, <1>3, <1>4, <1>5, LessNoneBetween

(* No goal can be sent back to the choice that is gone, nor where it could *)
(* not before.                                                             *)
LessBack(c, N) ==
    \A i \in living' : Kind(i) = "redo" =>
        \A h, m : h = chain[i[1]][i[2]].of /\ m = chain[i[1]][i[2]].gen =>
            /\ h \in Goals
            /\ \A n \in 1 .. Len(chain'[h]) :
                   Back(h, m, n)' => n \in 1 .. Len(chain[h]) /\ Back(h, m, n) /\ (h = c => n < N)

LEMMA LessSpans ==
    ASSUME Here, NEW c, NEW N, Less(c, N), NoneLost, NEW i \in living', Kind(i) = "redo",
           Returns(i[1], i[2] - 1)', NEW h \in Ctx, NEW n \in 1 .. Len(chain[h]), h = c => n < N,
           Spans(i, h, n)
    PROVE  Spans(i, h, n)' /\ ShiftIn(chain'[h], n) = ShiftIn(chain[h], n)
<1>0. TypeOK /\ Apart
  BY DEF Here, Standing
<1>1. i \in living /\ (i[1] = c => i[2] # N)
  BY LessLiving
<1>2. i[1] \in Ctx /\ i[2] \in 1 .. Len(chain[i[1]])
  BY <1>0, <1>1, LivingIs
<1>3. PICK v : v = PeakAt(i[1], i[2] - 1)
  OBVIOUS
<1>4. v = PeakAt(i[1], i[2] - 1)'
  BY <1>3, LessReturns
<1>5. v[1] \in Ctx /\ v[2] \in 1 .. Len(chain[v[1]]) /\ (v[1] = c => v[2] # N)
  BY <1>3, LessPeak
<1>6. PICK q : q = ShiftIn(chain[h], n)
  OBVIOUS
<1>7. Len(chain[h]) \in Nat /\ n \in Nat \ {0} /\ q \in 1 .. n
  <2>1. Len(chain[h]) \in Nat
    BY <1>0, ChainsAre
  <2>2. n \in Nat \ {0}
    BY <2>1
  <2>3. IsShift(chain[h], n, q)
    BY <1>6, <2>2, ShiftInIs
  <2> QED BY <2>1, <2>2, <2>3 DEF IsShift
<1>8. \A k \in 1 .. n : k \in 1 .. Len(chain[h]) /\ (h = c => k # N)
  BY <1>7, LessIs
<1>9. \A k \in 1 .. n : chain'[h][k] = chain[h][k]
  <2> SUFFICES ASSUME NEW k \in 1 .. n PROVE chain'[h][k] = chain[h][k]
    OBVIOUS
  <2>1. PICK u : u = <<h, k>>
    OBVIOUS
  <2>2. u[1] = h /\ u[2] = k
    BY <2>1
  <2>3. chain'[u[1]][u[2]] = chain[u[1]][u[2]]
    BY <1>8, <2>2, LessMark
  <2> QED BY <2>2, <2>3
<1>10. q = ShiftIn(chain'[h], n)
  <2>1. \A k \in 1 .. n : chain'[h][k].kind = chain[h][k].kind
    BY <1>9
  <2> QED BY <1>6, <1>7, <2>1, ShiftInSame
<1>11. /\ \A k \in q .. n : <<h, k>> \in living
       /\ NoneBetween(<<h, n>>, i) /\ NoneBetween(v, <<h, q>>)
  BY <1>3, <1>6 DEF Spans
<1>12. \A k \in q .. n : <<h, k>> \in living'
  <2> SUFFICES ASSUME NEW k \in q .. n PROVE <<h, k>> \in living'
    OBVIOUS
  <2>1. k \in 1 .. n
    BY <1>7
  <2>2. <<h, k>> # <<c, N>>
    BY <1>8, <2>1
  <2> QED BY <1>11, <2>2 DEF Less
<1>13. ASSUME NEW k \in 1 .. n, NEW u, u = <<h, k>>
       PROVE  u[1] \in Ctx /\ u[2] \in 1 .. Len(chain[u[1]]) /\ (u[1] = c => u[2] # N)
  BY <1>8, <1>13
<1>14. NoneBetween(<<h, n>>, i)'
  <2>1. PICK u : u = <<h, n>>
    OBVIOUS
  <2>2. n \in 1 .. n
    BY <1>7
  <2>3. NoneBetween(u, i)'
    BY <1>1, <1>2, <1>11, <1>13, <2>1, <2>2, LessNoneBetween
  <2> QED BY <2>1, <2>3
<1>15. NoneBetween(v, <<h, q>>)'
  <2>1. PICK u : u = <<h, q>>
    OBVIOUS
  <2>3. NoneBetween(v, u)'
    BY <1>5, <1>7, <1>11, <1>13, <2>1, LessNoneBetween
  <2> QED BY <2>1, <2>3
<1> QED BY <1>4, <1>6, <1>10, <1>12, <1>14, <1>15 DEF Spans

LEMMA LessRedoNext ==
    ASSUME Here, RedoNext, NEW c, NEW N, Less(c, N), NoneLost, LessBack(c, N)
    PROVE  RedoNext'
<1> SUFFICES ASSUME NEW i \in living', Kind(i)' = "redo", Returns(i[1], i[2] - 1)',
                    NEW h, h = chain'[i[1]][i[2]].of, NEW m, m = chain'[i[1]][i[2]].gen,
                    NEW n \in 1 .. Len(chain'[h]),
                    Back(h, m, n)', past'[h].to < ShiftIn(chain'[h], n)
             PROVE  Spans(i, h, n)'
  BY DEF RedoNext
<1>0. TypeOK /\ Apart
  BY DEF Here, Standing
<1>1. /\ i \in living /\ Kind(i) = "redo" /\ Returns(i[1], i[2] - 1)
      /\ h = chain[i[1]][i[2]].of /\ m = chain[i[1]][i[2]].gen
  BY LessLiving, LessReturns DEF Kind
<1>2. h \in Goals /\ n \in 1 .. Len(chain[h]) /\ Back(h, m, n) /\ (h = c => n < N)
  BY <1>1 DEF LessBack
<1>3. h \in Ctx
  BY <1>2 DEF Ctx
<1>4. ShiftIn(chain'[h], n) = ShiftIn(chain[h], n)
  <2>1. Len(chain[h]) \in Nat /\ n \in Nat \ {0}
    BY <1>0, <1>2, <1>3, ChainsAre
  <2>2. \A k \in 1 .. n : chain'[h][k].kind = chain[h][k].kind
    <3> SUFFICES ASSUME NEW k \in 1 .. n PROVE chain'[h][k].kind = chain[h][k].kind
      OBVIOUS
    <3>1. PICK u : u = <<h, k>>
      OBVIOUS
    <3>2. u[1] = h /\ u[2] = k /\ u[2] \in 1 .. Len(chain[h])
      BY <1>2, <2>1, <3>1
    <3>3. h = c => u[2] # N
      BY <1>2, <2>1, <3>2, LessIs
    <3>4. chain'[u[1]][u[2]] = chain[u[1]][u[2]]
      BY <1>3, <3>2, <3>3, LessMark
    <3> QED BY <3>2, <3>4
  <2> QED BY <2>1, <2>2, ShiftInSame
<1>5. past' = past
  BY DEF Less
<1>6. Spans(i, h, n)
  BY <1>1, <1>2, <1>4, <1>5 DEF RedoNext
<1> QED BY <1>1, <1>2, <1>3, <1>6, LessSpans

LEMMA LessApart ==
    ASSUME Here, NEW c, NEW N, Less(c, N)
    PROVE  Apart'
<1>0. TypeOK /\ Apart
  BY DEF Here, Standing
<1>1. \A i \in living' : i \in living /\ Mark(i)' = Mark(i) /\ (i[1] = c => i[2] # N)
  BY LessLiving
<1>2. ASSUME NEW i \in living' PROVE i[2] \in DOMAIN chain'[i[1]]
  <2>1. i[1] \in Ctx /\ i[2] \in 1 .. Len(chain[i[1]]) /\ DOMAIN chain[i[1]] = 1 .. Len(chain[i[1]])
    BY <1>0, <1>1, LivingIs, ChainsAre
  <2>2. CASE i[1] = c
    <3>1. DOMAIN chain'[c] = 1 .. Len(chain'[c]) /\ Len(chain'[c]) \in Nat
      BY DEF Less
    <3>2. Len(chain'[c]) \in {N - 1, N} /\ N \in Nat \ {0} /\ i[2] \in 1 .. N
      BY <2>1, <2>2, LessIs DEF Less
    <3>3. i[2] \in 1 .. Len(chain'[c])
      BY <1>1, <2>2, <3>1, <3>2
    <3> QED BY <2>2, <3>1, <3>3
  <2>3. CASE i[1] # c
    BY <2>1, <2>3 DEF Less
  <2> QED BY <2>2, <2>3
<1> QED BY <1>0, <1>1, <1>2 DEF Apart

LEMMA LessShaped ==
    ASSUME Here, NEW c, NEW N, Less(c, N), past[c].to <= Len(chain'[c]), Later(ctx, ctx'),
           Len(chain'[c]) = N => chain'[c] = chain[c]
    PROVE  Shaped'
<1>0. TypeOK /\ Shaped /\ GenOfChoice
  BY GenIsNat DEF Here, Standing
<1> SUFFICES ASSUME NEW d \in Ctx
             PROVE  /\ past'[d].to <= Len(chain'[d])
                    /\ \A n \in DOMAIN chain'[d] : Fits(d, n, chain'[d][n], ctx')
  BY DEF Shaped, Fits
<1>1. \A n \in DOMAIN chain[d] : Fits(d, n, chain[d][n], ctx) /\ chain[d][n].gen \in Nat
  <2>1. \A n \in DOMAIN chain[d] : Fits(d, n, chain[d][n], ctx)
    BY <1>0 DEF Shaped, Fits
  <2> QED BY <1>0, <2>1 DEF GenOfChoice
<1>2. \A n \in DOMAIN chain[d] : Fits(d, n, chain[d][n], ctx')
  BY <1>1, FitsLater
<1>3. CASE d # c
  BY <1>0, <1>2, <1>3 DEF Less, Shaped
<1>4. CASE d = c
  <2>1. past'[d].to <= Len(chain'[d])
    BY <1>4 DEF Less
  <2>2. ASSUME NEW n \in DOMAIN chain'[d] PROVE n \in DOMAIN chain[d] /\ chain'[d][n] = chain[d][n]
    <3>1. CASE Len(chain'[c]) = N
      BY <1>4, <2>2, <3>1
    <3>2. CASE Len(chain'[c]) = N - 1
      <4>1. n \in 1 .. N - 1
        BY <1>4, <2>2, <3>2 DEF Less
      <4>2. N \in Nat /\ DOMAIN chain[c] = 1 .. N
        BY LessIs
      <4> QED BY <1>4, <4>1, <4>2 DEF Less
    <3> QED BY <3>1, <3>2 DEF Less
  <2> QED BY <1>2, <2>1, <2>2
<1> QED BY <1>3, <1>4

-----------------------------------------------------------------------------
(* The last choice of the context that runs is retried and gone; the       *)
(* context goes on with those before it, or has a goal retry its own.      *)

Drop(c, N) ==
    /\ Less(c, N) /\ Len(chain'[c]) = N - 1 /\ InOrder
    /\ chain[c][N].kind \in {"user", "redo"}

LEMMA DropItself ==
    ASSUME Here, NEW c, NEW N, Drop(c, N), NEW v, v = PeakAt(c, N - 1)
    PROVE  /\ Less(c, N) /\ N - 1 \in Nat \ {0} /\ <<c, N>> \in living
           /\ LastShift(c)' = LastShift(c) /\ Lost(c)' = Lost(c) /\ Begin(c)' = Begin(c)
           /\ \A n : IsOwn(c, n)' => IsOwn(c, n) /\ n # N
           /\ Returns(c, N - 1) /\ v \in living /\ v # <<c, N>>
           /\ Mark(v) \in Nat /\ Begin(c) \in Nat /\ Begin(c) <= Mark(v) + 1
           /\ Level(c)' = Mark(v) /\ Mark(v)' = Mark(v)
           /\ Mark(<<c, N>>) = Level(cur) /\ past[c].to <= N - 1
<1>0. TypeOK /\ Apart /\ Shaped /\ Contexted
  BY DEF Here, Standing
<1>1. Less(c, N) /\ InOrder /\ chain[c][N].kind \in {"user", "redo"} /\ Len(chain'[c]) = N - 1
      /\ c = cur /\ N = Len(chain[c]) /\ past' = past
  BY DEF Drop, Less
<1>2. /\ c \in Active /\ c \in Ctx /\ N \in Nat \ {0}
      /\ DOMAIN chain[c] = 1 .. N /\ past[c].to \in 0 .. N /\ past[c].to \in Nat
      /\ LastShift(c) \in 1 .. N /\ LastShift(c) = ShiftIn(chain[c], N)
      /\ IsShift(chain[c], N, LastShift(c))
  BY <1>1, LessIs
<1>3. N # 1
  BY <1>0, <1>1, <1>2 DEF Shaped
<1>4. LastShift(c) # N
  BY <1>1, <1>2, <1>3 DEF IsShift
<1>5. N - 1 \in Nat \ {0} /\ N - 1 \in 1 .. N /\ LastShift(c) <= N - 1 /\ LastShift(c) \in Nat
  BY <1>2, <1>3, <1>4
<1>6. LastShift(c)' = LastShift(c)
  <2>1. LastShift(c)' = ShiftIn(chain'[c], N - 1)
    BY <1>1 DEF LastShift
  <2>2. \A n \in 1 .. N - 1 : chain'[c][n].kind = chain[c][n].kind
    BY <1>1 DEF Less
  <2>3. ShiftIn(chain'[c], N - 1) = ShiftIn(chain[c], N - 1)
    BY <1>5, <2>2, ShiftInSame
  <2>4. ShiftIn(chain[c], N - 1) = ShiftIn(chain[c], N)
    BY <1>2, <1>5, ShiftInBelow
  <2> QED BY <1>2, <2>1, <2>3, <2>4
<1>7. Lost(c)' = Lost(c)
  BY <1>1, <1>6 DEF Lost
<1>8. \A u \in living : u[1] # c => Mark(u)' = Mark(u)
  <2> SUFFICES ASSUME NEW u \in living, u[1] # c PROVE Mark(u)' = Mark(u)
    OBVIOUS
  <2>1. u[1] \in Ctx /\ u[2] \in 1 .. Len(chain[u[1]])
    BY <1>0, LivingIs
  <2> QED BY <1>1, <2>1, LessMark
<1>9. Begin(c)' = Begin(c)
  <2>1. CASE Lost(c)
    <3>1. PICK u : u = past[c].under
      OBVIOUS
    <3>2. u = past'[c].under
      BY <1>1, <3>1
    <3>3. u \in living /\ u[1] # c /\ Begin(c) = Mark(u) + 1
      BY <1>1, <1>2, <2>1, <3>1, LostStands, UnderIsBelow
    <3>4. Begin(c)' = Mark(u)' + 1
      BY <1>7, <2>1, <3>2 DEF Begin
    <3> QED BY <1>8, <3>3, <3>4
  <2>2. CASE ~Lost(c)
    <3>1. Begin(c)' = chain'[c][LastShift(c)].mark /\ Begin(c) = chain[c][LastShift(c)].mark
      BY <1>6, <1>7, <2>2 DEF Begin
    <3>2. LastShift(c) \in 1 .. N - 1
      BY <1>2, <1>5
    <3>3. chain'[c][LastShift(c)] = chain[c][LastShift(c)]
      BY <1>1, <3>2 DEF Less
    <3> QED BY <3>1, <3>3
  <2> QED BY <2>1, <2>2
<1>10. ASSUME NEW n, IsOwn(c, n)' PROVE IsOwn(c, n) /\ n # N
  <2>1. n \in DOMAIN chain'[c] /\ LastShift(c) <= n /\ past[c].to < n
    BY <1>1, <1>6, <1>10 DEF IsOwn
  <2>2. DOMAIN chain'[c] = 1 .. N - 1
    BY <1>1 DEF Less
  <2>3. n \in 1 .. N - 1
    BY <2>1, <2>2
  <2>4. n \in DOMAIN chain[c] /\ n # N
    BY <1>2, <2>3
  <2> QED BY <2>1, <2>4 DEF IsOwn
<1>11. /\ IsOwn(c, N) /\ past[c].to < N /\ Mark(<<c, N>>) = Level(cur)
       /\ Level(cur) = B.mark
  BY <1>1, NextInLine
<1>12. <<c, N>> \in living
  BY <1>2, <1>11, OwnIs
<1>13. past[c].to <= N - 1
  BY <1>2, <1>11
<1>14. Returns(c, N - 1)
  <2>1. past[c].to = N - 1 => Lost(c)
    BY <1>5 DEF Lost
  <2> QED BY <1>2, <1>13, <2>1 DEF Returns
<1>15. /\ v \in living /\ Begin(c) \in Nat /\ Begin(c) <= Mark(v) + 1 /\ Mark(v) \in Nat
       /\ (v = <<c, N - 1>> \/ v[1] # c)
  <2>0. Begin(c) \in Nat
    BY <1>2, PeakStands
  <2>1. CASE past[c].to = N - 1
    <3>1. v = past[c].under /\ Lost(c)
      BY <1>5, <2>1 DEF PeakAt, Lost
    <3>2. v \in living /\ v[1] # c /\ Begin(c) = Mark(v) + 1 /\ Mark(v) \in Nat
      BY <1>1, <1>2, <3>1, LostStands, UnderIsBelow
    <3> QED BY <2>0, <3>2
  <2>2. CASE past[c].to # N - 1
    <3>1. v = <<c, N - 1>>
      BY <2>2 DEF PeakAt
    <3>2. IsOwn(c, N - 1)
      BY <1>2, <1>5, <1>13, <2>2 DEF IsOwn
    <3>3. v \in living /\ Begin(c) <= Mark(v) /\ Mark(v) \in Nat
      BY <1>2, <3>1, <3>2, OwnIs
    <3>4. Begin(c) <= Mark(v) + 1
      BY <2>0, <3>3
    <3> QED BY <2>0, <3>1, <3>3, <3>4
  <2> QED BY <2>1, <2>2
<1>16. v # <<c, N>>
  <2>1. CASE v = <<c, N - 1>>
    <3>1. v[2] = N - 1 /\ N - 1 # N
      BY <1>2, <2>1
    <3> QED BY <3>1
  <2>2. CASE v[1] # c
    BY <2>2
  <2> QED BY <1>15, <2>1, <2>2
<1>17. Mark(v)' = Mark(v)
  <2>1. v[1] \in Ctx /\ v[2] \in 1 .. Len(chain[v[1]]) /\ v = <<v[1], v[2]>>
    BY <1>0, <1>15, LivingIs
  <2>2. v[1] = c => v[2] # N
    BY <1>16, <2>1
  <2> QED BY <1>1, <2>1, <2>2, LessMark
<1>18. Level(c)' = Mark(v)'
  <2>1. Peak(c)' = v
    BY <1>1 DEF Peak, PeakAt
  <2>2. Level(c)' = Mark(v)'
    BY <2>1 DEF Level
  <2> QED BY <2>2
<1> QED BY <1>1, <1>5, <1>6, <1>7, <1>9, <1>10, <1>11, <1>12, <1>13, <1>14, <1>15, <1>16, <1>17, <1>18

LEMMA DropOld ==
    ASSUME Here, NEW c, NEW N, Drop(c, N)
    PROVE  /\ \A j \in 1 .. Len(running) : \A d : d = running[j] =>
                  /\ d \in Active /\ Begin(d)' = Begin(d) /\ Lost(d)' = Lost(d)
                  /\ j < Len(running) => d # c /\ Level(d)' = Level(d)
           /\ Len(running) \in Nat \ {0} /\ running[Len(running)] = c
<1>0. TypeOK /\ Contexted
  BY DEF Here, Standing
<1>1. /\ Len(running) \in Nat \ {0} /\ DOMAIN running = 1 .. Len(running)
      /\ cur = running[Len(running)] /\ \A j \in 1 .. Len(running) : running[j] \in Active
  BY <1>0, RunningIs
<1>2. Less(c, N) /\ c = cur
  BY DEF Drop, Less
<1>3. Begin(c)' = Begin(c) /\ Lost(c)' = Lost(c)
  BY DropItself
<1>4. ASSUME NEW j \in 1 .. Len(running), NEW d, d = running[j]
      PROVE  /\ d \in Active /\ Begin(d)' = Begin(d) /\ Lost(d)' = Lost(d)
             /\ j < Len(running) => d # c /\ Level(d)' = Level(d)
  <2>1. d \in Active
    BY <1>1, <1>4
  <2>2. j < Len(running) => d # c
    <3>1. j \in DOMAIN running /\ Len(running) \in DOMAIN running
      BY <1>1
    <3> QED BY <1>0, <1>1, <1>2, <1>4, <3>1 DEF Contexted
  <2>3. d # c => Begin(d)' = Begin(d) /\ Lost(d)' = Lost(d) /\ Level(d)' = Level(d)
    BY <1>2, <2>1, LessOthers
  <2> QED BY <1>3, <2>1, <2>2, <2>3
<1> QED BY <1>1, <1>2, <1>4

(* Next is the choice before it. *)
LEMMA StayKeeps ==
    ASSUME Here, UserNext, NEW c, NEW N, Drop(c, N), chain[c][N].kind = "user", running' = running,
           \A d \in Active : ctx'[d].base = ctx[d].base /\ ctx'[d].floor = ctx[d].floor
    PROVE  NoneLost /\ Stacked'
<1>0. TypeOK /\ Apart /\ Contexted /\ Highest /\ OwnLive /\ Nested /\ Adjoined /\ Floored
  BY DEF Here, Standing, Stacked
<1>1. PICK v : v = PeakAt(c, N - 1)
  OBVIOUS
<1>2. /\ Less(c, N) /\ <<c, N>> \in living /\ Returns(c, N - 1) /\ v \in living /\ v # <<c, N>>
      /\ Mark(v) \in Nat /\ Level(c)' = Mark(v)
      /\ Mark(<<c, N>>) = Level(cur) /\ Begin(c)' = Begin(c)
      /\ \A n : IsOwn(c, n)' => IsOwn(c, n) /\ n # N
  BY <1>1, DropItself
<1>3. \A i \in living' : /\ i \in living /\ i # <<c, N>> /\ Mark(i)' = Mark(i) /\ Mark(i) \in Nat
  BY <1>2, LessLiving
<1>4. /\ \A j \in 1 .. Len(running) : \A d : d = running[j] =>
             /\ d \in Active /\ Begin(d)' = Begin(d) /\ Lost(d)' = Lost(d)
             /\ j < Len(running) => d # c /\ Level(d)' = Level(d)
      /\ Len(running) \in Nat \ {0} /\ running[Len(running)] = c /\ DOMAIN running = 1 .. Len(running)
  BY <1>0, DropOld, RunningIs
<1>5. Active' = Active /\ cur' = cur /\ c = cur
  BY <1>2 DEF Active, cur, Less
<1>6. \A d \in Active : \E j \in 1 .. Len(running) : running[j] = d
  BY <1>0, RunningIs
<1>7. \A d \in Active : Begin(d)' = Begin(d) /\ Lost(d)' = Lost(d)
  BY <1>4, <1>6
<1>8. NoneLost
  BY <1>5, <1>7 DEF NoneLost
<1>9. Highest'
  <2>1. Level(cur)' = Mark(v)
    BY <1>2, <1>5 DEF Level, Peak
  <2>2. NoneBetween(v, <<c, N>>)
    <3>1. PICK i : i = <<c, N>>
      OBVIOUS
    <3>2. i \in living /\ i[1] = c /\ i[2] = N
      BY <1>2, <3>1
    <3>3. Kind(i) = "user"
      BY <3>2 DEF Kind
    <3>4. Returns(i[1], i[2] - 1) /\ v = PeakAt(i[1], i[2] - 1)
      BY <1>1, <1>2, <3>2
    <3>5. NoneBetween(v, i)
      BY <3>2, <3>3, <3>4 DEF UserNext
    <3> QED BY <3>1, <3>5
  <2>3. ASSUME NEW i \in living' PROVE Mark(i)' <= Mark(v)
    <3>1. i \in living /\ i # <<c, N>> /\ Mark(i)' = Mark(i) /\ Mark(i) \in Nat
      BY <1>3
    <3>2. Mark(i) <= Mark(<<c, N>>) /\ Mark(<<c, N>>) \in Nat
      BY <1>0, <1>2, <3>1, LivingIs DEF Highest
    <3>3. Mark(i) # Mark(<<c, N>>)
      BY <1>0, <1>2, <3>1 DEF Apart
    <3>4. Mark(i) <= Mark(v) \/ Mark(<<c, N>>) <= Mark(i)
      BY <2>2, <3>1 DEF NoneBetween
    <3> QED BY <3>1, <3>2, <3>3, <3>4
  <2> QED BY <2>1, <2>3 DEF Highest
<1>10. OwnLive'
  <2> SUFFICES ASSUME NEW d \in Active', NEW n \in Nat, IsOwn(d, n)', NEW i, i = <<d, n>>
               PROVE  i \in living' /\ Begin(d)' <= Mark(i)'
    BY DEF OwnLive
  <2>1. d \in Active
    BY <1>5
  <2>2. IsOwn(d, n) /\ i # <<c, N>>
    <3>1. CASE d = c
      BY <1>2, <3>1
    <3>2. CASE d # c
      <4>1. IsOwn(d, n)
        BY <1>2, <2>1, <3>2, LessOthers
      <4> QED BY <3>2, <4>1
    <3> QED BY <3>1, <3>2
  <2>3. i \in living /\ Begin(d) <= Mark(i)
    BY <1>0, <2>1, <2>2 DEF OwnLive
  <2>4. i \in living'
    BY <1>2, <2>2, <2>3 DEF Less
  <2> QED BY <1>3, <1>7, <2>1, <2>3, <2>4
<1>11. Grounded'
  <2>1. Active \ {c} \subseteq Active'
    BY <1>5
  <2> QED BY <1>2, <1>8, <2>1, LessGrounded
<1>12. Nested'
  <2> SUFFICES ASSUME NEW k \in 1 .. Len(running), NEW j \in 1 .. k - 1,
                      NEW a, a = running[j], NEW d, d = running[k]
               PROVE  Level(a)' < Begin(d)'
    BY <1>4 DEF Nested
  <2>1. j \in 1 .. Len(running) /\ j < Len(running)
    BY <1>4
  <2>2. Level(a)' = Level(a) /\ Begin(d)' = Begin(d)
    BY <1>4, <2>1
  <2>3. Level(a) < Begin(d)
    BY <1>0, <1>4 DEF Nested
  <2> QED BY <2>2, <2>3
<1>13. ASSUME NEW k \in 2 .. Len(running) PROVE k - 1 \in 1 .. Len(running) /\ k - 1 < Len(running)
                                             /\ k \in 1 .. Len(running)
  <2> DEFINE n == Len(running)
  <2>1. n \in Nat /\ k \in 2 .. n
    BY <1>4
  <2> HIDE DEF n
  <2>2. k - 1 \in 1 .. n /\ k - 1 < n /\ k \in 1 .. n
    BY <2>1
  <2> QED BY <2>2 DEF n
<1>14. Adjoined'
  <2> SUFFICES ASSUME NEW k \in 2 .. Len(running), NEW i \in living',
                      NEW a, a = running[k - 1], NEW d, d = running[k], Mark(i)' < Begin(d)'
               PROVE  Mark(i)' <= Level(a)'
    BY DEF Adjoined
  <2>1. Level(a)' = Level(a) /\ Begin(d)' = Begin(d) /\ i \in living /\ Mark(i)' = Mark(i)
    BY <1>3, <1>4, <1>13
  <2> QED BY <1>0, <2>1 DEF Adjoined
<1>15. Floored'
  <2> SUFFICES ASSUME NEW k \in 2 .. Len(running), NEW a, a = running[k - 1], NEW d, d = running[k]
               PROVE  /\ ctx'[d].base < ctx'[d].floor => Level(a)' <= ctx'[d].floor
                      /\ Lost(d)' => Begin(d)' <= ctx'[d].floor + 1
    BY DEF Floored
  <2>1. Level(a)' = Level(a) /\ Begin(d)' = Begin(d) /\ Lost(d)' = Lost(d) /\ d \in Active
    BY <1>4, <1>13
  <2>2. ctx'[d].base = ctx[d].base /\ ctx'[d].floor = ctx[d].floor
    BY <2>1
  <2> QED BY <1>0, <2>1, <2>2 DEF Floored
<1> QED BY <1>8, <1>9, <1>10, <1>11, <1>12, <1>14, <1>15 DEF Stacked

(* Next is the youngest choice of the goal it stands for. *)
Send(c, N, h) ==
    /\ Drop(c, N) /\ chain[c][N].kind = "redo" /\ h = chain[c][N].of /\ h \in Goals
    /\ ctx[h].park \in {Answered, Spent} /\ ctx[h].gen = chain[c][N].gen /\ ~Lost(h)
    /\ running' = Append(running, h) /\ ctx'[h].floor \in Nat /\ ctx'[h].base = ctx'[h].floor
    /\ \A d \in Active : ctx'[d].base = ctx[d].base /\ ctx'[d].floor = ctx[d].floor

LEMMA SendIs ==
    ASSUME Here, RedoNext, NEW c, NEW N, NEW h, Send(c, N, h), NEW n, n = Len(chain[h]),
           NEW v, v = PeakAt(c, N - 1)
    PROVE  /\ h \in Ctx /\ h \notin Active /\ h # c /\ n \in Nat \ {0} /\ DOMAIN chain[h] = 1 .. n
           /\ LastShift(h) \in 1 .. n /\ LastShift(h) = ShiftIn(chain[h], n)
           /\ past[h].to < LastShift(h) /\ past[h].to \in Nat
           /\ \A q \in LastShift(h) .. n : <<h, q>> \in living
           /\ NoneBetween(<<h, n>>, <<c, N>>) /\ NoneBetween(v, <<h, LastShift(h)>>)
<1>0. TypeOK /\ Contexted /\ Shaped
  BY DEF Here, Standing
<1>1. h \in Ctx /\ h \in Goals /\ ctx[h].park \in {Answered, Spent} /\ c \in Active /\ Drop(c, N)
  BY DropItself, LessIs DEF Send, Ctx
<1>2. h \notin Active /\ chain[h] # <<>>
  BY <1>0, <1>1 DEF Contexted, Going, Answered, Spent, Absent
<1>3. h # c
  BY <1>1, <1>2
<1>4. n \in Nat \ {0} /\ DOMAIN chain[h] = 1 .. n /\ past[h].to \in Nat /\ past[h].to <= n
  <2>1. chain[h] \in Seq(Headers)
    BY <1>0, <1>1, ChainsAre
  <2>2. Len(chain[h]) # 0
    BY <1>2, <2>1, EmptySeq
  <2> QED BY <1>0, <1>1, <2>2, ChainsAre DEF Shaped
<1>5. LastShift(h) = ShiftIn(chain[h], n) /\ LastShift(h) \in 1 .. n
  <2>1. LastShift(h) = ShiftIn(chain[h], n)
    BY DEF LastShift
  <2>2. IsShift(chain[h], n, LastShift(h))
    BY <1>4, <2>1, ShiftInIs
  <2> QED BY <2>1, <2>2 DEF IsShift
<1>6. past[h].to < LastShift(h)
  <2>1. ~(LastShift(h) <= past[h].to)
    BY DEF Send, Lost
  <2> QED BY <1>4, <1>5, <2>1
<1>7. PICK i : i = <<c, N>>
  OBVIOUS
<1>8. /\ i \in living /\ i[1] = c /\ i[2] = N /\ Kind(i) = "redo" /\ Returns(i[1], i[2] - 1)
      /\ chain[i[1]][i[2]].of = h
  BY <1>1, <1>7, DropItself DEF Kind, Send
<1>9. Back(h, chain[i[1]][i[2]].gen, n) /\ n \in 1 .. Len(chain[h])
  BY <1>4, <1>8 DEF Back, Send
<1>10. Spans(i, h, n)
  BY <1>5, <1>6, <1>8, <1>9 DEF RedoNext
<1>11. /\ \A q \in LastShift(h) .. n : <<h, q>> \in living
       /\ NoneBetween(<<h, n>>, i) /\ NoneBetween(v, <<h, LastShift(h)>>)
  BY <1>5, <1>8, <1>10 DEF Spans
<1> QED BY <1>1, <1>2, <1>3, <1>4, <1>5, <1>6, <1>7, <1>11

LEMMA SendItself ==
    ASSUME Here, RedoNext, NEW c, NEW N, NEW h, Send(c, N, h), NEW n, n = Len(chain[h])
    PROVE  /\ LastShift(h)' = LastShift(h) /\ ~Lost(h)' /\ Begin(h)' = Mark(<<h, LastShift(h)>>)
           /\ Level(h)' = Mark(<<h, n>>) /\ Mark(<<h, LastShift(h)>>) <= Mark(<<h, n>>)
           /\ \A q : IsOwn(h, q)' => q \in LastShift(h) .. n
           /\ \A q \in LastShift(h) .. n : /\ <<h, q>> \in living' /\ Mark(<<h, q>>) \in Nat
                                           /\ Mark(<<h, q>>)' = Mark(<<h, q>>)
                                           /\ Mark(<<h, LastShift(h)>>) <= Mark(<<h, q>>)
<1>0. TypeOK /\ Apart
  BY DEF Here, Standing
<1>1. /\ h \in Ctx /\ h # c /\ n \in Nat \ {0} /\ DOMAIN chain[h] = 1 .. n
      /\ LastShift(h) \in 1 .. n /\ past[h].to < LastShift(h) /\ past[h].to \in Nat
      /\ \A q \in LastShift(h) .. n : <<h, q>> \in living
  BY SendIs
<1>2. chain'[h] = chain[h] /\ past' = past /\ living' = living \ {<<c, N>>}
  BY <1>1 DEF Send, Drop, Less
<1>3. LastShift(h)' = LastShift(h) /\ ~Lost(h)'
  BY <1>1, <1>2 DEF LastShift, Lost
<1>4. Begin(h)' = Mark(<<h, LastShift(h)>>)
  BY <1>2, <1>3 DEF Begin, Mark
<1>5. Level(h)' = Mark(<<h, n>>)
  <2>1. Peak(h)' = <<h, n>>
    BY <1>1, <1>2 DEF Peak, PeakAt
  <2>2. Level(h)' = Mark(<<h, n>>)'
    BY <2>1 DEF Level
  <2> QED BY <1>2, <2>2 DEF Mark
<1>6. \A q : IsOwn(h, q)' => q \in LastShift(h) .. n
  BY <1>1, <1>2, <1>3 DEF IsOwn
<1>7. ASSUME NEW q \in LastShift(h) .. n
      PROVE  /\ <<h, q>> \in living' /\ Mark(<<h, q>>) \in Nat
             /\ Mark(<<h, q>>)' = Mark(<<h, q>>)
             /\ Mark(<<h, LastShift(h)>>) <= Mark(<<h, q>>)
  <2>1. <<h, q>> \in living /\ <<h, LastShift(h)>> \in living
    BY <1>1
  <2>2. <<h, q>> \in living'
    BY <1>1, <1>2, <2>1
  <2>3. Mark(<<h, q>>) \in Nat /\ Mark(<<h, LastShift(h)>>) \in Nat
    BY <1>0, <2>1, LivingIs
  <2>4. Mark(<<h, LastShift(h)>>) <= Mark(<<h, q>>)
    <3>1. CASE q = LastShift(h)
      BY <2>3, <3>1
    <3>2. CASE LastShift(h) < q
      BY <1>0, <2>1, <2>3, <3>2 DEF Apart
    <3> QED BY <1>1, <3>1, <3>2
  <2> QED BY <1>2, <2>2, <2>3, <2>4 DEF Mark
<1>8. n \in LastShift(h) .. n
  BY <1>1
<1> QED BY <1>3, <1>4, <1>5, <1>6, <1>7, <1>8

LEMMA SendRunning ==
    ASSUME Here, RedoNext, NEW c, NEW N, NEW h, Send(c, N, h)
    PROVE  /\ Len(running') = Len(running) + 1 /\ Len(running) \in Nat \ {0} /\ cur' = h
           /\ DOMAIN running' = 1 .. Len(running) + 1 /\ running'[Len(running) + 1] = h
           /\ \A j \in 1 .. Len(running) : running'[j] = running[j]
           /\ Active' = Active \cup {h} /\ running' \in Seq(Ctx)
<1>0. TypeOK /\ Contexted
  BY DEF Here, Standing
<1>1. running \in Seq(Ctx) /\ h \in Ctx /\ running' = Append(running, h)
  BY <1>0, SendIs DEF TypeOK, Send
<1>2. Len(running) \in Nat \ {0} /\ Active = {running[j] : j \in 1 .. Len(running)}
  BY <1>0, RunningIs DEF Active
<1>3. /\ Len(running') = Len(running) + 1 /\ DOMAIN running' = 1 .. Len(running) + 1
      /\ running'[Len(running) + 1] = h /\ running' \in Seq(Ctx)
      /\ \A j \in 1 .. Len(running) : running'[j] = running[j]
  BY <1>1
<1>4. cur' = h
  BY <1>3 DEF cur, Last
<1>5. Active' = Active \cup {h}
  <2>1. Active' = {running'[j] : j \in 1 .. Len(running) + 1}
    BY <1>3 DEF Active
  <2>2. \A j \in 1 .. Len(running) + 1 : j \in 1 .. Len(running) \/ j = Len(running) + 1
    BY <1>2
  <2>3. \A j \in 1 .. Len(running) : j \in 1 .. Len(running) + 1
    BY <1>2
  <2>4. Len(running) + 1 \in 1 .. Len(running) + 1
    BY <1>2
  <2>5. \A x \in Active' : x \in Active \cup {h}
    BY <1>2, <1>3, <2>1, <2>2
  <2>6. \A x \in Active \cup {h} : x \in Active'
    BY <1>2, <1>3, <2>1, <2>3, <2>4
  <2> QED BY <2>5, <2>6
<1> QED BY <1>2, <1>3, <1>4, <1>5

LEMMA SendKeeps ==
    ASSUME Here, RedoNext, NEW c, NEW N, NEW h, Send(c, N, h)
    PROVE  NoneLost /\ Stacked'
<1>0. TypeOK /\ Apart /\ Contexted /\ Highest /\ OwnLive /\ Nested /\ Adjoined /\ Floored
  BY DEF Here, Standing, Stacked
<1>1. PICK v : v = PeakAt(c, N - 1)
  OBVIOUS
<1>2. PICK n : n = Len(chain[h])
  OBVIOUS
<1>3. PICK p : p = LastShift(h)
  OBVIOUS
<1>4. /\ Less(c, N) /\ <<c, N>> \in living /\ v \in living
      /\ Mark(v) \in Nat /\ Level(c)' = Mark(v) /\ Begin(c) <= Mark(v) + 1 /\ Begin(c) \in Nat
      /\ Mark(<<c, N>>) = Level(cur) /\ Begin(c)' = Begin(c) /\ Drop(c, N)
      /\ \A q : IsOwn(c, q)' => IsOwn(c, q) /\ q # N
  BY <1>1, DropItself DEF Send
<1>5. \A i \in living' : /\ i \in living /\ i # <<c, N>> /\ Mark(i)' = Mark(i) /\ Mark(i) \in Nat
  BY <1>4, LessLiving
<1>6. /\ \A j \in 1 .. Len(running) : \A d : d = running[j] =>
             /\ d \in Active /\ Begin(d)' = Begin(d) /\ Lost(d)' = Lost(d)
             /\ j < Len(running) => d # c /\ Level(d)' = Level(d)
      /\ running[Len(running)] = c /\ DOMAIN running = 1 .. Len(running)
  BY <1>0, <1>4, DropOld, RunningIs
<1>7. /\ Len(running') = Len(running) + 1 /\ Len(running) \in Nat \ {0} /\ cur' = h
      /\ DOMAIN running' = 1 .. Len(running) + 1 /\ running'[Len(running) + 1] = h
      /\ \A j \in 1 .. Len(running) : running'[j] = running[j]
      /\ Active' = Active \cup {h}
  BY SendRunning
<1>8. \A d \in Active : Begin(d)' = Begin(d) /\ Lost(d)' = Lost(d)
  <2>1. \A d \in Active : \E j \in 1 .. Len(running) : running[j] = d
    BY <1>0, RunningIs
  <2> QED BY <1>6, <2>1
<1>9. /\ h \notin Active /\ h # c /\ NoneBetween(<<h, n>>, <<c, N>>) /\ NoneBetween(v, <<h, p>>)
  BY <1>1, <1>2, <1>3, SendIs
<1>10. /\ ~Lost(h)' /\ Begin(h)' = Mark(<<h, p>>) /\ Level(h)' = Mark(<<h, n>>)
       /\ \A q : IsOwn(h, q)' => q \in p .. n
       /\ \A q \in p .. n : /\ <<h, q>> \in living' /\ Mark(<<h, q>>) \in Nat
                            /\ Mark(<<h, q>>)' = Mark(<<h, q>>)
                            /\ Mark(<<h, p>>) <= Mark(<<h, q>>)
  BY <1>2, <1>3, SendItself
<1>11. NoneLost
  BY <1>7, <1>8, <1>10 DEF NoneLost
<1>12. Highest'
  <2>1. Level(cur)' = Mark(<<h, n>>)
    BY <1>7, <1>10 DEF Level, Peak
  <2>2. ASSUME NEW i \in living' PROVE Mark(i)' <= Mark(<<h, n>>)
    <3>1. i \in living /\ i # <<c, N>> /\ Mark(i)' = Mark(i) /\ Mark(i) \in Nat
      BY <1>5
    <3>2. Mark(i) <= Mark(<<c, N>>) /\ Mark(<<c, N>>) \in Nat
      BY <1>0, <1>4, <3>1, LivingIs DEF Highest
    <3>3. Mark(i) # Mark(<<c, N>>)
      BY <1>0, <1>4, <3>1 DEF Apart
    <3>4. Mark(i) <= Mark(<<h, n>>) \/ Mark(<<c, N>>) <= Mark(i)
      BY <1>9, <3>1 DEF NoneBetween
    <3> QED BY <3>1, <3>2, <3>3, <3>4
  <2> QED BY <2>1, <2>2 DEF Highest
<1>13. OwnLive'
  <2> SUFFICES ASSUME NEW d \in Active', NEW q \in Nat, IsOwn(d, q)', NEW i, i = <<d, q>>
               PROVE  i \in living' /\ Begin(d)' <= Mark(i)'
    BY DEF OwnLive
  <2>1. CASE d = h
    BY <1>10, <2>1
  <2>2. CASE d # h
    <3>1. d \in Active
      BY <1>7, <2>2
    <3>2. IsOwn(d, q) /\ i # <<c, N>>
      <4>1. CASE d = c
        BY <1>4, <4>1
      <4>2. CASE d # c
        <5>1. IsOwn(d, q)
          BY <1>4, <3>1, <4>2, LessOthers
        <5> QED BY <4>2, <5>1
      <4> QED BY <4>1, <4>2
    <3>3. i \in living /\ Begin(d) <= Mark(i)
      BY <1>0, <3>1, <3>2 DEF OwnLive
    <3>4. i \in living'
      BY <1>4, <3>2, <3>3 DEF Less
    <3> QED BY <1>5, <1>8, <3>1, <3>3, <3>4
  <2> QED BY <2>1, <2>2
<1>14. Grounded'
  <2>1. Active \ {c} \subseteq Active'
    BY <1>7
  <2> QED BY <1>4, <1>11, <2>1, LessGrounded
<1>15. Mark(v) < Mark(<<h, p>>) /\ \A i \in living : Mark(i) <= Mark(v) \/ Mark(<<h, p>>) <= Mark(i)
  BY <1>9 DEF NoneBetween
<1>16. Mark(<<h, p>>) \in Nat
  <2>1. n \in Nat /\ LastShift(h) \in 1 .. n
    BY <1>2, SendIs
  <2>2. p \in p .. n
    BY <1>3, <2>1
  <2> QED BY <1>10, <2>2
<1>17. Nested'
  <2> SUFFICES ASSUME NEW k \in 1 .. Len(running) + 1, NEW j \in 1 .. k - 1,
                      NEW a, a = running'[j], NEW d, d = running'[k]
               PROVE  Level(a)' < Begin(d)'
    BY <1>7 DEF Nested
  <2>1. j \in 1 .. Len(running) /\ j < k /\ a = running[j]
    BY <1>7
  <2>2. CASE k = Len(running) + 1
    <3>1. d = h /\ Begin(d)' = Mark(<<h, p>>)
      BY <1>7, <1>10, <2>2
    <3>2. CASE j = Len(running)
      BY <1>4, <1>6, <1>15, <2>1, <3>1, <3>2
    <3>3. CASE j < Len(running)
      <4>1. Level(a)' = Level(a) /\ a \in Active
        BY <1>6, <2>1, <3>3
      <4>2. Len(running) \in 1 .. Len(running)
        BY <1>7
      <4>3. Level(a) < Begin(c)
        BY <1>6, <2>1, <3>3, <4>2, Rise
      <4>4. Level(a) \in Nat
        BY <4>1, PeakStands
      <4> QED BY <1>4, <1>15, <1>16, <3>1, <4>1, <4>3, <4>4
    <3> QED BY <1>7, <2>1, <3>2, <3>3
  <2>3. CASE k # Len(running) + 1
    <3>1. k \in 1 .. Len(running) /\ d = running[k] /\ j < Len(running)
      BY <1>7, <2>1, <2>3
    <3>2. Level(a)' = Level(a) /\ Begin(d)' = Begin(d)
      BY <1>6, <2>1, <3>1
    <3>3. Level(a) < Begin(d)
      BY <2>1, <3>1, Rise
    <3> QED BY <3>2, <3>3
  <2> QED BY <2>2, <2>3
<1>18. ASSUME NEW k \in 2 .. Len(running) + 1
       PROVE  /\ k - 1 \in 1 .. Len(running) /\ running'[k - 1] = running[k - 1]
              /\ (k = Len(running) + 1 => running[k - 1] = c /\ running'[k] = h)
              /\ k # Len(running) + 1 =>
                    /\ k \in 2 .. Len(running) /\ k \in 1 .. Len(running) /\ k - 1 < Len(running)
                    /\ running'[k] = running[k]
  <2>1. k - 1 \in 1 .. Len(running)
    BY <1>7
  <2>2. k = Len(running) + 1 => k - 1 = Len(running)
    BY <1>7
  <2>3. k # Len(running) + 1 => k \in 2 .. Len(running) /\ k \in 1 .. Len(running) /\ k - 1 < Len(running)
    BY <1>7
  <2> QED BY <1>6, <1>7, <2>1, <2>2, <2>3
<1>19. Adjoined'
  <2> SUFFICES ASSUME NEW k \in 2 .. Len(running) + 1, NEW i \in living',
                      NEW a, a = running'[k - 1], NEW d, d = running'[k], Mark(i)' < Begin(d)'
               PROVE  Mark(i)' <= Level(a)'
    BY <1>7 DEF Adjoined
  <2>1. i \in living /\ Mark(i)' = Mark(i) /\ Mark(i) \in Nat
    BY <1>5
  <2>2. CASE k = Len(running) + 1
    <3>1. a = c /\ d = h
      BY <1>18, <2>2
    <3> QED BY <1>4, <1>10, <1>15, <1>16, <2>1, <3>1
  <2>3. CASE k # Len(running) + 1
    <3>1. a = running[k - 1] /\ d = running[k] /\ k \in 2 .. Len(running)
      BY <1>18, <2>3
    <3>2. Level(a)' = Level(a) /\ Begin(d)' = Begin(d)
      BY <1>6, <1>18, <2>3, <3>1
    <3> QED BY <1>0, <2>1, <3>1, <3>2 DEF Adjoined
  <2> QED BY <2>2, <2>3
<1>20. Floored'
  <2> SUFFICES ASSUME NEW k \in 2 .. Len(running) + 1, NEW a, a = running'[k - 1], NEW d, d = running'[k]
               PROVE  /\ ctx'[d].base < ctx'[d].floor => Level(a)' <= ctx'[d].floor
                      /\ Lost(d)' => Begin(d)' <= ctx'[d].floor + 1
    BY <1>7 DEF Floored
  <2>1. CASE k = Len(running) + 1
    <3>1. d = h
      BY <1>18, <2>1
    <3>2. ctx'[d].base = ctx'[d].floor /\ ctx'[d].floor \in Nat /\ ~Lost(d)'
      BY <1>10, <3>1 DEF Send
    <3>3. ~(ctx'[d].base < ctx'[d].floor)
      BY <3>2
    <3> QED BY <3>2, <3>3
  <2>2. CASE k # Len(running) + 1
    <3>1. a = running[k - 1] /\ d = running[k] /\ k \in 2 .. Len(running)
      BY <1>18, <2>2
    <3>2. Level(a)' = Level(a) /\ Begin(d)' = Begin(d) /\ Lost(d)' = Lost(d) /\ d \in Active
      BY <1>6, <1>18, <2>2, <3>1
    <3>3. ctx'[d].base = ctx[d].base /\ ctx'[d].floor = ctx[d].floor
      BY <3>2 DEF Send
    <3> QED BY <1>0, <3>1, <3>2, <3>3 DEF Floored
  <2> QED BY <2>1, <2>2
<1> QED BY <1>11, <1>12, <1>13, <1>14, <1>17, <1>19, <1>20 DEF Stacked

-----------------------------------------------------------------------------
(* The context that runs comes to rest with nothing of its own since its   *)
(* last shift but, at most, its last choice, which goes.                   *)

Leave(c, N) ==
    /\ Less(c, N) /\ LastShift(c) = N /\ Len(running) > 1 /\ running' = Front(running)
    /\ \A d \in Active \ {c} : ctx'[d].base = ctx[d].base /\ ctx'[d].floor = ctx[d].floor

LEMMA FrontRunning ==
    ASSUME TypeOK, Contexted, Len(running) > 1, running' = Front(running)
    PROVE  /\ Len(running') = Len(running) - 1 /\ Len(running') \in Nat \ {0} /\ Len(running) \in Nat \ {0}
           /\ DOMAIN running' = 1 .. Len(running) - 1 /\ cur' = Activator /\ running' \in Seq(Ctx)
           /\ \A j \in 1 .. Len(running) - 1 : running'[j] = running[j] /\ j \in 1 .. Len(running)
           /\ Active' = Active \ {cur} /\ running' # <<>>
<1>1. /\ running \in Seq(Ctx) /\ Len(running) \in Nat \ {0} /\ DOMAIN running = 1 .. Len(running)
      /\ cur = running[Len(running)]
      /\ \A j, k \in DOMAIN running : running[j] = running[k] => j = k
      /\ \A j \in 1 .. Len(running) : running[j] \in Active
      /\ \A c \in Active : \E j \in 1 .. Len(running) : running[j] = c
  BY RunningIs DEF TypeOK, Contexted
<1>2. PICK n : n = Len(running)
  OBVIOUS
<1>3. n \in Nat \ {0} /\ n > 1 /\ n - 1 \in Nat \ {0} /\ n - 1 \in 1 .. n
  BY <1>1, <1>2
<1>5. \A j \in 1 .. n - 1 : running[j] \in Ctx /\ j \in 1 .. n
  BY <1>1, <1>2, <1>3
<1>6. /\ Len(running') = n - 1 /\ DOMAIN running' = 1 .. n - 1 /\ running' \in Seq(Ctx)
      /\ \A j \in 1 .. n - 1 : running'[j] = running[j]
  <2>1. running' = SubSeq(running, 1, n - 1)
    BY <1>2 DEF Front
  <2>2. 1 \in 1 .. n + 1 /\ n - 1 \in 0 .. n
    BY <1>3
  <2>3. running \in Seq(Ctx) /\ n = Len(running)
    BY <1>1, <1>2
  <2> QED BY <1>3, <1>5, <2>1, <2>2, <2>3, SubSeqProperties
<1>7. cur' = Activator
  <2>1. n - 1 \in 1 .. n - 1
    BY <1>3
  <2> QED BY <1>2, <1>6, <2>1 DEF cur, Last, Activator
<1>8. Active' = Active \ {cur}
  <2>1. Active' = {running'[j] : j \in 1 .. n - 1}
    BY <1>6 DEF Active
  <2>2. \A x \in Active' : x \in Active \ {cur}
    <3> SUFFICES ASSUME NEW j \in 1 .. n - 1 PROVE running[j] \in Active /\ running[j] # cur
      BY <1>6, <2>1
    <3>1. j \in 1 .. n /\ n \in 1 .. n /\ j # n
      BY <1>3
    <3>2. running[j] # running[n]
      BY <1>1, <1>2, <3>1
    <3> QED BY <1>1, <1>2, <3>1, <3>2
  <2>3. \A x \in Active \ {cur} : x \in Active'
    <3> SUFFICES ASSUME NEW x \in Active, x # cur PROVE x \in Active'
      OBVIOUS
    <3>1. PICK j \in 1 .. n : running[j] = x
      BY <1>1, <1>2
    <3>2. j \in 1 .. n - 1
      BY <1>1, <1>2, <1>3, <3>1
    <3> QED BY <1>6, <2>1, <3>1, <3>2
  <2> QED BY <2>2, <2>3
<1>9. running' # <<>>
  BY <1>3, <1>6
<1> QED BY <1>2, <1>3, <1>5, <1>6, <1>7, <1>8, <1>9

LEMMA LeaveKeeps ==
    ASSUME Here, NEW c, NEW N, Leave(c, N)
    PROVE  NoneLost /\ Stacked'
<1>0. TypeOK /\ Apart /\ Contexted /\ Highest /\ OwnLive /\ Nested /\ Adjoined /\ Floored
  BY DEF Here, Standing, Stacked
<1>1. /\ Less(c, N) /\ LastShift(c) = N /\ Len(running) > 1 /\ running' = Front(running) /\ c = cur
      /\ N = Len(chain[c])
  BY DEF Leave, Less
<1>2. PICK a : a = Activator
  OBVIOUS
<1>3. /\ Len(running') = Len(running) - 1 /\ Len(running') \in Nat \ {0} /\ Len(running) \in Nat \ {0}
      /\ DOMAIN running' = 1 .. Len(running) - 1 /\ cur' = a
      /\ \A j \in 1 .. Len(running) - 1 : running'[j] = running[j] /\ j \in 1 .. Len(running)
      /\ Active' = Active \ {c}
  BY <1>0, <1>1, <1>2, FrontRunning
<1>4. /\ a \in Active /\ a = running[Len(running) - 1] /\ a # c /\ Len(running) \in 2 .. Len(running)
      /\ c = running[Len(running)]
  BY <1>0, <1>1, <1>2, CallersAre, RunningIs
<1>5. \A d \in Active' : /\ d \in Active /\ d # c /\ Lost(d)' = Lost(d) /\ Begin(d)' = Begin(d)
                         /\ Level(d)' = Level(d) /\ \A n : IsOwn(d, n)' = IsOwn(d, n)
  BY <1>1, <1>3, LessOthers
<1>6. NoneLost
  BY <1>5 DEF NoneLost
<1>7. \A i \in living' : /\ i \in living /\ i # <<c, N>> /\ Mark(i)' = Mark(i) /\ Mark(i) \in Nat
  BY <1>1, LessLiving
<1>8. Highest'
  <2>1. Level(cur)' = Level(a)
    <3>1. Level(a)' = Level(a)
      BY <1>3, <1>4, <1>5
    <3> QED BY <1>3, <3>1 DEF Level, Peak
  <2>2. ASSUME NEW i \in living' PROVE Mark(i)' <= Level(a)
    <3>1. i \in living /\ i # <<c, N>> /\ Mark(i)' = Mark(i) /\ Mark(i) \in Nat
      BY <1>7
    <3>2. Mark(i) <= Level(c) /\ c \in Active
      BY <1>0, <1>1, <3>1, RunningIs DEF Highest
    <3>3. Level(c) \in Nat /\ Begin(c) \in Nat
      BY <3>2, PeakStands
    <3>4. Mark(i) < Begin(c)
      <4>1. CASE past[c].to = N
        <5>1. Lost(c) /\ Level(c) = Mark(past[c].under) /\ Begin(c) = Mark(past[c].under) + 1
          BY <1>1, <3>2, <4>1, PeakStands, LostStands DEF Level
        <5> QED BY <3>1, <3>2, <3>3, <5>1
      <4>2. CASE past[c].to # N
        <5>1. past[c].to \in 0 .. N /\ N \in Nat
          BY <1>1, LessIs
        <5>2. ~Lost(c)
          BY <1>1, <4>2, <5>1 DEF Lost
        <5>3. Begin(c) = Mark(<<c, N>>) /\ Level(c) = Mark(<<c, N>>) /\ IsOwn(c, N)
          BY <1>1, <3>2, <4>2, <5>2, PeakStands DEF Level
        <5>4. <<c, N>> \in living
          BY <3>2, <5>3, OwnIs
        <5>5. Mark(i) # Mark(<<c, N>>)
          BY <1>0, <3>1, <5>4 DEF Apart
        <5> QED BY <3>1, <3>2, <3>3, <5>3, <5>5
      <4> QED BY <4>1, <4>2
    <3>5. Mark(i) <= Level(a)
      BY <1>0, <1>4, <3>1, <3>4 DEF Adjoined
    <3> QED BY <3>1, <3>5
  <2> QED BY <2>1, <2>2 DEF Highest
<1>9. OwnLive'
  <2> SUFFICES ASSUME NEW d \in Active', NEW n \in Nat, IsOwn(d, n)', NEW i, i = <<d, n>>
               PROVE  i \in living' /\ Begin(d)' <= Mark(i)'
    BY DEF OwnLive
  <2>1. d \in Active /\ d # c /\ IsOwn(d, n) /\ Begin(d)' = Begin(d)
    BY <1>5
  <2>2. i \in living /\ Begin(d) <= Mark(i) /\ i # <<c, N>>
    BY <1>0, <2>1 DEF OwnLive
  <2>3. i \in living'
    BY <1>1, <2>2 DEF Less
  <2> QED BY <1>7, <2>1, <2>2, <2>3
<1>10. Grounded'
  <2>1. Active \ {c} \subseteq Active'
    BY <1>3
  <2> QED BY <1>1, <1>6, <2>1, LessGrounded
<1>11. ASSUME NEW k \in 1 .. Len(running) - 1
       PROVE  /\ running'[k] = running[k] /\ running[k] \in Active' /\ k \in 1 .. Len(running)
              /\ k \in DOMAIN running
  <2>1. running'[k] \in Active'
    BY <1>3 DEF Active
  <2>2. running'[k] = running[k] /\ k \in 1 .. Len(running)
    BY <1>3
  <2> QED BY <1>0, <2>1, <2>2, RunningIs
<1>12. Nested'
  <2> SUFFICES ASSUME NEW k \in 1 .. Len(running) - 1, NEW j \in 1 .. k - 1,
                      NEW b, b = running'[j], NEW d, d = running'[k]
               PROVE  Level(b)' < Begin(d)'
    BY <1>3 DEF Nested
  <2>1. j \in 1 .. Len(running) - 1
    BY <1>3
  <2>2. Level(b)' = Level(b) /\ Begin(d)' = Begin(d) /\ b = running[j] /\ d = running[k]
    BY <1>5, <1>11, <2>1
  <2>3. Level(b) < Begin(d)
    BY <1>0, <1>11, <2>2 DEF Nested
  <2> QED BY <2>2, <2>3
<1>13. ASSUME NEW k \in 2 .. Len(running) - 1
       PROVE  k \in 1 .. Len(running) - 1 /\ k - 1 \in 1 .. Len(running) - 1 /\ k \in 2 .. Len(running)
  BY <1>3
<1>14. Adjoined'
  <2> SUFFICES ASSUME NEW k \in 2 .. Len(running) - 1, NEW i \in living',
                      NEW b, b = running'[k - 1], NEW d, d = running'[k], Mark(i)' < Begin(d)'
               PROVE  Mark(i)' <= Level(b)'
    BY <1>3 DEF Adjoined
  <2>1. Level(b)' = Level(b) /\ Begin(d)' = Begin(d) /\ b = running[k - 1] /\ d = running[k]
        /\ k \in 2 .. Len(running)
    BY <1>5, <1>11, <1>13
  <2>2. i \in living /\ Mark(i)' = Mark(i)
    BY <1>7
  <2> QED BY <1>0, <2>1, <2>2 DEF Adjoined
<1>15. Floored'
  <2> SUFFICES ASSUME NEW k \in 2 .. Len(running) - 1, NEW b, b = running'[k - 1], NEW d, d = running'[k]
               PROVE  /\ ctx'[d].base < ctx'[d].floor => Level(b)' <= ctx'[d].floor
                      /\ Lost(d)' => Begin(d)' <= ctx'[d].floor + 1
    BY <1>3 DEF Floored
  <2>1. Level(b)' = Level(b) /\ Begin(d)' = Begin(d) /\ Lost(d)' = Lost(d) /\ b = running[k - 1]
        /\ d = running[k] /\ k \in 2 .. Len(running) /\ d \in Active \ {c}
    BY <1>3, <1>5, <1>11, <1>13
  <2>2. ctx'[d].base = ctx[d].base /\ ctx'[d].floor = ctx[d].floor
    BY <2>1 DEF Leave
  <2> QED BY <1>0, <2>1, <2>2 DEF Floored
<1> QED BY <1>6, <1>8, <1>9, <1>10, <1>12, <1>14, <1>15 DEF Stacked

-----------------------------------------------------------------------------
(* The context c that runs cuts back to its n-th choice.                   *)

Cut(c, n) ==
    /\ c = cur /\ n \in 1 .. Len(chain[c]) /\ n \in Nat
    /\ chain'[c] \in Seq(Headers) /\ Len(chain'[c]) = n
    /\ \A k \in 1 .. n : chain'[c][k] = chain[c][k]
    /\ \A d \in Ctx \ {c} : chain'[d] = chain[d] /\ past'[d] = past[d]
    /\ running' = running /\ ctx' = ctx
    /\ living' \subseteq living /\ \A i \in living' : i[1] = c => i[2] <= n
    /\ \A i \in living' : \A l \in living :
           Mark(l) <= Mark(i) /\ (l[1] = c => l[2] <= n) => l \in living'

(* The cut stays within what c has opened since its last shift, or goes past that. *)
StaysWithin(c, n) == ~CutsPast(n) /\ past'[c] = past[c]
Past(c, n) == past'[c].to = n

LEMMA CutMark ==
    ASSUME NEW c, NEW n, Cut(c, n), NEW v, v[1] \in Ctx, v[2] \in 1 .. Len(chain[v[1]]),
           v[1] = c => v[2] <= n, Len(chain[v[1]]) \in Nat
    PROVE  chain'[v[1]][v[2]] = chain[v[1]][v[2]] /\ Mark(v)' = Mark(v)
<1>1. chain'[v[1]][v[2]] = chain[v[1]][v[2]]
  <2>1. CASE v[1] = c
    <3>1. v[2] \in 1 .. n
      BY <2>1 DEF Cut
    <3> QED BY <2>1, <3>1 DEF Cut
  <2>2. CASE v[1] # c
    BY <2>2 DEF Cut
  <2> QED BY <2>1, <2>2
<1> QED BY <1>1 DEF Mark

LEMMA CutLiving ==
    ASSUME Here, NEW c, NEW n, Cut(c, n), NEW i \in living'
    PROVE  /\ i \in living /\ i[1] \in Ctx /\ i[2] \in 1 .. Len(chain[i[1]]) /\ i[2] \in Nat
           /\ (i[1] = c => i[2] <= n)
           /\ Mark(i)' = Mark(i) /\ Mark(i) \in Nat /\ chain'[i[1]][i[2]] = chain[i[1]][i[2]]
<1>0. TypeOK /\ Apart
  BY DEF Here, Standing
<1>1. i \in living /\ (i[1] = c => i[2] <= n)
  BY DEF Cut
<1>2. /\ i[1] \in Ctx /\ i[2] \in 1 .. Len(chain[i[1]]) /\ i[2] \in Nat /\ Mark(i) \in Nat
      /\ Len(chain[i[1]]) \in Nat
  BY <1>0, <1>1, LivingIs, ChainsAre
<1> QED BY <1>1, <1>2, CutMark

LEMMA CutNoneBetween ==
    ASSUME Here, NEW c, NEW n, Cut(c, n), NEW i, NEW j,
           i[1] \in Ctx, i[2] \in 1 .. Len(chain[i[1]]), i[1] = c => i[2] <= n,
           j[1] \in Ctx, j[2] \in 1 .. Len(chain[j[1]]), j[1] = c => j[2] <= n, NoneBetween(i, j)
    PROVE  NoneBetween(i, j)'
<1>0. Len(chain[i[1]]) \in Nat /\ Len(chain[j[1]]) \in Nat
  BY ChainsAre DEF Here
<1>1. Mark(i)' = Mark(i) /\ Mark(j)' = Mark(j)
  BY <1>0, CutMark
<1>2. \A l \in living' : l \in living /\ Mark(l)' = Mark(l)
  BY CutLiving
<1> QED BY <1>1, <1>2 DEF NoneBetween

(* The last shift of its chain. *)
LEMMA CutShift ==
    ASSUME Here, NEW c, NEW n, Cut(c, n)
    PROVE  /\ c \in Active /\ c \in Ctx /\ n \in Nat \ {0} /\ n <= Len(chain[c])
           /\ LastShift(c)' = ShiftIn(chain[c], n) /\ LastShift(c)' \in 1 .. n
           /\ LastShift(c) <= n => LastShift(c)' = LastShift(c)
           /\ LastShift(c) \in Nat /\ past[c].to \in Nat
<1>0. TypeOK /\ Contexted /\ Shaped
  BY DEF Here, Standing
<1>1. /\ c \in Active /\ c \in Ctx /\ Len(chain[c]) \in Nat \ {0} /\ LastShift(c) \in Nat
      /\ past[c].to \in Nat
  BY <1>0, RunningIs, ActiveIs DEF Cut
<1>2. n \in Nat \ {0} /\ n \in 1 .. Len(chain[c])
  BY DEF Cut
<1>3. LastShift(c)' = ShiftIn(chain'[c], n)
  BY DEF LastShift, Cut
<1>4. ShiftIn(chain'[c], n) = ShiftIn(chain[c], n)
  <2>1. \A k \in 1 .. n : chain'[c][k].kind = chain[c][k].kind
    BY DEF Cut
  <2> QED BY <1>2, <2>1, ShiftInSame
<1>5. ShiftIn(chain[c], n) \in 1 .. n
  <2>1. IsShift(chain[c], n, ShiftIn(chain[c], n))
    BY <1>2, ShiftInIs
  <2> QED BY <2>1 DEF IsShift
<1>6. LastShift(c) <= n => ShiftIn(chain[c], n) = LastShift(c)
  BY <1>1, <1>2, ShiftInBelow DEF LastShift
<1>7. n <= Len(chain[c])
  BY <1>1, <1>2
<1> QED BY <1>1, <1>2, <1>3, <1>4, <1>5, <1>6, <1>7

(* Choices that will be retried, as they are seen after it. *)
LEMMA CutReturns ==
    ASSUME Here, NEW c, NEW n, Cut(c, n), StaysWithin(c, n) \/ Past(c, n), NEW i \in living',
           Kind(i) \in {"user", "redo"}, Returns(i[1], i[2] - 1)', NEW v, v = PeakAt(i[1], i[2] - 1)
    PROVE  /\ Returns(i[1], i[2] - 1) /\ v = PeakAt(i[1], i[2] - 1)'
           /\ v[1] \in Ctx /\ v[2] \in 1 .. Len(chain[v[1]]) /\ (v[1] = c => v[2] <= n)
<1>0. TypeOK /\ Apart
  BY DEF Here, Standing
<1>1. i \in living /\ i[1] \in Ctx /\ i[2] \in Nat /\ (i[1] = c => i[2] <= n) /\ n \in Nat
  BY CutLiving DEF Cut
<1>2. PICK d : d = i[1]
  OBVIOUS
<1>3. PICK k : k = i[2] - 1
  OBVIOUS
<1>4. past'[d] = past[d]
  <2>1. CASE d # c
    BY <1>1, <1>2, <2>1 DEF Cut
  <2>2. CASE d = c /\ StaysWithin(c, n)
    BY <2>2 DEF StaysWithin
  <2>3. CASE d = c /\ Past(c, n)
    <3>1. past'[d].to = n /\ k < n
      BY <1>1, <1>2, <1>3, <2>3 DEF Past
    <3>2. past'[d].to < k \/ k = past'[d].to
      BY <1>2, <1>3 DEF Returns
    <3> QED BY <1>1, <1>3, <3>1, <3>2
  <2> QED BY <2>1, <2>2, <2>3
<1>5. Returns(d, k) /\ PeakAt(d, k)' = PeakAt(d, k)
  <2>1. PeakAt(d, k)' = PeakAt(d, k)
    BY <1>4 DEF PeakAt
  <2>2. Active' = Active
    BY DEF Active, Cut
  <2>3. k = past[d].to /\ d \in Active /\ Lost(d)' => Lost(d)
    <3>1. CASE d # c
      BY <1>1, <1>2, <3>1 DEF Lost, LastShift, Cut
    <3>2. CASE d = c
      <4>1. Past(c, n) => ~Returns(d, k)'
        <5>1. Past(c, n) => past'[d].to = n /\ k < n
          BY <1>1, <1>2, <1>3, <3>2 DEF Past
        <5> QED BY <1>1, <1>3, <5>1 DEF Returns
      <4>2. Returns(d, k)'
        BY <1>2, <1>3
      <4>3. StaysWithin(c, n)
        BY <4>1, <4>2
      <4>4. LastShift(c) <= n
        <5>1. ~(n < LastShift(c))
          BY <4>3 DEF StaysWithin, CutsPast, Cut
        <5> QED BY <1>1, <5>1, CutShift
      <4>5. LastShift(c)' = LastShift(c)
        BY <4>4, CutShift
      <4> QED BY <1>4, <3>2, <4>5 DEF Lost
    <3> QED BY <3>1, <3>2
  <2>4. Returns(d, k)'
    BY <1>2, <1>3
  <2> QED BY <1>4, <2>1, <2>2, <2>3, <2>4 DEF Returns
<1>6. v = PeakAt(d, k)
  BY <1>2, <1>3
<1>7. /\ v[1] \in Ctx /\ v[2] \in 1 .. Len(chain[v[1]])
      /\ \/ v = <<i[1], i[2] - 1>>
         \/ v = past[i[1]].under /\ i[1] \in Active /\ Lost(i[1])
  BY <1>1, <1>2, <1>3, <1>5, PeakIsThere
<1>8. v[1] = c => v[2] <= n
  <2>1. CASE v = <<i[1], i[2] - 1>>
    <3>1. v[1] = i[1] /\ v[2] = i[2] - 1
      BY <2>1
    <3> QED BY <1>1, <3>1
  <2>2. CASE v = past[i[1]].under /\ i[1] \in Active /\ Lost(i[1])
    BY <2>2, UnderIsBelow DEF Cut
  <2> QED BY <1>7, <2>1, <2>2
<1> QED BY <1>2, <1>3, <1>5, <1>6, <1>7, <1>8

LEMMA CutUserNext ==
    ASSUME Here, UserNext, NEW c, NEW n, Cut(c, n), StaysWithin(c, n) \/ Past(c, n)
    PROVE  UserNext'
<1> SUFFICES ASSUME NEW i \in living', Kind(i)' = "user", Returns(i[1], i[2] - 1)',
                    NEW w, w = PeakAt(i[1], i[2] - 1)'
             PROVE  NoneBetween(w, i)'
  BY DEF UserNext
<1>1. PICK v : v = PeakAt(i[1], i[2] - 1)
  OBVIOUS
<1>2. /\ i \in living /\ i[1] \in Ctx /\ i[2] \in 1 .. Len(chain[i[1]]) /\ (i[1] = c => i[2] <= n)
      /\ Kind(i) = "user"
  BY CutLiving DEF Kind
<1>3. /\ Returns(i[1], i[2] - 1) /\ w = v
      /\ v[1] \in Ctx /\ v[2] \in 1 .. Len(chain[v[1]]) /\ (v[1] = c => v[2] <= n)
  BY <1>1, <1>2, CutReturns
<1>4. NoneBetween(v, i)
  BY <1>1, <1>2, <1>3 DEF UserNext
<1> QED BY <1>2, <1>3, <1>4, CutNoneBetween

LEMMA CutBack ==
    ASSUME Here, NEW c, NEW n, Cut(c, n), StaysWithin(c, n) \/ Past(c, n), NEW i \in living', Kind(i) = "redo",
           NEW h, h = chain[i[1]][i[2]].of, NEW m,
           NEW q \in 1 .. Len(chain'[h]), Back(h, m, q)', past'[h].to < ShiftIn(chain'[h], q)
    PROVE  /\ h \in Ctx /\ q \in 1 .. Len(chain[h]) /\ Back(h, m, q) /\ (h = c => q < n)
           /\ ShiftIn(chain'[h], q) = ShiftIn(chain[h], q) /\ past'[h] = past[h]
<1>0. TypeOK /\ Apart /\ Shaped /\ Contexted
  BY DEF Here, Standing
<1>1. i \in living /\ i[1] \in Ctx /\ i[2] \in 1 .. Len(chain[i[1]])
  BY CutLiving
<1>2. h \in Goals /\ h \in Ctx
  <2>1. i[2] \in DOMAIN chain[i[1]]
    BY <1>0, <1>1, ChainsAre
  <2>2. h \in Goals
    BY <1>0, <1>1, <2>1 DEF Shaped, Kind
  <2> QED BY <2>2 DEF Ctx
<1>3. CASE h # c
  <2>1. chain'[h] = chain[h] /\ past'[h] = past[h] /\ ctx' = ctx
    BY <1>2, <1>3 DEF Cut
  <2> QED BY <1>2, <1>3, <2>1 DEF Back
<1>4. CASE h = c
  <2>1. /\ chain'[c] \in Seq(Headers) /\ Len(chain'[c]) = n /\ n \in Nat \ {0} /\ ctx' = ctx /\ c \in Active
        /\ n <= Len(chain[c]) /\ Len(chain[c]) \in Nat
    BY <1>0, <1>2, <1>4, CutShift, ChainsAre DEF Cut
  <2>2. q \in 1 .. n /\ q \in Nat \ {0} /\ DOMAIN chain'[c] = 1 .. n
    BY <1>4, <2>1
  <2>3. ctx'[c].park = Going
    BY <1>0, <1>2, <1>4, <2>1 DEF Contexted
  <2>4. q + 1 \in DOMAIN chain'[c] /\ chain'[c][q + 1].kind = "unwound" /\ chain'[c][q + 1].gen = m
    BY <1>4, <2>3 DEF Back, Going, Answered, Spent
  <2>5. q + 1 \in 1 .. n /\ q < n
    BY <2>1, <2>2, <2>4
  <2>6. chain'[c][q + 1] = chain[c][q + 1]
    BY <2>5 DEF Cut
  <2>7. q + 1 \in DOMAIN chain[c] /\ q \in 1 .. Len(chain[c])
    <3>1. DOMAIN chain[c] = 1 .. Len(chain[c])
      BY <1>0, <1>2, <1>4, ChainsAre
    <3>2. q + 1 \in 1 .. Len(chain[c]) /\ q \in 1 .. Len(chain[c])
      BY <2>1, <2>2, <2>5
    <3> QED BY <3>1, <3>2
  <2>8. Back(h, m, q)
    BY <1>4, <2>4, <2>6, <2>7 DEF Back
  <2>9. ShiftIn(chain'[c], q) = ShiftIn(chain[c], q)
    <3>1. \A k \in 1 .. q : chain'[c][k].kind = chain[c][k].kind
      <4>1. \A k \in 1 .. q : k \in 1 .. n
        BY <2>1, <2>2
      <4> QED BY <4>1 DEF Cut
    <3> QED BY <2>2, <3>1, ShiftInSame
  <2>10. ShiftIn(chain'[c], q) \in 1 .. q
    <3>1. IsShift(chain'[c], q, ShiftIn(chain'[c], q))
      BY <2>2, ShiftInIs
    <3> QED BY <3>1 DEF IsShift
  <2>11. ~Past(c, n)
    <3>1. n < ShiftIn(chain'[c], q) => FALSE
      BY <2>1, <2>2, <2>10
    <3> QED BY <1>4, <3>1 DEF Past
  <2>12. past'[c] = past[c]
    BY <2>11 DEF StaysWithin
  <2> QED BY <1>2, <1>4, <2>5, <2>7, <2>8, <2>9, <2>12
<1> QED BY <1>3, <1>4

LEMMA CutRedoNext ==
    ASSUME Here, RedoNext, NEW c, NEW n, Cut(c, n), StaysWithin(c, n) \/ Past(c, n)
    PROVE  RedoNext'
<1> SUFFICES ASSUME NEW i \in living', Kind(i)' = "redo", Returns(i[1], i[2] - 1)',
                    NEW h, h = chain'[i[1]][i[2]].of, NEW m, m = chain'[i[1]][i[2]].gen,
                    NEW q \in 1 .. Len(chain'[h]),
                    Back(h, m, q)', past'[h].to < ShiftIn(chain'[h], q)
             PROVE  Spans(i, h, q)'
  BY DEF RedoNext
<1>0. TypeOK /\ Apart
  BY DEF Here, Standing
<1>1. /\ i \in living /\ i[1] \in Ctx /\ i[2] \in 1 .. Len(chain[i[1]]) /\ (i[1] = c => i[2] <= n)
      /\ chain'[i[1]][i[2]] = chain[i[1]][i[2]] /\ Mark(i) \in Nat
  BY CutLiving
<1>2. Kind(i) = "redo" /\ h = chain[i[1]][i[2]].of /\ m = chain[i[1]][i[2]].gen
  BY <1>1 DEF Kind
<1>3. /\ h \in Ctx /\ q \in 1 .. Len(chain[h]) /\ Back(h, m, q) /\ (h = c => q < n)
      /\ ShiftIn(chain'[h], q) = ShiftIn(chain[h], q) /\ past'[h] = past[h]
  BY <1>2, CutBack
<1>4. PICK v : v = PeakAt(i[1], i[2] - 1)
  OBVIOUS
<1>5. /\ Returns(i[1], i[2] - 1) /\ v = PeakAt(i[1], i[2] - 1)'
      /\ v[1] \in Ctx /\ v[2] \in 1 .. Len(chain[v[1]]) /\ (v[1] = c => v[2] <= n)
  BY <1>2, <1>4, CutReturns
<1>6. Spans(i, h, q)
  BY <1>1, <1>2, <1>3, <1>5 DEF RedoNext
<1>7. PICK p : p = ShiftIn(chain[h], q)
  OBVIOUS
<1>8. Len(chain[h]) \in Nat /\ q \in Nat \ {0} /\ p \in 1 .. q /\ n \in Nat
  <2>1. Len(chain[h]) \in Nat /\ q \in Nat \ {0} /\ n \in Nat
    BY <1>0, <1>3, ChainsAre DEF Cut
  <2>2. IsShift(chain[h], q, p)
    BY <1>7, <2>1, ShiftInIs
  <2> QED BY <2>1, <2>2 DEF IsShift
<1>9. /\ \A k \in p .. q : <<h, k>> \in living
      /\ NoneBetween(<<h, q>>, i) /\ NoneBetween(v, <<h, p>>)
  BY <1>4, <1>6, <1>7 DEF Spans
<1>10. \A k \in p .. q : k \in 1 .. Len(chain[h]) /\ (h = c => k <= n) /\ k <= q
  BY <1>3, <1>8
<1>11. \A k \in p .. q : \A u : u = <<h, k>> =>
           u[1] \in Ctx /\ u[2] \in 1 .. Len(chain[u[1]]) /\ (u[1] = c => u[2] <= n)
  <2> SUFFICES ASSUME NEW k \in p .. q, NEW u, u = <<h, k>>
               PROVE  u[1] \in Ctx /\ u[2] \in 1 .. Len(chain[u[1]]) /\ (u[1] = c => u[2] <= n)
    OBVIOUS
  <2>1. u[1] = h /\ u[2] = k
    OBVIOUS
  <2>2. h \in Ctx /\ k \in 1 .. Len(chain[h]) /\ (h = c => k <= n)
    BY <1>3, <1>10
  <2> QED BY <2>1, <2>2
<1>12. p \in p .. q /\ q \in p .. q
  BY <1>8
<1>13. NoneBetween(<<h, q>>, i)'
  <2>1. PICK u : u = <<h, q>>
    OBVIOUS
  <2>2. NoneBetween(u, i)'
    BY <1>1, <1>9, <1>11, <1>12, <2>1, CutNoneBetween
  <2> QED BY <2>1, <2>2
<1>14. NoneBetween(v, <<h, p>>)'
  <2>1. PICK u : u = <<h, p>>
    OBVIOUS
  <2>2. NoneBetween(v, u)'
    BY <1>5, <1>9, <1>11, <1>12, <2>1, CutNoneBetween
  <2> QED BY <2>1, <2>2
<1>15. \A k \in p .. q : <<h, k>> \in living'
  <2> SUFFICES ASSUME NEW k \in p .. q, NEW u, u = <<h, k>> PROVE u \in living'
    OBVIOUS
  <2>1. u \in living /\ u[1] = h /\ u[2] = k /\ (u[1] = c => u[2] <= n)
    BY <1>9, <1>10
  <2>2. PICK x : x = <<h, q>>
    OBVIOUS
  <2>3. x \in living /\ x[1] = h /\ x[2] = q /\ Mark(x) < Mark(i)
    BY <1>9, <1>12, <2>2 DEF NoneBetween
  <2>4. Mark(u) \in Nat /\ Mark(x) \in Nat
    BY <1>0, <2>1, <2>3, LivingIs
  <2>5. Mark(u) <= Mark(x)
    <3>1. CASE k = q
      BY <2>2, <2>4, <3>1
    <3>2. CASE k < q
      BY <1>0, <2>1, <2>3, <2>4, <3>2 DEF Apart
    <3>3. k = q \/ k < q
      <4>1. k <= q /\ k \in Nat /\ q \in Nat
        BY <1>8, <1>10
      <4> QED BY <4>1
    <3> QED BY <3>1, <3>2, <3>3
  <2>6. Mark(u) <= Mark(i)
    BY <1>1, <2>3, <2>4, <2>5
  <2> QED BY <2>1, <2>6 DEF Cut
<1>16. p = ShiftIn(chain'[h], q)
  BY <1>3, <1>7
<1> QED BY <1>5, <1>13, <1>14, <1>15, <1>16 DEF Spans

LEMMA CutApart ==
    ASSUME Here, NEW c, NEW n, Cut(c, n)
    PROVE  Apart'
<1>0. TypeOK /\ Apart
  BY DEF Here, Standing
<1>1. \A i \in living' : i \in living /\ Mark(i)' = Mark(i)
  BY CutLiving
<1>2. ASSUME NEW i \in living' PROVE i[2] \in DOMAIN chain'[i[1]]
  <2>1. i[1] \in Ctx /\ i[2] \in 1 .. Len(chain[i[1]]) /\ i[2] \in Nat /\ (i[1] = c => i[2] <= n)
    BY CutLiving
  <2>2. CASE i[1] = c
    <3>1. DOMAIN chain'[c] = 1 .. n
      BY DEF Cut
    <3>2. i[2] \in 1 .. n
      BY <2>1, <2>2 DEF Cut
    <3> QED BY <2>2, <3>1, <3>2
  <2>3. CASE i[1] # c
    <3>1. chain'[i[1]] = chain[i[1]]
      BY <2>1, <2>3 DEF Cut
    <3> QED BY <1>0, <2>1, <3>1, ChainsAre
  <2> QED BY <2>2, <2>3
<1> QED BY <1>0, <1>1, <1>2 DEF Apart

LEMMA CutShaped ==
    ASSUME Here, NEW c, NEW n, Cut(c, n), past'[c].to <= n
    PROVE  Shaped'
<1>0. TypeOK /\ Shaped
  BY DEF Here, Standing
<1> SUFFICES ASSUME NEW d \in Ctx
             PROVE  /\ past'[d].to <= Len(chain'[d])
                    /\ \A k \in DOMAIN chain'[d] : Fits(d, k, chain'[d][k], ctx')
  BY DEF Shaped, Fits
<1>1. ctx' = ctx
  BY DEF Cut
<1>2. \A k \in DOMAIN chain[d] : Fits(d, k, chain[d][k], ctx')
  BY <1>0, <1>1 DEF Shaped, Fits
<1>3. CASE d # c
  <2>1. chain'[d] = chain[d] /\ past'[d] = past[d]
    BY <1>3 DEF Cut
  <2> QED BY <1>0, <1>2, <2>1 DEF Shaped
<1>4. CASE d = c
  <2>1. Len(chain'[c]) = n /\ DOMAIN chain'[c] = 1 .. n
    BY DEF Cut
  <2>2. \A k \in 1 .. n : k \in DOMAIN chain[c] /\ chain'[c][k] = chain[c][k]
    <3>1. DOMAIN chain[c] = 1 .. Len(chain[c]) /\ Len(chain[c]) \in Nat /\ n \in 1 .. Len(chain[c])
      BY <1>0, <1>4, ChainsAre DEF Cut
    <3>2. \A k \in 1 .. n : k \in 1 .. Len(chain[c])
      BY <3>1
    <3> QED BY <3>1, <3>2 DEF Cut
  <2> QED BY <1>2, <1>4, <2>1, <2>2
<1> QED BY <1>3, <1>4

(* The contexts that wait. *)
LEMMA CutOthers ==
    ASSUME Here, NEW c, NEW n, Cut(c, n), NEW d \in Active, d # c
    PROVE  /\ LastShift(d)' = LastShift(d) /\ Lost(d)' = Lost(d) /\ Begin(d)' = Begin(d)
           /\ \A k : IsOwn(d, k)' = IsOwn(d, k)
           /\ Level(d)' = Level(d) /\ past'[d] = past[d] /\ chain'[d] = chain[d]
           /\ Level(d) < Begin(c)
<1>0. TypeOK /\ Apart /\ Contexted
  BY DEF Here, Standing
<1>1. d \in Ctx
  BY <1>0, RunningIs
<1>2. Alone(d) /\ past'[d] = past[d] /\ chain'[d] = chain[d]
  BY <1>1 DEF Alone, Cut
<1>3. Lost(d) => Mark(past[d].under)' = Mark(past[d].under)
  <2> SUFFICES ASSUME Lost(d) PROVE Mark(past[d].under)' = Mark(past[d].under)
    OBVIOUS
  <2>1. PICK u : u = past[d].under
    OBVIOUS
  <2>2. u = past'[d].under
    BY <1>2, <2>1
  <2>3. u \in living /\ u[1] # c
    BY <2>1, LostStands, UnderIsBelow DEF Cut
  <2>4. u[1] \in Ctx /\ u[2] \in 1 .. Len(chain[u[1]]) /\ Len(chain[u[1]]) \in Nat
    BY <1>0, <2>3, LivingIs, ChainsAre
  <2>5. Mark(u)' = Mark(u)
    BY <2>3, <2>4, CutMark
  <2> QED BY <2>1, <2>2, <2>5
<1>4. Level(d) < Begin(c)
  BY BelowTheLast DEF Cut
<1> QED BY <1>2, <1>3, <1>4, LeftAlone

LEMMA CutRunning ==
    ASSUME Here, NEW c, NEW n, Cut(c, n)
    PROVE  /\ Len(running) \in Nat \ {0} /\ DOMAIN running = 1 .. Len(running) /\ running' = running
           /\ running[Len(running)] = c /\ c = cur /\ cur' = c /\ Active' = Active
           /\ \A j \in 1 .. Len(running) : /\ running[j] \in Active
                                           /\ j < Len(running) => running[j] # c
           /\ \A j \in 2 .. Len(running) : j - 1 \in 1 .. Len(running) /\ j - 1 < Len(running)
                                           /\ j \in 1 .. Len(running)
<1>0. TypeOK /\ Contexted
  BY DEF Here, Standing
<1>1. /\ Len(running) \in Nat \ {0} /\ DOMAIN running = 1 .. Len(running)
      /\ cur = running[Len(running)] /\ \A j \in 1 .. Len(running) : running[j] \in Active
  BY <1>0, RunningIs
<1>2. running' = running /\ c = cur
  BY DEF Cut
<1>3. cur' = cur /\ Active' = Active
  BY <1>2 DEF cur, Active
<1>4. ASSUME NEW j \in 1 .. Len(running), j < Len(running) PROVE running[j] # c
  <2>1. j \in DOMAIN running /\ Len(running) \in DOMAIN running
    BY <1>1
  <2> QED BY <1>0, <1>1, <1>2, <1>4, <2>1 DEF Contexted
<1>5. ASSUME NEW j \in 2 .. Len(running)
      PROVE  j - 1 \in 1 .. Len(running) /\ j - 1 < Len(running) /\ j \in 1 .. Len(running)
  <2>1. PICK k : k = Len(running)
    OBVIOUS
  <2>2. k \in Nat /\ j \in 2 .. k
    BY <1>1, <2>1
  <2>3. j - 1 \in 1 .. k /\ j - 1 < k /\ j \in 1 .. k
    BY <2>2
  <2> QED BY <2>1, <2>3
<1> QED BY <1>1, <1>2, <1>3, <1>4, <1>5

(* A cut that goes no further back. *)
LEMMA WithinKeeps ==
    ASSUME Here, NEW c, NEW n, Cut(c, n), StaysWithin(c, n),
           living' = {i \in living : Mark(i) <= chain[c][n].mark}
    PROVE  Stacked' /\ past'[c].to <= n
<1>0. TypeOK /\ Apart /\ Contexted /\ Highest /\ OwnLive /\ Nested /\ Adjoined /\ Floored
  BY DEF Here, Standing, Stacked
<1>1. /\ c \in Active /\ c \in Ctx /\ n \in Nat \ {0} /\ n <= Len(chain[c]) /\ n \in 1 .. Len(chain[c])
      /\ LastShift(c) \in Nat /\ past[c].to \in Nat
      /\ LastShift(c) <= n => LastShift(c)' = LastShift(c)
  BY CutShift DEF Cut
<1>2. past'[c] = past[c] /\ LastShift(c) <= n /\ past[c].to < n /\ LastShift(c)' = LastShift(c)
  <2>1. c = cur /\ ~CutsPast(n) /\ past'[c] = past[c]
    BY DEF Cut, StaysWithin
  <2>2. ~(n < LastShift(c)) /\ ~(n <= past[c].to)
    BY <2>1 DEF CutsPast
  <2> QED BY <1>1, <2>1, <2>2
<1>3. Lost(c)' = Lost(c)
  BY <1>2 DEF Lost
<1>4. IsOwn(c, n)
  BY <1>0, <1>1, <1>2, ChainsAre DEF IsOwn
<1>5. <<c, n>> \in living /\ Mark(<<c, n>>) \in Nat /\ Begin(c) <= Mark(<<c, n>>) /\ Begin(c) \in Nat
      /\ chain[c][n].mark = Mark(<<c, n>>)
  BY <1>1, <1>4, OwnIs, PeakStands DEF Mark
<1>6. Begin(c)' = Begin(c)
  <2>1. CASE Lost(c)
    <3>1. PICK u : u = past[c].under
      OBVIOUS
    <3>2. u = past'[c].under /\ u \in living /\ u[1] # c
      BY <1>1, <1>2, <2>1, <3>1, LostStands, UnderIsBelow DEF Cut
    <3>3. u[1] \in Ctx /\ u[2] \in 1 .. Len(chain[u[1]]) /\ Len(chain[u[1]]) \in Nat
      BY <1>0, <3>2, LivingIs, ChainsAre
    <3>4. Mark(u)' = Mark(u)
      BY <3>2, <3>3, CutMark
    <3>5. Begin(c) = Mark(u) + 1 /\ Begin(c)' = Mark(u)' + 1
      BY <1>3, <2>1, <3>1, <3>2 DEF Begin
    <3> QED BY <3>4, <3>5
  <2>2. CASE ~Lost(c)
    <3>1. Begin(c)' = chain'[c][LastShift(c)].mark /\ Begin(c) = chain[c][LastShift(c)].mark
      BY <1>2, <1>3, <2>2 DEF Begin
    <3>2. LastShift(c) \in 1 .. n
      BY <1>1, <1>2, CutShift
    <3> QED BY <3>1, <3>2 DEF Cut
  <2> QED BY <2>1, <2>2
<1>7. Level(c)' = Mark(<<c, n>>)
  <2>1. Len(chain'[c]) = n /\ past'[c].to # n
    BY <1>1, <1>2 DEF Cut
  <2>2. Peak(c)' = <<c, n>>
    BY <2>1 DEF Peak, PeakAt
  <2>3. Level(c)' = chain'[c][n].mark
    BY <2>2 DEF Level, Mark
  <2>4. chain'[c][n] = chain[c][n]
    BY <1>1 DEF Cut
  <2> QED BY <1>5, <2>3, <2>4
<1>8. /\ Len(running) \in Nat \ {0} /\ DOMAIN running = 1 .. Len(running) /\ running' = running
      /\ running[Len(running)] = c /\ c = cur /\ cur' = c /\ Active' = Active
      /\ \A j \in 1 .. Len(running) : running[j] \in Active /\ (j < Len(running) => running[j] # c)
      /\ \A j \in 2 .. Len(running) : j - 1 \in 1 .. Len(running) /\ j - 1 < Len(running)
                                      /\ j \in 1 .. Len(running)
  BY CutRunning
<1>9. \A d \in Active : Begin(d)' = Begin(d) /\ Lost(d)' = Lost(d)
  BY <1>3, <1>6, CutOthers
<1>10. \A d \in Active : d # c => Level(d)' = Level(d)
  BY CutOthers
<1>11. \A i \in living' : i \in living /\ Mark(i)' = Mark(i) /\ Mark(i) \in Nat
  BY CutLiving
<1>12. Highest'
  <2>1. Level(cur)' = Mark(<<c, n>>)
    BY <1>7, <1>8 DEF Level, Peak
  <2> QED BY <1>5, <1>11, <2>1 DEF Highest
<1>13. OwnLive'
  <2> SUFFICES ASSUME NEW d \in Active', NEW k \in Nat, IsOwn(d, k)', NEW i, i = <<d, k>>
               PROVE  i \in living' /\ Begin(d)' <= Mark(i)'
    BY DEF OwnLive
  <2>1. d \in Active
    BY <1>8
  <2>2. i \in living /\ Begin(d) <= Mark(i) /\ Mark(i) <= Mark(<<c, n>>)
    <3>1. CASE d = c
      <4>1. k \in DOMAIN chain'[c] /\ LastShift(c) <= k /\ past[c].to < k
        BY <1>2, <3>1 DEF IsOwn
      <4>2. k \in 1 .. n
        BY <4>1 DEF Cut
      <4>3. k \in DOMAIN chain[c]
        BY <1>0, <1>1, <4>2, ChainsAre
      <4>4. IsOwn(c, k)
        BY <4>1, <4>3 DEF IsOwn
      <4>5. i \in living /\ Begin(c) <= Mark(i) /\ Mark(i) \in Nat
        BY <1>1, <3>1, <4>4, OwnIs
      <4>6. Mark(i) <= Mark(<<c, n>>)
        <5>1. CASE k = n
          BY <1>5, <3>1, <5>1
        <5>2. CASE k < n
          <6>1. PICK j : j = <<c, n>>
            OBVIOUS
          <6>2. i[1] = j[1] /\ i[2] < j[2] /\ j \in living
            BY <1>5, <3>1, <5>2, <6>1
          <6>3. Mark(i) < Mark(j)
            BY <1>0, <4>5, <6>2 DEF Apart
          <6> QED BY <1>5, <4>5, <6>1, <6>3
        <5> QED BY <4>2, <1>1, <5>1, <5>2
      <4> QED BY <3>1, <4>5, <4>6
    <3>2. CASE d # c
      <4>1. IsOwn(d, k) /\ Level(d) < Begin(c)
        BY <2>1, <3>2, CutOthers
      <4>2. i \in living /\ Begin(d) <= Mark(i) /\ Mark(i) <= Level(d) /\ Mark(i) \in Nat /\ Level(d) \in Nat
        BY <2>1, <4>1, OwnIs, PeakStands
      <4> QED BY <1>5, <4>1, <4>2
    <3> QED BY <3>1, <3>2
  <2>3. i \in living'
    BY <1>5, <2>2
  <2> QED BY <1>9, <1>11, <2>1, <2>2, <2>3
<1>14. Grounded'
  <2> SUFFICES ASSUME NEW d \in Active', Lost(d)', NEW u, u = past'[d].under
               PROVE  u \in living' /\ u[1] \in Active' /\ IsOwn(u[1], u[2])'
    BY DEF Grounded
  <2>1. d \in Active /\ Lost(d) /\ u = past[d].under
    <3>1. d \in Active /\ Lost(d)
      BY <1>8, <1>9
    <3>2. past'[d] = past[d]
      BY <1>2, <3>1, CutOthers
    <3> QED BY <3>1, <3>2
  <2>2. u \in living /\ u[1] \in Active /\ IsOwn(u[1], u[2]) /\ u[1] # c /\ Mark(u) < Begin(c) /\ Mark(u) \in Nat
    BY <1>8, <2>1, LostStands, UnderIsBelow
  <2>3. IsOwn(u[1], u[2])'
    BY <2>2, CutOthers
  <2>4. u \in living'
    BY <1>5, <2>2
  <2> QED BY <1>8, <2>2, <2>3, <2>4
<1>15. Nested'
  <2> SUFFICES ASSUME NEW k \in 1 .. Len(running), NEW j \in 1 .. k - 1,
                      NEW a, a = running[j], NEW d, d = running[k]
               PROVE  Level(a)' < Begin(d)'
    BY <1>8 DEF Nested
  <2>1. j \in 1 .. Len(running) /\ j < Len(running)
    BY <1>8
  <2>2. Level(a)' = Level(a) /\ Begin(d)' = Begin(d)
    BY <1>8, <1>9, <1>10, <2>1
  <2>3. Level(a) < Begin(d)
    BY <1>0, <1>8 DEF Nested
  <2> QED BY <2>2, <2>3
<1>16. Adjoined'
  <2> SUFFICES ASSUME NEW k \in 2 .. Len(running), NEW i \in living',
                      NEW a, a = running[k - 1], NEW d, d = running[k], Mark(i)' < Begin(d)'
               PROVE  Mark(i)' <= Level(a)'
    BY <1>8 DEF Adjoined
  <2>1. Level(a)' = Level(a) /\ Begin(d)' = Begin(d) /\ i \in living /\ Mark(i)' = Mark(i)
    BY <1>8, <1>9, <1>10, <1>11
  <2> QED BY <1>0, <2>1 DEF Adjoined
<1>17. Floored'
  <2> SUFFICES ASSUME NEW k \in 2 .. Len(running), NEW a, a = running[k - 1], NEW d, d = running[k]
               PROVE  /\ ctx'[d].base < ctx'[d].floor => Level(a)' <= ctx'[d].floor
                      /\ Lost(d)' => Begin(d)' <= ctx'[d].floor + 1
    BY <1>8 DEF Floored
  <2>1. Level(a)' = Level(a) /\ Begin(d)' = Begin(d) /\ Lost(d)' = Lost(d) /\ ctx' = ctx
    BY <1>8, <1>9, <1>10 DEF Cut
  <2> QED BY <1>0, <2>1 DEF Floored
<1> QED BY <1>1, <1>2, <1>12, <1>13, <1>14, <1>15, <1>16, <1>17 DEF Stacked

(* A cut past the last shift: what is left is the caller's. *)
PastCut(c, n) ==
    /\ Cut(c, n) /\ CutsPast(n) /\ Past(c, n) /\ past'[c].under = Youngest(Left(n))
    /\ living' = Left(n) /\ ctx[c].floor > ctx[c].base

LEMMA PastHasCaller ==
    ASSUME Here, NEW c, NEW n, PastCut(c, n)
    PROVE  c \in Goals /\ Len(running) > 1
<1>0. TypeOK /\ Shaped /\ Contexted
  BY DEF Here, Standing
<1>1. /\ c \in Active /\ c \in Ctx /\ n \in Nat \ {0} /\ n <= Len(chain[c]) /\ c = cur
  BY CutShift DEF PastCut, Cut
<1>2. c # Main
  <2> SUFFICES ASSUME c = Main PROVE FALSE
    OBVIOUS
  <2>1. past[c].to = 0
    BY <1>0 DEF Contexted
  <2>2. n < LastShift(c)
    BY <1>1, <2>1 DEF PastCut, CutsPast
  <2>3. IsShift(chain[c], Len(chain[c]), LastShift(c)) /\ LastShift(c) \in 1 .. Len(chain[c])
        /\ Len(chain[c]) \in Nat
    BY <1>0, <1>1, ActiveIs
  <2>4. LastShift(c) # 1
    BY <1>1, <2>2
  <2>5. chain[c][LastShift(c)].kind = "unwound" /\ LastShift(c) \in DOMAIN chain[c]
    BY <1>0, <1>1, <2>3, <2>4, ChainsAre DEF IsShift
  <2>6. c \in Goals
    BY <1>0, <1>1, <2>5 DEF Shaped
  <2> QED BY <2>6, Bounds
<1>3. c \in Goals
  BY <1>1, <1>2 DEF Ctx
<1>4. Len(running) > 1
  <2>1. Len(running) \in Nat \ {0} /\ running[Len(running)] = c /\ running[1] = Main
    BY <1>0, <1>1, RunningIs DEF Contexted
  <2>2. Len(running) # 1
    BY <1>2, <2>1
  <2> QED BY <2>1, <2>2
<1> QED BY <1>3, <1>4

(* The youngest of them is its caller's youngest. *)
LEMMA PastUnder ==
    ASSUME Here, NEW c, NEW n, PastCut(c, n), NEW a, a = Activator, NEW u, u = Peak(a)
    PROVE  /\ past'[c].under = u /\ u \in living' /\ u[1] # c /\ u[1] \in Active /\ IsOwn(u[1], u[2])
           /\ Mark(u) = Level(a) /\ Mark(u)' = Mark(u) /\ Level(a) \in Nat /\ Level(a) < Begin(c)
           /\ a \in Active /\ a # c /\ a = running[Len(running) - 1]
           /\ \A i \in living' : Mark(i) <= Level(a)
<1>0. TypeOK /\ Apart /\ Contexted /\ Adjoined
  BY DEF Here, Standing, Stacked
<1>1. /\ c = cur /\ Cut(c, n) /\ living' = Left(n) /\ CutsPast(n)
      /\ Left(n) = {i \in living : Mark(i) < Begin(c) /\ (i[1] = c => i[2] <= n)}
  BY DEF PastCut, Cut, Left
<1>2. /\ a \in Active /\ a = running[Len(running) - 1] /\ a # c /\ Len(running) \in 2 .. Len(running)
      /\ running[Len(running)] = c
  BY <1>0, <1>1, PastHasCaller, CallersAre, RunningIs
<1>3. Level(a) < Begin(c) /\ Level(a) \in Nat
  BY <1>1, <1>2, BelowTheLast, PeakStands
<1>4. u \in living /\ u[1] \in Active /\ IsOwn(u[1], u[2]) /\ Mark(u) = Level(a)
  BY <1>2, PeakStands DEF Level
<1>5. u[1] # c
  <2>1. CASE past[a].to = Len(chain[a])
    BY <1>1, <1>2, <2>1, PeakStands, UnderIsBelow
  <2>2. CASE past[a].to # Len(chain[a])
    <3>1. u = <<a, Len(chain[a])>>
      BY <1>2, <2>2, PeakStands
    <3> QED BY <1>2, <3>1
  <2> QED BY <2>1, <2>2
<1>6. u \in Left(n)
  BY <1>1, <1>3, <1>4, <1>5
<1>7. \A i \in Left(n) : Mark(i) <= Level(a) /\ Mark(i) \in Nat
  BY <1>0, <1>1, <1>2, LivingIs DEF Adjoined
<1>8. Youngest(Left(n)) = u
  <2>1. u \in Left(n) /\ \A j \in Left(n) : Mark(j) <= Mark(u)
    BY <1>4, <1>6, <1>7
  <2>2. ASSUME NEW i \in Left(n), \A j \in Left(n) : Mark(j) <= Mark(i) PROVE i = u
    <3>1. Mark(u) <= Mark(i) /\ Mark(i) <= Mark(u) /\ Mark(i) \in Nat /\ Mark(u) \in Nat
      BY <1>6, <1>7, <2>1, <2>2
    <3>2. Mark(i) = Mark(u) /\ i \in living /\ u \in living
      BY <1>1, <1>4, <3>1
    <3> QED BY <1>0, <3>2 DEF Apart
  <2> QED BY <2>1, <2>2 DEF Youngest
<1>9. past'[c].under = u
  BY <1>8 DEF PastCut
<1>10. Mark(u)' = Mark(u) /\ u \in living'
  BY <1>1, <1>6, CutLiving
<1> QED BY <1>1, <1>2, <1>3, <1>4, <1>5, <1>7, <1>9, <1>10

LEMMA PastKeeps ==
    ASSUME Here, NEW c, NEW n, PastCut(c, n)
    PROVE  Stacked' /\ past'[c].to <= n
<1>0. TypeOK /\ Apart /\ Contexted /\ Highest /\ OwnLive /\ Nested /\ Adjoined /\ Floored
  BY DEF Here, Standing, Stacked
<1>1. PICK a : a = Activator
  OBVIOUS
<1>2. PICK u : u = Peak(a)
  OBVIOUS
<1>3. /\ past'[c].under = u /\ u \in living' /\ u[1] # c /\ u[1] \in Active /\ IsOwn(u[1], u[2])
      /\ Mark(u) = Level(a) /\ Mark(u)' = Mark(u) /\ Level(a) \in Nat /\ Level(a) < Begin(c)
      /\ a \in Active /\ a # c /\ a = running[Len(running) - 1]
      /\ \A i \in living' : Mark(i) <= Level(a)
  BY <1>1, <1>2, PastUnder
<1>4. /\ Cut(c, n) /\ past'[c].to = n /\ living' = Left(n) /\ n \in Nat \ {0} /\ LastShift(c)' \in 1 .. n
      /\ Len(chain'[c]) = n /\ c \in Active /\ CutsPast(n)
  BY CutShift DEF PastCut, Past, Cut
<1>5. Lost(c)' /\ Begin(c)' = Level(a) + 1 /\ Level(c)' = Level(a)
  <2>1. Lost(c)'
    BY <1>4 DEF Lost
  <2>2. Begin(c)' = Mark(u)' + 1
    BY <1>3, <2>1 DEF Begin
  <2>3. Peak(c)' = u
    BY <1>3, <1>4 DEF Peak, PeakAt
  <2>4. Level(c)' = Mark(u)'
    BY <2>3 DEF Level
  <2> QED BY <1>3, <2>1, <2>2, <2>4
<1>8. /\ Len(running) \in Nat \ {0} /\ DOMAIN running = 1 .. Len(running) /\ running' = running
      /\ running[Len(running)] = c /\ c = cur /\ cur' = c /\ Active' = Active
      /\ \A j \in 1 .. Len(running) : running[j] \in Active /\ (j < Len(running) => running[j] # c)
      /\ \A j \in 2 .. Len(running) : j - 1 \in 1 .. Len(running) /\ j - 1 < Len(running)
                                      /\ j \in 1 .. Len(running)
  BY <1>4, CutRunning
<1>9. \A d \in Active : d # c => /\ Begin(d)' = Begin(d) /\ Lost(d)' = Lost(d) /\ Level(d)' = Level(d)
                                 /\ Level(d) < Begin(c) /\ past'[d] = past[d]
                                 /\ \A k : IsOwn(d, k)' = IsOwn(d, k)
  BY <1>4, CutOthers
<1>10. Begin(c) \in Nat
  BY <1>4, PeakStands
<1>11. \A i \in living' : i \in living /\ Mark(i)' = Mark(i) /\ Mark(i) \in Nat
  BY <1>4, CutLiving
<1>12. Highest'
  <2>1. Level(cur)' = Level(a)
    BY <1>5, <1>8 DEF Level, Peak
  <2> QED BY <1>3, <1>11, <2>1 DEF Highest
<1>13. ASSUME NEW i \in living, Mark(i) < Begin(c), i[1] # c PROVE i \in living'
  BY <1>4, <1>8, <1>13 DEF Left
<1>14. OwnLive'
  <2> SUFFICES ASSUME NEW d \in Active', NEW k \in Nat, IsOwn(d, k)', NEW i, i = <<d, k>>
               PROVE  i \in living' /\ Begin(d)' <= Mark(i)'
    BY DEF OwnLive
  <2>1. d \in Active
    BY <1>8
  <2>2. d # c
    <3> SUFFICES ASSUME d = c PROVE FALSE
      OBVIOUS
    <3>1. k \in DOMAIN chain'[c] /\ n < k
      BY <1>4 DEF IsOwn
    <3>2. k \in 1 .. n
      BY <1>4, <3>1 DEF Cut
    <3> QED BY <1>4, <3>1, <3>2
  <2>3. IsOwn(d, k) /\ Level(d) < Begin(c) /\ Begin(d)' = Begin(d)
    BY <1>9, <2>1, <2>2
  <2>4. i \in living /\ Begin(d) <= Mark(i) /\ Mark(i) <= Level(d) /\ Mark(i) \in Nat /\ Level(d) \in Nat
    BY <2>1, <2>3, OwnIs, PeakStands
  <2>5. i \in living'
    BY <1>10, <1>13, <2>2, <2>3, <2>4
  <2> QED BY <1>11, <2>3, <2>4, <2>5
<1>15. Grounded'
  <2> SUFFICES ASSUME NEW d \in Active', Lost(d)', NEW w, w = past'[d].under
               PROVE  w \in living' /\ w[1] \in Active' /\ IsOwn(w[1], w[2])'
    BY DEF Grounded
  <2>1. CASE d = c
    <3>1. w = u
      BY <1>3, <2>1
    <3>2. IsOwn(w[1], w[2])'
      BY <1>3, <1>9, <3>1
    <3> QED BY <1>3, <1>8, <3>1, <3>2
  <2>2. CASE d # c
    <3>1. d \in Active /\ Lost(d) /\ w = past[d].under
      BY <1>8, <1>9, <2>2
    <3>2. w \in living /\ w[1] \in Active /\ IsOwn(w[1], w[2]) /\ w[1] # c /\ Mark(w) < Begin(c)
      BY <1>8, <3>1, LostStands, UnderIsBelow
    <3>3. IsOwn(w[1], w[2])'
      BY <1>9, <3>2
    <3> QED BY <1>8, <1>13, <3>2, <3>3
  <2> QED BY <2>1, <2>2
<1>19. /\ \A k \in 1 .. Len(running) : k # Len(running) => k < Len(running)
       /\ \A j \in 1 .. Len(running) : j < Len(running) /\ j # Len(running) - 1 =>
              Len(running) - 1 \in 1 .. Len(running) /\ j < Len(running) - 1
  <2>1. PICK r : r = Len(running)
    OBVIOUS
  <2>2. r \in Nat \ {0}
    BY <1>8, <2>1
  <2>3. /\ \A k \in 1 .. r : k # r => k < r
        /\ \A j \in 1 .. r : j < r /\ j # r - 1 => r - 1 \in 1 .. r /\ j < r - 1
    BY <2>2
  <2> QED BY <2>1, <2>3
<1>16. Nested'
  <2> SUFFICES ASSUME NEW k \in 1 .. Len(running), NEW j \in 1 .. k - 1,
                      NEW b, b = running[j], NEW d, d = running[k]
               PROVE  Level(b)' < Begin(d)'
    BY <1>8 DEF Nested
  <2>1. j \in 1 .. Len(running) /\ j < Len(running) /\ j < k
    BY <1>8
  <2>2. Level(b)' = Level(b) /\ b \in Active
    BY <1>8, <1>9, <2>1
  <2>3. CASE k < Len(running)
    <3>1. Begin(d)' = Begin(d)
      BY <1>8, <1>9, <2>3
    <3>2. Level(b) < Begin(d)
      BY <2>1, Rise
    <3> QED BY <2>2, <3>1, <3>2
  <2>4. CASE k = Len(running)
    <3>1. d = c /\ Begin(d)' = Level(a) + 1
      BY <1>5, <1>8, <2>4
    <3>2. Level(b) <= Level(a)
      <4>1. CASE j = Len(running) - 1
        BY <1>3, <4>1
      <4>2. CASE j # Len(running) - 1
        <5>1. Len(running) - 1 \in 1 .. Len(running) /\ j < Len(running) - 1
          BY <1>19, <2>1, <4>2
        <5>2. Level(b) < Begin(a)
          BY <1>3, <2>1, <5>1, Rise
        <5>3. Level(b) \in Nat /\ Begin(a) \in Nat /\ Begin(a) <= Level(a) + 1
          BY <1>3, <2>2, PeakStands
        <5> QED BY <1>3, <5>2, <5>3
      <4> QED BY <4>1, <4>2
    <3>3. Level(b) \in Nat
      BY <2>2, PeakStands
    <3> QED BY <1>3, <2>2, <3>1, <3>2, <3>3
  <2> QED BY <1>19, <2>3, <2>4
<1>17. Adjoined'
  <2> SUFFICES ASSUME NEW k \in 2 .. Len(running), NEW i \in living',
                      NEW b, b = running[k - 1], NEW d, d = running[k], Mark(i)' < Begin(d)'
               PROVE  Mark(i)' <= Level(b)'
    BY <1>8 DEF Adjoined
  <2>1. Level(b)' = Level(b) /\ i \in living /\ Mark(i)' = Mark(i)
    BY <1>8, <1>9, <1>11
  <2>2. CASE k = Len(running)
    BY <1>3, <2>1, <2>2
  <2>3. CASE k # Len(running)
    <3>1. k < Len(running) /\ k \in 1 .. Len(running)
      BY <1>8, <1>19, <2>3
    <3>2. Begin(d)' = Begin(d)
      BY <1>8, <1>9, <3>1
    <3> QED BY <1>0, <2>1, <3>2 DEF Adjoined
  <2> QED BY <2>2, <2>3
<1>18. Floored'
  <2> SUFFICES ASSUME NEW k \in 2 .. Len(running), NEW b, b = running[k - 1], NEW d, d = running[k]
               PROVE  /\ ctx'[d].base < ctx'[d].floor => Level(b)' <= ctx'[d].floor
                      /\ Lost(d)' => Begin(d)' <= ctx'[d].floor + 1
    BY <1>8 DEF Floored
  <2>1. Level(b)' = Level(b) /\ ctx' = ctx
    BY <1>4, <1>8, <1>9 DEF Cut
  <2>2. CASE k = Len(running)
    <3>1. d = c /\ b = a
      BY <1>3, <1>8, <2>2
    <3>2. ctx[c].floor > ctx[c].base
      BY DEF PastCut
    <3>3. ctx[c].base \in Nat /\ ctx[c].floor \in Nat
      <4>1. ctx[c] \in Contexts
        BY <1>0, <1>4, RunningIs DEF TypeOK
      <4> QED BY <4>1 DEF Contexts
    <3>4. Level(b) <= ctx[d].floor
      BY <1>0, <3>1, <3>2, <3>3 DEF Floored
    <3> QED BY <1>3, <1>5, <2>1, <3>1, <3>3, <3>4
  <2>3. CASE k # Len(running)
    <3>1. k < Len(running) /\ k \in 1 .. Len(running)
      BY <1>8, <1>19, <2>3
    <3>2. Begin(d)' = Begin(d) /\ Lost(d)' = Lost(d)
      BY <1>8, <1>9, <3>1
    <3> QED BY <1>0, <2>1, <3>2 DEF Floored
  <2> QED BY <2>2, <2>3
<1>20. past'[c].to <= n
  BY <1>4
<1> QED BY <1>12, <1>14, <1>15, <1>16, <1>17, <1>18, <1>20 DEF Stacked

-----------------------------------------------------------------------------
(* The steps of the trail. *)

LEMMA OfTheTypes ==
    ASSUME TypeOK
    PROVE  /\ top \in Nat /\ top \in 0 .. MaxHeap /\ mem \in [Variables(top) -> Values]
           /\ DOMAIN mem = Variables(top) /\ \A x \in Variables(top) : mem[x] \in Values
           /\ trail \in Seq(Entries) /\ Len(trail) \in Nat /\ word \in Nat
           /\ Sentinel \in Entries /\ IsSentinel(Sentinel) /\ Sentinel.hb = top
           /\ \A v \in Values : v \in Nat
           /\ MaxGen \in Nat /\ MaxHeap \in Nat
<1>1. top \in 0 .. MaxHeap /\ mem \in [Variables(top) -> Values] /\ trail \in Seq(Entries) /\ word \in Nat
  BY DEF TypeOK
<1>2. MaxHeap \in Nat /\ MaxGen \in Nat
  BY Bounds
<1>3. top \in Nat /\ Len(trail) \in Nat
  BY <1>1, <1>2
<1>4. Sentinel \in Entries
  BY <1>2, <1>3 DEF Sentinel, Entries, Values
<1> QED BY <1>1, <1>2, <1>3, <1>4 DEF Sentinel, IsSentinel, Values

LEMMA ContextIs ==
    ASSUME TypeOK, NEW c \in Ctx
    PROVE  /\ ctx[c].park \in {Absent, Going, Answered, Spent} /\ ctx[c].seq \in Nat /\ ctx[c].gen \in Nat
           /\ ctx[c].base \in Nat /\ ctx[c].floor \in Nat /\ ctx[c].keep \in Nat /\ ctx[c].tr \in Nat
           /\ ctx[c] \in Contexts /\ FloorOf(ctx[c]) \in Nat /\ ctx[c].floor <= FloorOf(ctx[c])
<1>1. ctx[c] \in Contexts
  BY DEF TypeOK
<1>2. /\ ctx[c].park \in {Absent, Going, Answered, Spent} /\ ctx[c].seq \in Nat /\ ctx[c].gen \in Nat
      /\ ctx[c].base \in Nat /\ ctx[c].floor \in Nat /\ ctx[c].keep \in Nat /\ ctx[c].tr \in Nat
  BY <1>1 DEF Contexts
<1> QED BY <1>1, <1>2 DEF FloorOf, Higher

LEMMA LastChoiceIs ==
    ASSUME TypeOK, NEW c \in Ctx, chain[c] # <<>>
    PROVE  /\ Len(chain[c]) \in Nat \ {0} /\ Last(chain[c]) = chain[c][Len(chain[c])]
           /\ MarkOf(c) = Mark(<<c, Len(chain[c])>>) /\ MarkOf(c) \in Nat
           /\ MarkOf(c) = Last(chain[c]).mark
<1>1. chain[c] \in Seq(Headers)
  BY ChainsAre
<1>2. Len(chain[c]) \in Nat \ {0}
  BY <1>1, EmptySeq
<1>3. chain[c][Len(chain[c])].mark \in Nat
  BY <1>2, ChainsAre
<1> QED BY <1>2, <1>3 DEF Last, MarkOf, Mark

LEMMA MarkedIs ==
    ASSUME TypeOK, NEW t \in Seq(Entries), NEW m \in Nat
    PROVE  /\ Trimmed(t, m) \in Seq(Entries) /\ Len(Trimmed(t, m)) \in 0 .. Len(t)
           /\ Len(Trimmed(t, m)) \in Nat /\ Len(t) \in Nat
           /\ Marked(t, m) \in Seq(Entries) /\ Len(Marked(t, m)) = Len(Trimmed(t, m)) + 1
<1>1. PICK b \in 0 .. Len(t) : Trimmed(t, m) = SubSeq(t, 1, b)
  BY TrimmedIs
<1>2. Trimmed(t, m) \in Seq(Entries) /\ Len(Trimmed(t, m)) = b /\ b \in Nat
  BY <1>1, PrefixOf
<1>3. Sentinel \in Entries
  BY OfTheTypes
<1> QED BY <1>1, <1>2, <1>3 DEF Marked

Kinds == {"top", "finish", "user", "redo", "unwound"}
IsChoice(d, t, m, k, g, n) ==
    /\ d \in Headers /\ d.mark = Len(Trimmed(t, m)) + 1 /\ d.kind = k /\ d.of = g
    /\ d.gen = n /\ d.snap = mem

LEMMA ChoiceIs ==
    ASSUME TypeOK, NEW t \in Seq(Entries), NEW m \in Nat, NEW k \in Kinds, NEW g \in Ctx, NEW n \in Nat
    PROVE  IsChoice(Choice(t, m, k, g, n), t, m, k, g, n)
<1>1. Len(Trimmed(t, m)) + 1 \in Nat
  BY MarkedIs
<1>2. mem \in UNION {[Variables(h) -> Values] : h \in 0 .. MaxHeap}
  BY OfTheTypes
<1> QED BY <1>1, <1>2 DEF Choice, Headers, IsChoice, Kinds

(* A mark that drops no sentinel of a living choice. *)
LEMMA MarkReaches ==
    ASSUME TypeOK, Strict, NEW L, NEW t \in Seq(Entries), Sound(L, chain, t, mem, top), NEW m \in Nat,
           MayMark(L, t, m)
    PROVE  Reach(L, chain, Len(Trimmed(t, m)))
<1>1. ~SweepsTheLiving(L, t, m)
  BY DEF MayMark
<1>2. Len(Trimmed(t, m)) \in Nat /\ Len(t) \in Nat /\ top \in Nat
  BY MarkedIs, OfTheTypes
<1>3. \A i \in L : chain[i[1]][i[2]].mark \in 1 .. Len(t)
  BY <1>2, SoundMarks
<1>4. \A i \in L : chain[i[1]][i[2]].mark \notin Len(Trimmed(t, m)) + 1 .. Len(t)
  BY <1>1 DEF SweepsTheLiving, Mark
<1> QED BY <1>2, <1>3, <1>4 DEF Reach

LEMMA SoundNew ==
    ASSUME TypeOK, Strict, NEW L, NEW t \in Seq(Entries), Sound(L, chain, t, mem, top), NEW m \in Nat,
           MayMark(L, t, m), NEW c, NEW N, NEW ch, \A i \in L : ch[i[1]][i[2]] = chain[i[1]][i[2]],
           ch[c][N].mark = Len(Trimmed(t, m)) + 1, ch[c][N].snap = mem
    PROVE  /\ Sound(L \cup {<<c, N>>}, ch, Marked(t, m), mem, top)
           /\ \A i \in L : Mark(i) < Len(Trimmed(t, m)) + 1
<1>1. Reach(L, chain, Len(Trimmed(t, m)))
  BY MarkReaches
<1>2. top \in Nat /\ DOMAIN mem = Variables(top) /\ Sentinel \in Entries /\ IsSentinel(Sentinel)
      /\ Sentinel.hb = top
  BY OfTheTypes
<1>3. Sound(L, chain, Trimmed(t, m), mem, top) /\ Trimmed(t, m) \in Seq(Entries)
  BY <1>1, <1>2, SoundTrimmed
<1>4. PICK j : j = <<c, N>>
  OBVIOUS
<1>5. ch[j[1]][j[2]].mark = Len(Trimmed(t, m)) + 1 /\ ch[j[1]][j[2]].snap = mem
  BY <1>4
<1>6. Sound(L \cup {j}, ch, Append(Trimmed(t, m), Sentinel), mem, top)
  BY <1>2, <1>3, <1>5, SoundOpened
<1>7. \A i \in L : Mark(i) < Len(Trimmed(t, m)) + 1
  <2>1. Len(Trimmed(t, m)) \in Nat
    BY MarkedIs
  <2>2. \A i \in L : Mark(i) \in Nat
    BY <1>2, SoundMarks DEF Mark
  <2>3. \A i \in L : Mark(i) <= Len(Trimmed(t, m))
    BY <1>1 DEF Reach, Mark
  <2> QED BY <2>1, <2>2, <2>3
<1> QED BY <1>4, <1>6, <1>7 DEF Marked

(* A choice that is marked and committed at once. *)
LEMMA SoundTried ==
    ASSUME TypeOK, Strict, NEW L, NEW t \in Seq(Entries), Sound(L, chain, t, mem, top),
           NEW o \in Ctx, chain[o] # <<>>, NEW w \in Nat, MayMark(L, t, MarkOf(o)),
           Reach(L, chain, Higher(MarkOf(o), w)),
           o = Main => <<o, Len(chain[o])>> \in L /\ \A i \in L : Mark(i) <= MarkOf(o)
    PROVE  Sound(L, chain, Tried(t, w, o), mem, top) /\ Tried(t, w, o) \in Seq(Entries)
<1>1. PICK m : m = MarkOf(o)
  OBVIOUS
<1>2. m \in Nat /\ m = Last(chain[o]).mark /\ m = Mark(<<o, Len(chain[o])>>)
  BY <1>1, LastChoiceIs
<1>3. /\ top \in Nat /\ DOMAIN mem = Variables(top) /\ Sentinel \in Entries /\ IsSentinel(Sentinel)
  BY OfTheTypes
<1>4. Reach(L, chain, Len(Trimmed(t, m)))
  BY <1>1, <1>2, MarkReaches
<1>5. Sound(L, chain, Trimmed(t, m), mem, top) /\ Trimmed(t, m) \in Seq(Entries)
  BY <1>2, <1>3, <1>4, SoundTrimmed
<1>6. Sound(L, chain, Marked(t, m), mem, top) /\ Marked(t, m) \in Seq(Entries)
  <2>1. Sound(L, chain, Append(Trimmed(t, m), Sentinel), mem, top)
    BY <1>3, <1>5, SoundAppended
  <2> QED BY <1>2, <2>1, MarkedIs DEF Marked
<1>7. PICK n : n = Higher(m, w)
  OBVIOUS
<1>8. n \in Nat /\ Reach(L, chain, n)
  BY <1>1, <1>2, <1>7 DEF Higher
<1>9. ASSUME NEW i \in L, NEW x \in Variables(Marked(t, m)[chain[i[1]][i[2]].mark].hb)
      PROVE  Older(Marked(t, m), o, Last(chain[o]), x)
  <2>1. CASE o # Main
    BY <2>1 DEF Older
  <2>2. CASE o = Main
    <3>1. PICK j : j = <<o, Len(chain[o])>>
      OBVIOUS
    <3>2. j \in L /\ Mark(j) = m /\ Mark(i) <= m /\ chain[j[1]][j[2]].mark = m
      BY <1>1, <1>2, <2>2, <3>1 DEF Mark
    <3>3. Marked(t, m)[chain[i[1]][i[2]].mark].hb <= Marked(t, m)[m].hb
      BY <1>6, <3>2 DEF Sound, Mark
    <3>4. Marked(t, m)[chain[i[1]][i[2]].mark].hb \in Nat /\ Marked(t, m)[m].hb \in Nat
      BY <1>3, <1>6, <3>2, SoundMarks
    <3>5. x \in Goals \/ x \in 1 .. Marked(t, m)[chain[i[1]][i[2]].mark].hb
      BY <1>9 DEF Variables
    <3>6. x \in Goals \/ x <= Marked(t, m)[m].hb
      BY <3>3, <3>4, <3>5
    <3> QED BY <1>2, <3>6 DEF Older
  <2> QED BY <2>1, <2>2
<1>10. /\ Sound(L, chain, Walked(Marked(t, m), n, o, Last(chain[o])), mem, top)
       /\ Walked(Marked(t, m), n, o, Last(chain[o])) \in Seq(Entries)
  BY <1>3, <1>6, <1>8, <1>9, SoundWalked
<1>11. Tried(t, w, o) = Walked(Marked(t, m), n, o, Last(chain[o]))
  BY <1>1, <1>2, <1>7 DEF Tried, Tidy
<1> QED BY <1>10, <1>11

(* What has to stay lies below what the context that runs commits.         *)
LEMMA HighestBound ==
    ASSUME Here
    PROVE  /\ cur \in Ctx /\ chain[cur] # <<>> /\ word = FloorOf(ctx[cur])
           /\ Reach(living, chain, Higher(MarkOf(cur), word))
           /\ (past[cur].to # Len(chain[cur]) =>
                  <<cur, Len(chain[cur])>> \in living /\ \A i \in living : Mark(i) <= MarkOf(cur))
           /\ (cur = Main => past[cur].to # Len(chain[cur]))
<1>0. TypeOK /\ Contexted /\ Highest /\ Floored /\ Shaped /\ Apart
  BY DEF Here, Standing, Stacked
<1>1. cur \in Active /\ cur \in Ctx /\ Len(chain[cur]) \in Nat \ {0} /\ Len(running) \in Nat \ {0}
      /\ cur = running[Len(running)]
  BY <1>0, RunningIs, ActiveIs
<1>2. chain[cur] # <<>> /\ MarkOf(cur) \in Nat /\ MarkOf(cur) = Mark(<<cur, Len(chain[cur])>>)
  <2>1. chain[cur] # <<>>
    BY <1>1
  <2> QED BY <1>0, <1>1, <2>1, LastChoiceIs
<1>3. word = FloorOf(ctx[cur]) /\ word \in Nat /\ ctx[cur].floor \in Nat /\ ctx[cur].floor <= word
  BY <1>0, <1>1, ContextIs DEF Contexted, TypeOK
<1>4. past[cur].to # Len(chain[cur]) =>
          <<cur, Len(chain[cur])>> \in living /\ \A i \in living : Mark(i) <= MarkOf(cur)
  <2> SUFFICES ASSUME past[cur].to # Len(chain[cur])
               PROVE  <<cur, Len(chain[cur])>> \in living /\ \A i \in living : Mark(i) <= MarkOf(cur)
    OBVIOUS
  <2>1. Peak(cur) \in living /\ Peak(cur) = <<cur, Len(chain[cur])>>
    BY <1>1, PeakStands
  <2>2. Level(cur) = MarkOf(cur)
    BY <1>2, <2>1 DEF Level
  <2> QED BY <1>0, <2>1, <2>2 DEF Highest
<1>5. cur = Main => past[cur].to # Len(chain[cur])
  BY <1>0, <1>1 DEF Contexted
<1>6. \A i \in living : Mark(i) <= Higher(MarkOf(cur), word)
  <2>1. CASE past[cur].to # Len(chain[cur])
    <3>1. \A i \in living : Mark(i) <= MarkOf(cur) /\ Mark(i) \in Nat
      BY <1>0, <1>4, <2>1, LivingIs
    <3> QED BY <1>2, <1>3, <3>1 DEF Higher
  <2>2. CASE past[cur].to = Len(chain[cur])
    <3>1. Lost(cur) /\ Peak(cur) = past[cur].under
      BY <1>1, <2>2, PeakStands
    <3>2. Begin(cur) = Level(cur) + 1 /\ Level(cur) \in Nat
      BY <1>1, <3>1, LostStands DEF Level
    <3>3. Len(running) # 1
      <4>1. cur # Main
        BY <1>5, <2>2
      <4> QED BY <1>0, <1>1, <4>1 DEF Contexted
    <3>4. Len(running) \in 2 .. Len(running)
      <4>1. PICK r : r = Len(running)
        OBVIOUS
      <4>2. r \in 2 .. r
        BY <1>1, <3>3, <4>1
      <4> QED BY <4>1, <4>2
    <3>5. Begin(cur) <= ctx[cur].floor + 1
      BY <1>0, <1>1, <3>1, <3>4 DEF Floored
    <3>6. Level(cur) <= word
      BY <1>3, <3>2, <3>5
    <3>7. \A i \in living : Mark(i) <= Level(cur) /\ Mark(i) \in Nat
      BY <1>0, LivingIs DEF Highest
    <3> QED BY <1>2, <1>3, <3>2, <3>6, <3>7 DEF Higher
  <2> QED BY <2>1, <2>2
<1>7. Reach(living, chain, Higher(MarkOf(cur), word))
  BY <1>6 DEF Reach, Mark
<1> QED BY <1>1, <1>2, <1>3, <1>4, <1>5, <1>7

-----------------------------------------------------------------------------
(* Every step keeps the invariant. First those that leave all choices be.  *)

Shift == TypeOK /\ Sound(living, chain, trail, mem, top) /\ Standing /\ Stacked /\ Spliced

LEMMA GoesOn ==
    ASSUME Shift', ended' = "no"
    PROVE  ShiftInv'
BY DEF Shift, Standing, ShiftInv, Chronological

LEMMA ComesToAnEnd ==
    ASSUME TypeOK', Sound(living, chain, trail, mem, top)', Apart', ended' \notin {"no", "astray"}
    PROVE  ShiftInv'
BY DEF ShiftInv, Chronological

LEMMA WhileItRuns ==
    ASSUME ShiftInv, ended = "no"
    PROVE  Shift /\ Here
BY DEF Shift, ShiftInv, Here

LEMMA SteadyKeeps ==
    ASSUME Standing, Stacked, Spliced, UNCHANGED <<chain, ctx, running, living, past, word>>
    PROVE  Standing' /\ Stacked' /\ Spliced'
<1>0. chain' = chain /\ ctx' = ctx /\ running' = running /\ living' = living /\ past' = past /\ word' = word
  OBVIOUS
<1>1. cur' = cur /\ Active' = Active
  BY <1>0 DEF cur, Active
<1>2. Contexted'
  BY <1>0, <1>1 DEF Standing, Contexted, FloorOf
<1>3. Shaped' /\ Apart'
  BY <1>0 DEF Standing, Shaped, Apart, Mark
<1>4. /\ \A c : /\ LastShift(c)' = LastShift(c) /\ Lost(c)' = Lost(c) /\ Begin(c)' = Begin(c)
                /\ Level(c)' = Level(c)
      /\ \A c, n : IsOwn(c, n)' = IsOwn(c, n) /\ Returns(c, n)' = Returns(c, n)
                   /\ PeakAt(c, n)' = PeakAt(c, n)
      /\ \A i : Mark(i)' = Mark(i) /\ Kind(i)' = Kind(i)
  <2>1. \A c : LastShift(c)' = LastShift(c) /\ Lost(c)' = Lost(c) /\ Begin(c)' = Begin(c)
    BY <1>0 DEF LastShift, Lost, Begin, Mark
  <2>2. \A c, n : IsOwn(c, n)' = IsOwn(c, n) /\ PeakAt(c, n)' = PeakAt(c, n)
    BY <1>0, <2>1 DEF IsOwn, PeakAt
  <2>3. \A c : Level(c)' = Level(c)
    BY <1>0 DEF Level, Peak, PeakAt, Mark
  <2>4. \A c, n : Returns(c, n)' = Returns(c, n)
    BY <1>0, <1>1, <2>1 DEF Returns
  <2>5. \A i : Mark(i)' = Mark(i) /\ Kind(i)' = Kind(i)
    BY <1>0 DEF Mark, Kind
  <2> QED BY <2>1, <2>2, <2>3, <2>4, <2>5
<1>5. Highest'
  <2>1. Level(cur)' = Level(cur)
    BY <1>0, <1>1 DEF Level, Peak, PeakAt, Mark
  <2> QED BY <1>0, <1>4, <2>1 DEF Stacked, Highest
<1>6. OwnLive' /\ Grounded'
  BY <1>0, <1>1 DEF Stacked, OwnLive, Grounded, IsOwn, Begin, Lost, LastShift, Mark
<1>7. Nested' /\ Adjoined' /\ Floored'
  BY <1>0, <1>1 DEF Stacked, Nested, Adjoined, Floored, Level, Peak, PeakAt, Begin, Lost, LastShift, Mark
<1>8. UserNext'
  BY <1>0, <1>1 DEF Spliced, UserNext, NoneBetween, PeakAt, Returns, Lost, LastShift, Mark, Kind
<1>9. RedoNext'
  <2> SUFFICES ASSUME NEW i \in living', Kind(i)' = "redo", Returns(i[1], i[2] - 1)',
                      NEW h, h = chain'[i[1]][i[2]].of, NEW m, m = chain'[i[1]][i[2]].gen,
                      NEW n \in 1 .. Len(chain'[h]),
                      Back(h, m, n)', past'[h].to < ShiftIn(chain'[h], n)
               PROVE  Spans(i, h, n)'
    BY DEF RedoNext
  <2>1. i \in living /\ Kind(i) = "redo" /\ Returns(i[1], i[2] - 1)
    BY <1>0, <1>4
  <2>2. /\ h = chain[i[1]][i[2]].of /\ m = chain[i[1]][i[2]].gen /\ n \in 1 .. Len(chain[h])
        /\ Back(h, m, n) /\ past[h].to < ShiftIn(chain[h], n)
    BY <1>0 DEF Back
  <2>3. Spans(i, h, n)
    BY <2>1, <2>2 DEF Spliced, RedoNext
  <2>4. \A j, k : NoneBetween(j, k)' = NoneBetween(j, k)
    BY <1>0 DEF NoneBetween, Mark
  <2>5. PICK v : v = PeakAt(i[1], i[2] - 1)
    OBVIOUS
  <2>6. v = PeakAt(i[1], i[2] - 1)'
    BY <1>0, <2>5 DEF PeakAt
  <2>7. PICK p : p = ShiftIn(chain[h], n)
    OBVIOUS
  <2>8. p = ShiftIn(chain'[h], n)
    BY <1>0, <2>7
  <2>9. /\ \A q \in p .. n : <<h, q>> \in living
        /\ NoneBetween(<<h, n>>, i) /\ NoneBetween(v, <<h, p>>)
    BY <2>3, <2>5, <2>7 DEF Spans
  <2>10. /\ \A q \in p .. n : <<h, q>> \in living'
         /\ NoneBetween(<<h, n>>, i)' /\ NoneBetween(v, <<h, p>>)'
    BY <1>0, <2>4, <2>9
  <2> QED BY <2>6, <2>8, <2>10 DEF Spans
<1> QED BY <1>2, <1>3, <1>5, <1>6, <1>7, <1>8, <1>9 DEF Standing, Stacked, Spliced

LEMMA NewVarKeeps ==
    ASSUME ShiftInv, NewVar
    PROVE  ShiftInv'
<1>1. /\ ended = "no" /\ top < MaxHeap /\ top' = top + 1
      /\ mem' = [x \in DOMAIN mem \cup {top + 1} |-> IF x = top + 1 THEN 0 ELSE mem[x]]
      /\ UNCHANGED <<trail, word, chain, living, past, ctx, running, failing, ended>>
  BY DEF NewVar, Runs, Stays
<1>2. Shift /\ TypeOK
  BY <1>1, WhileItRuns DEF Here
<1>3. /\ top \in Nat /\ top \in 0 .. MaxHeap /\ mem \in [Variables(top) -> Values] /\ MaxHeap \in Nat
      /\ DOMAIN mem = Variables(top) /\ \A x \in Variables(top) : mem[x] \in Values
      /\ trail \in Seq(Entries) /\ MaxGen \in Nat
  BY <1>2, OfTheTypes
<1>4. top' \in 0 .. MaxHeap /\ top' \in Nat
  BY <1>1, <1>3
<1>5. Variables(top) \cup {top + 1} = Variables(top')
  <2>1. 1 .. (top + 1) = (1 .. top) \cup {top + 1}
    BY <1>3
  <2> QED BY <1>1, <2>1 DEF Variables
<1>6. mem' \in [Variables(top') -> Values]
  <2>1. 0 \in Values
    BY <1>3 DEF Values
  <2> QED BY <1>1, <1>3, <1>5, <2>1
<1>7. TypeOK'
  BY <1>1, <1>2, <1>4, <1>6 DEF TypeOK
<1>8. Sound(living, chain, trail, mem, top)'
  <2>1. Sound(living, chain, trail, mem, top)
    BY <1>2 DEF Shift
  <2>2. ASSUME NEW i \in living, NEW x \in Variables(trail[chain[i[1]][i[2]].mark].hb)
        PROVE  mem'[x] = mem[x]
    <3>1. PICK h : h = trail[chain[i[1]][i[2]].mark].hb
      OBVIOUS
    <3>2. h \in Nat /\ h <= top
      <4>1. h <= top
        BY <2>1, <3>1 DEF Sound
      <4>2. h \in Nat
        BY <1>3, <2>1, <3>1, SoundMarks
      <4> QED BY <4>1, <4>2
    <3>3. x \in Goals \/ x \in 1 .. h
      BY <2>2, <3>1 DEF Variables
    <3>4. x \in Variables(top) /\ x # top + 1
      <4>1. CASE x \in Goals
        <5>1. top + 1 \in 0 .. MaxHeap
          BY <1>1, <1>3
        <5> QED BY <4>1, <5>1, Bounds DEF Variables
      <4>2. CASE x \in 1 .. h
        BY <1>3, <3>2, <4>2 DEF Variables
      <4> QED BY <3>3, <4>1, <4>2
    <3> QED BY <1>1, <1>3, <3>4
  <2>3. top <= top'
    BY <1>1, <1>3
  <2>4. Sound(living, chain, trail, mem', top')
    BY <1>3, <1>4, <2>1, <2>2, <2>3, SoundYoung
  <2> QED BY <1>1, <2>4
<1>9. Standing' /\ Stacked' /\ Spliced'
  BY <1>1, <1>2, SteadyKeeps DEF Shift
<1> QED BY <1>1, <1>7, <1>8, <1>9, GoesOn DEF Shift

LEMMA EntryIs ==
    ASSUME TypeOK, NEW x \in DOMAIN mem
    PROVE  /\ Entry(x) \in Entries /\ Entry(x).old = mem[x] /\ Entry(x).cell = x
           /\ mem[x] \in Values
<1>1. /\ top \in 0 .. MaxHeap /\ MaxHeap \in Nat /\ DOMAIN mem = Variables(top)
      /\ \A y \in Variables(top) : mem[y] \in Values
  BY OfTheTypes
<1>2. x \in Goals \cup 0 .. MaxHeap /\ mem[x] \in Values
  BY <1>1 DEF Variables
<1>3. Entry(x) \in Entries
  BY <1>2 DEF Entry, Entries
<1> QED BY <1>2, <1>3 DEF Entry

LEMMA BindKeeps ==
    ASSUME ShiftInv, NEW x \in DOMAIN mem \ Goals, Bind(x)
    PROVE  ShiftInv'
<1>1. /\ ended = "no" /\ mem' = [mem EXCEPT ![x] = 1]
      /\ trail' = IF Older(trail, cur, B, x) THEN Append(trail, Entry(x)) ELSE trail
      /\ UNCHANGED <<top, word, chain, living, past, ctx, running, failing, ended>>
  BY DEF Bind, Runs, Stays
<1>2. Shift /\ TypeOK /\ Here
  BY <1>1, WhileItRuns DEF Here
<1>3. /\ top \in Nat /\ mem \in [Variables(top) -> Values] /\ DOMAIN mem = Variables(top)
      /\ trail \in Seq(Entries) /\ MaxGen \in Nat
  BY <1>2, OfTheTypes
<1>4. /\ Entry(x) \in Entries /\ Entry(x).old = mem[x] /\ Entry(x).cell = x
  BY <1>2, EntryIs
<1>5. mem' \in [Variables(top) -> Values] /\ trail' \in Seq(Entries)
  <2>1. 1 \in Values
    BY <1>3 DEF Values
  <2> QED BY <1>1, <1>3, <1>4, <2>1
<1>6. TypeOK'
  BY <1>1, <1>2, <1>5 DEF TypeOK
<1>7. Sound(living, chain, trail, mem, top)
  BY <1>2 DEF Shift
<1>8. \A y \in Variables(top) : y # x => mem'[y] = mem[y]
  BY <1>1, <1>3
<1>9. Sound(living, chain, trail', mem', top)
  <2>1. CASE Older(trail, cur, B, x)
    <3>1. \A y \in Variables(top) : Entry(x).cell # y => mem'[y] = mem[y]
      BY <1>4, <1>8
    <3>2. Sound(living, chain, Append(trail, Entry(x)), mem', top)
      BY <1>3, <1>4, <1>7, <3>1, SoundAppended
    <3> QED BY <1>1, <2>1, <3>2
  <2>2. CASE ~Older(trail, cur, B, x)
    <3>1. cur = Main /\ ~(x <= trail[B.mark].hb)
      BY <2>2 DEF Older
    <3>2. PICK j : j = <<cur, Len(chain[cur])>>
      OBVIOUS
    <3>3. j \in living /\ \A i \in living : Mark(i) <= Mark(j)
      BY <1>2, <3>1, <3>2, HighestBound, LastChoiceIs
    <3>4. B.mark = chain[j[1]][j[2]].mark
      BY <3>2 DEF B, Last
    <3>5. ASSUME NEW i \in living, NEW y \in Variables(trail[chain[i[1]][i[2]].mark].hb)
          PROVE  y # x /\ y \in Variables(top)
      <4>1. PICK h, b : h = trail[chain[i[1]][i[2]].mark].hb /\ b = trail[B.mark].hb
        OBVIOUS
      <4>2. PICK x1, x2 : x1 = chain[i[1]][i[2]].mark /\ x2 = chain[j[1]][j[2]].mark
        OBVIOUS
      <4>3. h <= b /\ h <= top /\ h \in Nat /\ b \in Nat
        <5>1. x1 <= x2 /\ h = trail[x1].hb /\ b = trail[x2].hb
          BY <3>3, <3>4, <4>1, <4>2 DEF Mark
        <5> QED BY <1>3, <1>7, <3>3, <4>2, <5>1, SoundOrdered
      <4>4. y \in Goals \/ y \in 1 .. h
        BY <3>5, <4>1 DEF Variables
      <4>5. x \in 1 .. top /\ x \notin Goals
        BY <1>3 DEF Variables
      <4>6. ~(x <= b)
        BY <3>1, <4>1
      <4>7. y \in Goals \/ y \in 1 .. top
        BY <1>3, <4>3, <4>4
      <4>8. y # x
        BY <1>3, <4>3, <4>4, <4>5, <4>6
      <4> QED BY <4>7, <4>8 DEF Variables
    <3>6. \A i \in living : \A y \in Variables(trail[chain[i[1]][i[2]].mark].hb) : mem'[y] = mem[y]
      BY <1>8, <3>5
    <3>7. top <= top
      BY <1>3
    <3>8. Sound(living, chain, trail, mem', top)
      BY <1>3, <1>7, <3>6, <3>7, SoundYoung
    <3> QED BY <1>1, <2>2, <3>8
  <2> QED BY <2>1, <2>2
<1>10. Sound(living, chain, trail, mem, top)'
  BY <1>1, <1>9
<1>11. Standing' /\ Stacked' /\ Spliced'
  BY <1>1, <1>2, SteadyKeeps DEF Shift
<1> QED BY <1>1, <1>6, <1>10, <1>11, GoesOn DEF Shift

-----------------------------------------------------------------------------
(* The steps that open a choice. *)

Longer(p, d) == [chain EXCEPT ![p] = Append(@, d)]

(* q is the chains with d put on top of that of p, as its N-th choice. *)
IsLonger(q, p, d, N) ==
    /\ q \in [Ctx -> Seq(Headers)] /\ Len(q[p]) = N /\ q[p][N] = d /\ N \in Nat \ {0}
    /\ \A n \in 1 .. N - 1 : q[p][n] = chain[p][n]
    /\ \A c \in Ctx \ {p} : q[c] = chain[c]
    /\ \A i \in living : q[i[1]][i[2]] = chain[i[1]][i[2]]

LEMMA LongerIs ==
    ASSUME TypeOK, Apart, NEW p \in Ctx, NEW d \in Headers
    PROVE  IsLonger(Longer(p, d), p, d, Len(chain[p]) + 1)
<1> DEFINE q == Longer(p, d)
<1> DEFINE N == Len(chain[p]) + 1
<1>1. chain \in [Ctx -> Seq(Headers)] /\ chain[p] \in Seq(Headers) /\ Len(chain[p]) \in Nat
  BY DEF TypeOK
<1>2. q[p] = Append(chain[p], d) /\ \A c \in Ctx \ {p} : q[c] = chain[c]
  BY <1>1 DEF Longer
<1>3. /\ q[p] \in Seq(Headers) /\ Len(q[p]) = N /\ q[p][N] = d
      /\ \A n \in 1 .. N - 1 : q[p][n] = chain[p][n]
  BY <1>1, <1>2
<1>4. ASSUME NEW i \in living PROVE q[i[1]][i[2]] = chain[i[1]][i[2]]
  <2>1. i[1] \in Ctx /\ i[2] \in 1 .. Len(chain[i[1]])
    BY LivingIs
  <2>2. CASE i[1] = p
    BY <1>1, <1>3, <2>1, <2>2
  <2>3. CASE i[1] # p
    BY <1>2, <2>1, <2>3
  <2> QED BY <2>2, <2>3
<1>5. q \in [Ctx -> Seq(Headers)]
  BY <1>1, <1>2, <1>3 DEF Longer
<1> QED BY <1>1, <1>2, <1>3, <1>4, <1>5 DEF IsLonger

LEMMA OntoIs ==
    ASSUME TypeOK, Apart, NEW p \in Ctx, NEW d \in Headers, NEW N, N = Len(chain[p]) + 1,
           chain' = Longer(p, d), past' = past,
           living' = living \cup {<<p, N>>}, \A i \in living : Mark(i) < d.mark,
           running' \in Seq(Ctx), running' # <<>>, running'[Len(running')] = p,
           \A j \in 1 .. Len(running') - 1 : j <= Len(running) /\ running'[j] = running[j]
    PROVE  /\ Onto(p, N) /\ chain'[p][N] = d /\ chain' \in [Ctx -> Seq(Headers)]
           /\ living' \subseteq Ctx \X Nat
<1>1. PICK q : q = chain'
  OBVIOUS
<1>2. IsLonger(q, p, d, N)
  <2>1. IsLonger(Longer(p, d), p, d, Len(chain[p]) + 1)
    BY LongerIs
  <2> QED BY <1>1, <2>1
<1>3. /\ q \in [Ctx -> Seq(Headers)] /\ Len(q[p]) = N /\ q[p][N] = d /\ N \in Nat \ {0}
      /\ \A n \in 1 .. N - 1 : q[p][n] = chain[p][n]
      /\ \A c \in Ctx \ {p} : q[c] = chain[c]
  BY <1>2 DEF IsLonger
<1>4. living' \subseteq Ctx \X Nat
  BY <1>3 DEF TypeOK
<1>5. q[p] \in Seq(Headers)
  BY <1>3
<1> QED BY <1>1, <1>3, <1>4, <1>5 DEF Onto

(* A $reset_redo finds its goal in no other place than before. *)
BackOnly(h, m) ==
    \A n \in 1 .. Len(chain'[h]) : Back(h, m, n)' => n \in 1 .. Len(chain[h]) /\ Back(h, m, n)

LEMMA BackOnlySame ==
    ASSUME NEW h, NEW m, chain'[h] = chain[h], ctx'[h].park = ctx[h].park, ctx'[h].gen = ctx[h].gen
    PROVE  BackOnly(h, m)
BY DEF BackOnly, Back

LEMMA BackOnlyPushed ==
    ASSUME TypeOK, NEW h \in Ctx, NEW m, NEW N, Onto(h, N), ctx'[h].park = Going,
           chain'[h][N].kind # "unwound"
    PROVE  BackOnly(h, m)
<1> SUFFICES ASSUME NEW n \in 1 .. Len(chain'[h]), Back(h, m, n)'
             PROVE  n \in 1 .. Len(chain[h]) /\ Back(h, m, n)
  BY DEF BackOnly
<1>1. n + 1 \in DOMAIN chain'[h] /\ chain'[h][n + 1].kind = "unwound" /\ chain'[h][n + 1].gen = m
  BY DEF Back, Going, Answered, Spent
<1>2. /\ Len(chain'[h]) = N /\ N = Len(chain[h]) + 1 /\ Len(chain[h]) \in Nat
      /\ DOMAIN chain[h] = 1 .. Len(chain[h]) /\ chain'[h] \in Seq(Headers)
  BY ChainsAre DEF Onto
<1>3. DOMAIN chain'[h] = 1 .. N
  BY <1>2
<1>4. n + 1 \in 1 .. Len(chain[h]) /\ n \in 1 .. Len(chain[h])
  BY <1>1, <1>2, <1>3
<1>5. chain'[h][n + 1] = chain[h][n + 1]
  BY <1>2, <1>4 DEF Onto
<1> QED BY <1>1, <1>2, <1>4, <1>5 DEF Back

LEMMA NoNewBackIs ==
    ASSUME Here, \A h \in Goals : \A m \in Nat : m <= ctx[h].seq => BackOnly(h, m)
    PROVE  NoNewBack
<1> SUFFICES ASSUME NEW i \in living, Kind(i) = "redo"
             PROVE  /\ chain[i[1]][i[2]].of \in Goals
                    /\ BackOnly(chain[i[1]][i[2]].of, chain[i[1]][i[2]].gen)
  BY DEF NoNewBack, BackOnly
<1>1. TypeOK /\ Apart /\ Shaped
  BY DEF Here, Standing
<1>2. i[1] \in Ctx /\ i[2] \in DOMAIN chain[i[1]]
  BY <1>1, LivingIs DEF Apart
<1>3. chain[i[1]][i[2]].of \in Goals /\ chain[i[1]][i[2]].gen <= ctx[chain[i[1]][i[2]].of].seq
  BY <1>1, <1>2 DEF Shaped, Kind
<1>4. chain[i[1]][i[2]].gen \in Nat
  BY <1>1, <1>2, GenIsNat DEF GenOfChoice
<1> QED BY <1>3, <1>4

LEMMA OpenKeeps ==
    ASSUME ShiftInv, Strict, Open
    PROVE  ShiftInv'
<1>1. PICK p, N, m, k, d : p = cur /\ N = Len(chain[p]) + 1 /\ m = MarkOf(p) /\ k = "user"
                           /\ d = Choice(trail, m, k, p, 0)
  OBVIOUS
<1>2. /\ ended = "no" /\ MayMark(living, trail, m) /\ trail' = Marked(trail, m)
      /\ chain' = Longer(p, d) /\ living' = living \cup {<<p, N>>}
      /\ UNCHANGED <<mem, top, word, past, ctx, running, failing, ended>>
  BY <1>1 DEF Open, Runs, Stays, Longer
<1>3. Shift /\ TypeOK /\ Here /\ Contexted /\ Shaped /\ Apart
  BY <1>2, WhileItRuns DEF Here, Standing
<1>4. /\ p \in Ctx /\ p \in Active /\ chain[p] # <<>> /\ word = FloorOf(ctx[p])
      /\ Len(running) \in Nat \ {0} /\ p = running[Len(running)] /\ running \in Seq(Ctx) /\ running # <<>>
  BY <1>1, <1>3, HighestBound, RunningIs DEF TypeOK
<1>5. m \in Nat
  BY <1>1, <1>3, <1>4, LastChoiceIs
<1>6. trail \in Seq(Entries) /\ trail' \in Seq(Entries)
  BY <1>2, <1>3, <1>5, MarkedIs, OfTheTypes
<1>7. d \in Headers /\ d.mark = Len(Trimmed(trail, m)) + 1 /\ d.kind = k /\ d.snap = mem
  <2>1. k \in Kinds /\ 0 \in Nat
    BY <1>1 DEF Kinds
  <2>2. IsChoice(Choice(trail, m, k, p, 0), trail, m, k, p, 0)
    BY <1>3, <1>4, <1>5, <1>6, <2>1, ChoiceIs
  <2> QED BY <1>1, <2>2 DEF IsChoice
<1>8. PICK q : q = chain'
  OBVIOUS
<1>9. q[p][N] = d /\ \A i \in living : q[i[1]][i[2]] = chain[i[1]][i[2]]
  <2>1. IsLonger(Longer(p, d), p, d, Len(chain[p]) + 1)
    BY <1>3, <1>4, <1>7, LongerIs
  <2> QED BY <1>1, <1>2, <1>8, <2>1 DEF IsLonger
<1>10. Sound(living, chain, trail, mem, top)
  BY <1>3 DEF Shift
<1>11. /\ Sound(living \cup {<<p, N>>}, q, Marked(trail, m), mem, top)
       /\ \A i \in living : Mark(i) < d.mark
  BY <1>2, <1>3, <1>5, <1>6, <1>7, <1>9, <1>10, SoundNew
<1>12. Sound(living, chain, trail, mem, top)'
  BY <1>2, <1>8, <1>11
<1>13. Onto(p, N) /\ chain'[p][N] = d /\ chain' \in [Ctx -> Seq(Headers)] /\ living' \subseteq Ctx \X Nat
  <2>1. /\ running' \in Seq(Ctx) /\ running' # <<>> /\ running'[Len(running')] = p
        /\ \A j \in 1 .. Len(running') - 1 : j <= Len(running) /\ running'[j] = running[j]
    BY <1>2, <1>4
  <2>2. past' = past
    BY <1>2
  <2> QED BY <1>1, <1>2, <1>3, <1>4, <1>7, <1>11, <2>1, <2>2, OntoIs
<1>14. TypeOK'
  BY <1>2, <1>3, <1>6, <1>13 DEF TypeOK
<1>15. Again(p, N)
  BY <1>1, <1>2, <1>4, <1>7, <1>13 DEF Again
<1>16. N \in Nat \ {0} /\ N # 1
  BY <1>1, <1>3, <1>4, LastChoiceIs
<1>17. Fits(p, N, chain'[p][N], ctx')
  BY <1>1, <1>7, <1>13, <1>16 DEF Fits
<1>18. Later(ctx, ctx')
  BY <1>2, <1>3, ContextIs DEF Later, Ctx
<1>19. NoNewBack
  <2>1. ASSUME NEW h \in Goals, NEW g PROVE BackOnly(h, g)
    <3>1. CASE h # p
      <4>1. chain'[h] = chain[h]
        BY <1>13, <2>1, <3>1 DEF Onto, Ctx
      <4> QED BY <1>2, <4>1, BackOnlySame
    <3>2. CASE h = p
      <4>1. ctx'[h].park = Going
        BY <1>2, <1>3, <1>4, <2>1, <3>2 DEF Contexted
      <4>2. chain'[h][N].kind # "unwound" /\ Onto(h, N) /\ h \in Ctx
        BY <1>1, <1>4, <1>7, <1>13, <3>2
      <4> QED BY <1>3, <4>1, <4>2, BackOnlyPushed
    <3> QED BY <3>1, <3>2
  <2> QED BY <1>3, <2>1, NoNewBackIs
<1>20. Stacked' /\ Spliced' /\ Shaped' /\ Apart'
  <2>1. UserNext /\ RedoNext
    BY <1>3 DEF Shift, Spliced
  <2>2. NewRedo(p, N)
    BY <1>1, <1>7, <1>13 DEF NewRedo
  <2>3. \A c \in Active : ctx'[c].base = ctx[c].base /\ ctx'[c].floor = ctx[c].floor
    BY <1>2
  <2>4. ~Anew(p, N)
    BY <1>4 DEF Anew
  <2> QED BY <1>1, <1>3, <1>15, <1>13, <1>17, <1>18, <1>19, <2>1, <2>2, <2>3, <2>4, PushKeeps
<1>21. Contexted'
  <2>1. Active' = Active /\ cur' = cur
    BY <1>2 DEF Active, cur
  <2>2. \A c \in Ctx : chain'[c] = <<>> <=> chain[c] = <<>>
    <3>1. chain'[p] # <<>>
      BY <1>13, <1>16 DEF Onto
    <3> QED BY <1>4, <1>13, <3>1 DEF Onto
  <2> QED BY <1>2, <1>3, <2>1, <2>2 DEF Contexted, Ctx
<1> QED BY <1>2, <1>12, <1>14, <1>20, <1>21, GoesOn DEF Shift, Standing

(* The goal that is started, or goes on, runs on top of its creator. *)
LEMMA AppendRunning ==
    ASSUME TypeOK, Contexted, NEW g \in Ctx, g \notin Active, running' = Append(running, g)
    PROVE  /\ running' \in Seq(Ctx) /\ running' # <<>> /\ running'[Len(running')] = g /\ cur' = g
           /\ \A j \in 1 .. Len(running') - 1 : j <= Len(running) /\ running'[j] = running[j]
           /\ Active' = Active \cup {g} /\ Len(running') = Len(running) + 1
<1>1. running \in Seq(Ctx) /\ Len(running) \in Nat /\ DOMAIN running = 1 .. Len(running)
  BY DEF TypeOK
<1>2. PICK r, s : r = running' /\ s = Len(running)
  OBVIOUS
<1>3. /\ r \in Seq(Ctx) /\ Len(r) = s + 1 /\ r[s + 1] = g /\ s \in Nat /\ DOMAIN r = 1 .. s + 1
      /\ \A j \in 1 .. s : r[j] = running[j]
  BY <1>1, <1>2
<1>4. r # <<>> /\ r[Len(r)] = g /\ Last(r) = g
  BY <1>3 DEF Last
<1>5. \A j \in 1 .. Len(r) - 1 : j <= s /\ r[j] = running[j]
  BY <1>3
<1>6. Active' = Active \cup {g}
  <2>1. \A j \in 1 .. s + 1 : j \in 1 .. s \/ j = s + 1
    BY <1>3
  <2>2. s + 1 \in 1 .. s + 1 /\ \A j \in 1 .. s : j \in 1 .. s + 1
    BY <1>3
  <2> QED BY <1>1, <1>2, <1>3, <2>1, <2>2 DEF Active
<1> QED BY <1>2, <1>3, <1>4, <1>5, <1>6 DEF cur

LEMMA AnewContexted ==
    ASSUME Here, NEW g \in Goals, NEW N, Onto(g, N), Anew(g, N), running' = Append(running, g),
           ctx' \in [Ctx -> Contexts], \A c \in Ctx \ {g} : ctx'[c] = ctx[c],
           ctx'[g].park = Going, ctx'[g].gen = ctx[g].gen, ctx'[g].seq = ctx[g].seq,
           word' = FloorOf(ctx'[g])
    PROVE  Contexted' /\ Later(ctx, ctx')
<1>1. TypeOK /\ Contexted
  BY DEF Here, Standing
<1>2. g \in Ctx /\ g # Main /\ Main \in Ctx /\ Goals \subseteq Ctx
  BY Bounds DEF Ctx
<1>3. Active' = Active \cup {g} /\ cur' = g
  BY <1>1, <1>2, AppendRunning DEF Anew
<1>4. running'[1] = Main /\ \A j, k \in DOMAIN running' : running'[j] = running'[k] => j = k
  BY PushRunning
<1>5. \A c \in Ctx \ {g} : chain'[c] = chain[c]
  BY DEF Onto
<1>6. chain'[g] # <<>>
  <2>1. Len(chain'[g]) = Len(chain[g]) + 1 /\ Len(chain[g]) \in Nat /\ chain'[g] \in Seq(Headers)
    BY <1>1, <1>2, ChainsAre DEF Onto
  <2> QED BY <2>1
<1>7. past' = past
  BY DEF Onto
<1>8. \A h \in Goals : /\ h \in Active' <=> ctx'[h].park = Going
                       /\ chain'[h] = <<>> <=> ctx'[h].park = Absent
                       /\ ctx'[h].gen <= ctx'[h].seq
  <2>1. SUFFICES ASSUME NEW h \in Goals
                 PROVE  /\ h \in Active' <=> ctx'[h].park = Going
                        /\ chain'[h] = <<>> <=> ctx'[h].park = Absent
                        /\ ctx'[h].gen <= ctx'[h].seq
    OBVIOUS
  <2>2. /\ h \in Active <=> ctx[h].park = Going
        /\ chain[h] = <<>> <=> ctx[h].park = Absent
        /\ ctx[h].gen <= ctx[h].seq
    BY <1>1 DEF Contexted
  <2>3. CASE h = g
    BY <1>3, <1>6, <2>2, <2>3 DEF Going, Absent
  <2>4. CASE h # g
    <3>1. h \in Ctx \ {g}
      BY <1>2, <2>4
    <3>2. ctx'[h] = ctx[h] /\ chain'[h] = chain[h]
      BY <1>5, <3>1
    <3> QED BY <1>3, <2>2, <2>4, <3>2
  <2> QED BY <2>3, <2>4
<1>9. chain'[Main] # <<>> /\ past'[Main].to = 0
  BY <1>1, <1>2, <1>5, <1>7 DEF Contexted
<1>10. Later(ctx, ctx')
  <2>1. ASSUME NEW h \in Goals PROVE ctx'[h].seq = ctx[h].seq /\ ctx[h].seq \in Nat
    <3>1. ctx[h].seq \in Nat /\ h \in Ctx
      BY <1>1, <1>2, ContextIs
    <3> QED BY <3>1
  <2> QED BY <2>1 DEF Later
<1> QED BY <1>3, <1>4, <1>8, <1>9, <1>10 DEF Contexted

LEMMA StartKeeps ==
    ASSUME ShiftInv, Strict, NEW g \in Goals, Start(g)
    PROVE  ShiftInv'
<1>1. PICK p, m, k, d, at : p = cur /\ m = MarkOf(p) /\ k = "finish"
                           /\ d = Choice(trail, m, k, g, 0) /\ at = Len(Trimmed(trail, m)) + 1
  OBVIOUS
<1>2. /\ ended = "no" /\ MayMark(living, trail, m) /\ trail' = Marked(trail, m)
      /\ ctx[g].park = Absent /\ word' = at
      /\ ctx' = [ctx EXCEPT ![g] = [@ EXCEPT !.park = Going, !.base = at, !.floor = at,
                                             !.keep = 0, !.tr = at]]
      /\ chain' = [chain EXCEPT ![g] = <<d>>] /\ living' = living \cup {<<g, 1>>}
      /\ running' = Append(running, g)
      /\ UNCHANGED <<mem, top, past, failing, ended>>
  BY <1>1 DEF Start, Runs
<1>3. Shift /\ TypeOK /\ Here /\ Contexted /\ Shaped /\ Apart
  BY <1>2, WhileItRuns DEF Here, Standing
<1>4. p \in Ctx /\ chain[p] # <<>> /\ Goals \subseteq Ctx /\ g \in Ctx
  BY <1>1, <1>3, HighestBound DEF Ctx
<1>5. m \in Nat
  BY <1>1, <1>3, <1>4, LastChoiceIs
<1>6. /\ trail \in Seq(Entries) /\ trail' \in Seq(Entries) /\ at \in Nat
  BY <1>1, <1>2, <1>3, <1>5, MarkedIs, OfTheTypes
<1>7. g \notin Active /\ chain[g] = <<>>
  BY <1>2, <1>3 DEF Contexted, Absent, Going
<1>8. d \in Headers /\ d.mark = at /\ d.kind = k /\ d.snap = mem
  <2>1. k \in Kinds /\ 0 \in Nat
    BY <1>1 DEF Kinds
  <2>2. IsChoice(Choice(trail, m, k, g, 0), trail, m, k, g, 0)
    BY <1>3, <1>4, <1>5, <1>6, <2>1, ChoiceIs
  <2> QED BY <1>1, <2>2 DEF IsChoice
<1>9. chain' = Longer(g, d) /\ Len(chain[g]) + 1 = 1
  <2>1. Append(chain[g], d) = <<d>> /\ Len(chain[g]) = 0
    BY <1>7
  <2> QED BY <1>2, <2>1 DEF Longer
<1>10. PICK q : q = chain'
  OBVIOUS
<1>11. q[g][1] = d /\ \A i \in living : q[i[1]][i[2]] = chain[i[1]][i[2]]
  <2>1. IsLonger(Longer(g, d), g, d, Len(chain[g]) + 1)
    BY <1>3, <1>4, <1>8, LongerIs
  <2> QED BY <1>9, <1>10, <2>1 DEF IsLonger
<1>12. Sound(living, chain, trail, mem, top)
  BY <1>3 DEF Shift
<1>13. /\ Sound(living \cup {<<g, 1>>}, q, Marked(trail, m), mem, top)
       /\ \A i \in living : Mark(i) < d.mark
  <2>1. PICK N : N = 1
    OBVIOUS
  <2>2. q[g][N].mark = Len(Trimmed(trail, m)) + 1 /\ q[g][N].snap = mem
    BY <1>1, <1>8, <1>11, <2>1
  <2>3. /\ Sound(living \cup {<<g, N>>}, q, Marked(trail, m), mem, top)
        /\ \A i \in living : Mark(i) < Len(Trimmed(trail, m)) + 1
    BY <1>2, <1>3, <1>5, <1>6, <1>11, <1>12, <2>2, SoundNew
  <2> QED BY <1>1, <1>8, <2>1, <2>3
<1>14. Sound(living, chain, trail, mem, top)'
  BY <1>2, <1>10, <1>13
<1>15. /\ running' \in Seq(Ctx) /\ running' # <<>> /\ running'[Len(running')] = g
       /\ \A j \in 1 .. Len(running') - 1 : j <= Len(running) /\ running'[j] = running[j]
       /\ Len(running') = Len(running) + 1
  BY <1>2, <1>3, <1>4, <1>7, AppendRunning
<1>16. Onto(g, 1) /\ chain'[g][1] = d /\ chain' \in [Ctx -> Seq(Headers)] /\ living' \subseteq Ctx \X Nat
  <2>1. past' = past /\ 1 = Len(chain[g]) + 1
    BY <1>2, <1>9
  <2> QED BY <1>2, <1>3, <1>4, <1>8, <1>9, <1>13, <1>15, <2>1, OntoIs
<1>17. /\ ctx' \in [Ctx -> Contexts] /\ \A c \in Ctx \ {g} : ctx'[c] = ctx[c]
       /\ ctx'[g].park = Going /\ ctx'[g].gen = ctx[g].gen /\ ctx'[g].seq = ctx[g].seq
       /\ ctx'[g].base = at /\ ctx'[g].floor = at /\ ctx'[g].keep = 0
  <2>1. ctx \in [Ctx -> Contexts] /\ ctx[g] \in Contexts
    BY <1>3, <1>4 DEF TypeOK
  <2>2. [ctx[g] EXCEPT !.park = Going, !.base = at, !.floor = at, !.keep = 0, !.tr = at] \in Contexts
    BY <1>6, <2>1 DEF Contexts
  <2> QED BY <1>2, <1>4, <2>1, <2>2 DEF Contexts
<1>18. TypeOK'
  BY <1>2, <1>3, <1>6, <1>15, <1>16, <1>17 DEF TypeOK
<1>19. Anew(g, 1)
  BY <1>7, <1>15 DEF Anew
<1>20. Fits(g, 1, chain'[g][1], ctx')
  BY <1>1, <1>8, <1>16 DEF Fits
<1>21. Contexted' /\ Later(ctx, ctx')
  <2>1. word' = FloorOf(ctx'[g])
    BY <1>2, <1>6, <1>17 DEF FloorOf, Higher
  <2> QED BY <1>2, <1>3, <1>16, <1>17, <1>19, <2>1, AnewContexted
<1>22. NoNewBack
  <2>1. ASSUME NEW h \in Goals, NEW x PROVE BackOnly(h, x)
    <3>1. CASE h # g
      <4>1. chain'[h] = chain[h] /\ ctx'[h] = ctx[h]
        BY <1>16, <1>17, <2>1, <3>1 DEF Onto, Ctx
      <4> QED BY <4>1, BackOnlySame
    <3>2. CASE h = g
      <4>1. chain'[h][1].kind # "unwound" /\ Onto(h, 1) /\ h \in Ctx /\ ctx'[h].park = Going
        BY <1>1, <1>4, <1>8, <1>16, <1>17, <3>2
      <4> QED BY <1>3, <4>1, BackOnlyPushed
    <3> QED BY <3>1, <3>2
  <2> QED BY <1>3, <2>1, NoNewBackIs
<1>23. Stacked' /\ Spliced' /\ Shaped' /\ Apart'
  <2>1. UserNext /\ RedoNext
    BY <1>3 DEF Shift, Spliced
  <2>2. NewRedo(g, 1) /\ chain'[g][1].kind # "user"
    BY <1>1, <1>8, <1>16 DEF NewRedo
  <2>3. \A c \in Active : ctx'[c].base = ctx[c].base /\ ctx'[c].floor = ctx[c].floor
    <3>1. Active \subseteq Ctx
      BY <1>3, RunningIs
    <3> QED BY <1>7, <1>17, <3>1
  <2>4. ~(ctx'[g].base < ctx'[g].floor)
    BY <1>6, <1>17
  <2> QED BY <1>3, <1>16, <1>19, <1>20, <1>21, <1>22, <2>1, <2>2, <2>3, <2>4, PushKeeps
<1> QED BY <1>2, <1>14, <1>18, <1>21, <1>23, GoesOn DEF Shift, Standing

LEMMA ApartSame ==
    ASSUME Apart, chain' = chain, living' = living
    PROVE  Apart'
BY DEF Apart, Mark

LEMMA CallRefusedKeeps ==
    ASSUME ShiftInv, NEW g \in Goals, CallRefused(g)
    PROVE  ShiftInv'
<1>1. ended' = "refused" /\ UNCHANGED <<mem, top, trail, word, chain, ctx, running, failing, living, past>>
  BY DEF CallRefused
<1>2. TypeOK /\ Sound(living, chain, trail, mem, top) /\ Apart
  BY DEF ShiftInv
<1>3. TypeOK'
  BY <1>1, <1>2 DEF TypeOK
<1>4. Sound(living, chain, trail, mem, top)'
  BY <1>1, <1>2
<1>5. Apart'
  BY <1>1, <1>2, ApartSame
<1> QED BY <1>1, <1>3, <1>4, <1>5, ComesToAnEnd

(* The context that runs tries a clause: its trail is as good as before. *)
LEMMA TriedHere ==
    ASSUME Shift, Strict, MayMark(living, trail, MarkOf(cur)), NEW t, t = Tried(trail, word, cur)
    PROVE  Sound(living, chain, t, mem, top) /\ t \in Seq(Entries)
<1>1. TypeOK /\ Here /\ Sound(living, chain, trail, mem, top) /\ trail \in Seq(Entries) /\ word \in Nat
  BY OfTheTypes DEF Shift, Here
<1>2. PICK o, w : o = cur /\ w = word
  OBVIOUS
<1>3. /\ o \in Ctx /\ chain[o] # <<>> /\ w \in Nat /\ Reach(living, chain, Higher(MarkOf(o), w))
      /\ MayMark(living, trail, MarkOf(o))
      /\ (o = Main => <<o, Len(chain[o])>> \in living /\ \A i \in living : Mark(i) <= MarkOf(o))
  BY <1>1, <1>2, HighestBound
<1>4. Sound(living, chain, Tried(trail, w, o), mem, top) /\ Tried(trail, w, o) \in Seq(Entries)
  BY <1>1, <1>3, SoundTried
<1> QED BY <1>2, <1>4

LEMMA CallKeeps ==
    ASSUME ShiftInv, Strict, NEW g \in Goals, Call(g)
    PROVE  ShiftInv'
<1>1. PICK t, N, m, k, d : t = Tried(trail, word, cur) /\ N = Len(chain[g]) + 1 /\ m = MarkOf(g)
                           /\ k = "unwound" /\ d = Choice(t, m, k, g, mem[g])
  OBVIOUS
<1>2. /\ ended = "no" /\ MayMark(living, trail, MarkOf(cur)) /\ MayMark(living, t, m)
      /\ trail' = Marked(t, m) /\ ctx[g].park = Answered /\ ctx[g].gen = mem[g]
      /\ word' = FloorOf(ctx'[g]) /\ ctx' = [ctx EXCEPT ![g] = Entered(g, t, Len(t))]
      /\ chain' = Longer(g, d) /\ living' = living \cup {<<g, N>>}
      /\ running' = Append(running, g)
      /\ UNCHANGED <<mem, top, past, failing, ended>>
  BY <1>1 DEF Call, Runs, Resumable, Unwinding, Longer
<1>3. Shift /\ TypeOK /\ Here /\ Contexted /\ Shaped /\ Apart
  BY <1>2, WhileItRuns DEF Here, Standing
<1>4. Goals \subseteq Ctx /\ g \in Ctx
  BY DEF Ctx
<1>5. g \notin Active /\ chain[g] # <<>> /\ ctx[g].gen <= ctx[g].seq
  BY <1>2, <1>3 DEF Contexted, Absent, Answered, Going
<1>6. m \in Nat /\ Len(chain[g]) \in Nat \ {0} /\ DOMAIN chain[g] = 1 .. Len(chain[g])
  BY <1>1, <1>3, <1>4, <1>5, LastChoiceIs, ChainsAre
<1>7. Sound(living, chain, t, mem, top) /\ t \in Seq(Entries) /\ Len(t) \in Nat
  BY <1>1, <1>2, <1>3, TriedHere
<1>8. trail' \in Seq(Entries) /\ mem[g] \in Nat
  <2>1. mem[g] \in Nat
    BY <1>3, OfTheTypes DEF Variables
  <2> QED BY <1>2, <1>3, <1>6, <1>7, <2>1, MarkedIs
<1>9. d \in Headers /\ d.mark = Len(Trimmed(t, m)) + 1 /\ d.kind = k /\ d.snap = mem /\ d.gen = mem[g]
  <2>1. k \in Kinds
    BY <1>1 DEF Kinds
  <2>2. PICK n : n = mem[g]
    OBVIOUS
  <2>3. IsChoice(Choice(t, m, k, g, n), t, m, k, g, n)
    BY <1>3, <1>4, <1>6, <1>7, <1>8, <2>1, <2>2, ChoiceIs
  <2> QED BY <1>1, <2>2, <2>3 DEF IsChoice
<1>10. PICK q : q = chain'
  OBVIOUS
<1>11. q[g][N] = d /\ \A i \in living : q[i[1]][i[2]] = chain[i[1]][i[2]]
  <2>1. IsLonger(Longer(g, d), g, d, Len(chain[g]) + 1)
    BY <1>3, <1>4, <1>9, LongerIs
  <2> QED BY <1>1, <1>2, <1>10, <2>1 DEF IsLonger
<1>12. /\ Sound(living \cup {<<g, N>>}, q, Marked(t, m), mem, top)
       /\ \A i \in living : Mark(i) < d.mark
  BY <1>2, <1>3, <1>6, <1>7, <1>9, <1>11, SoundNew
<1>13. Sound(living, chain, trail, mem, top)'
  BY <1>2, <1>10, <1>12
<1>14. /\ running' \in Seq(Ctx) /\ running' # <<>> /\ running'[Len(running')] = g
       /\ \A j \in 1 .. Len(running') - 1 : j <= Len(running) /\ running'[j] = running[j]
       /\ Len(running') = Len(running) + 1
  BY <1>2, <1>3, <1>4, <1>5, AppendRunning
<1>15. Onto(g, N) /\ chain'[g][N] = d /\ chain' \in [Ctx -> Seq(Headers)] /\ living' \subseteq Ctx \X Nat
  <2>1. past' = past
    BY <1>2
  <2> QED BY <1>1, <1>2, <1>3, <1>4, <1>9, <1>12, <1>14, <2>1, OntoIs
<1>16. /\ ctx' \in [Ctx -> Contexts] /\ \A c \in Ctx \ {g} : ctx'[c] = ctx[c]
       /\ ctx'[g].park = Going /\ ctx'[g].gen = ctx[g].gen /\ ctx'[g].seq = ctx[g].seq
       /\ ctx'[g].floor = Len(t)
  <2>1. ctx \in [Ctx -> Contexts] /\ ctx[g] \in Contexts
    BY <1>3, <1>4 DEF TypeOK
  <2>2. Entered(g, t, Len(t)) \in Contexts
    BY <1>7, <2>1 DEF Contexts, Entered
  <2> QED BY <1>2, <1>4, <2>1, <2>2 DEF Contexts, Entered
<1>17. TypeOK'
  <2>1. word' \in Nat
    <3>1. ctx'[g] \in Contexts
      BY <1>4, <1>16
    <3>2. ctx'[g].keep \in Nat /\ ctx'[g].floor \in Nat
      BY <3>1 DEF Contexts
    <3> QED BY <1>2, <3>2 DEF FloorOf, Higher
  <2> QED BY <1>2, <1>3, <1>8, <1>14, <1>15, <1>16, <2>1 DEF TypeOK
<1>18. Anew(g, N)
  BY <1>1, <1>5, <1>9, <1>14, <1>15 DEF Anew
<1>19. Contexted' /\ Later(ctx, ctx')
  BY <1>2, <1>3, <1>15, <1>16, <1>18, AnewContexted
<1>20. Fits(g, N, chain'[g][N], ctx')
  BY <1>1, <1>2, <1>5, <1>6, <1>9, <1>15, <1>16 DEF Fits
<1>21. NoNewBack
  <2>1. ASSUME NEW h \in Goals, NEW x PROVE BackOnly(h, x)
    <3>1. CASE h # g
      <4>1. chain'[h] = chain[h] /\ ctx'[h] = ctx[h]
        BY <1>15, <1>16, <2>1, <3>1 DEF Onto, Ctx
      <4> QED BY <4>1, BackOnlySame
    <3>2. CASE h = g
      <4>1. SUFFICES ASSUME NEW n \in 1 .. Len(chain'[g]), Back(g, x, n)'
                     PROVE  n \in 1 .. Len(chain[g]) /\ Back(g, x, n)
        BY <3>2 DEF BackOnly
      <4>2. n + 1 \in DOMAIN chain'[g] /\ chain'[g][n + 1].kind = "unwound" /\ chain'[g][n + 1].gen = x
        BY <1>16, <4>1 DEF Back, Going, Answered, Spent
      <4>3. Len(chain'[g]) = N /\ chain'[g] \in Seq(Headers)
        BY <1>15 DEF Onto
      <4>4. n \in 1 .. Len(chain[g])
        BY <1>1, <1>6, <4>2, <4>3
      <4>5. CASE n = Len(chain[g])
        BY <1>1, <1>2, <1>9, <1>15, <4>2, <4>4, <4>5 DEF Back
      <4>6. CASE n # Len(chain[g])
        <5>1. n + 1 \in DOMAIN chain[g] /\ n + 1 \in 1 .. N - 1
          BY <1>1, <1>6, <4>4, <4>6
        <5>2. chain'[g][n + 1] = chain[g][n + 1]
          BY <1>15, <5>1 DEF Onto
        <5> QED BY <4>2, <4>4, <5>1, <5>2 DEF Back
      <4> QED BY <4>5, <4>6
    <3> QED BY <3>1, <3>2
  <2> QED BY <1>3, <2>1, NoNewBackIs
<1>22. Level(cur) <= ctx'[g].floor
  <2>1. Peak(cur) \in living
    BY <1>3, PeakStands, RunningIs
  <2>2. PICK u : u = Peak(cur)
    OBVIOUS
  <2>3. Mark(u) <= Len(t)
    BY <1>3, <1>7, <2>1, <2>2, SoundMarks, OfTheTypes DEF Reach, Mark
  <2> QED BY <1>16, <2>2, <2>3 DEF Level
<1>23. Stacked' /\ Spliced' /\ Shaped' /\ Apart'
  <2>1. UserNext /\ RedoNext
    BY <1>3 DEF Shift, Spliced
  <2>2. NewRedo(g, N) /\ chain'[g][N].kind # "user"
    BY <1>1, <1>9, <1>15 DEF NewRedo
  <2>3. \A c \in Active : ctx'[c].base = ctx[c].base /\ ctx'[c].floor = ctx[c].floor
    <3>1. Active \subseteq Ctx
      BY <1>3, RunningIs
    <3> QED BY <1>5, <1>16, <3>1
  <2> QED BY <1>3, <1>15, <1>18, <1>19, <1>20, <1>21, <1>22, <2>1, <2>2, <2>3, PushKeeps
<1> QED BY <1>2, <1>13, <1>17, <1>19, <1>23, GoesOn DEF Shift, Standing

-----------------------------------------------------------------------------
(* The step that commits. *)

LEMMA CommitCuts ==
    ASSUME Here, NEW n \in Nat, n # 0, Commit(n), NEW c, c = cur
    PROVE  /\ Cut(c, n) /\ chain' \in [Ctx -> Seq(Headers)]
           /\ ~CutsPast(n) => /\ <<c, n>> \in living /\ past' = past
                              /\ living' = {i \in living : Mark(i) <= chain[c][n].mark}
           /\ CutsPast(n) =>
                  /\ past' = [past EXCEPT ![c] = [to |-> n, under |-> Youngest(Left(n))]]
                  /\ living' = Left(n)
<1>1. TypeOK /\ Contexted /\ Shaped /\ Apart /\ OwnLive
  BY DEF Here, Standing, Stacked
<1>2. /\ n < Len(chain[c]) /\ chain' = [chain EXCEPT ![c] = SubSeq(@, 1, n)] /\ living' = Left(n)
      /\ past' = IF CutsPast(n) THEN [past EXCEPT ![c] = [to |-> n, under |-> Youngest(Left(n))]]
                 ELSE past
      /\ running' = running /\ ctx' = ctx
  BY DEF Commit, Stays
<1>3. /\ c \in Active /\ c \in Ctx /\ Len(chain[c]) \in Nat \ {0} /\ chain[c] \in Seq(Headers)
      /\ LastShift(c) \in Nat /\ past[c].to \in Nat /\ DOMAIN chain[c] = 1 .. Len(chain[c])
  BY <1>1, RunningIs, ActiveIs, ChainsAre
<1>4. n \in 1 .. Len(chain[c])
  BY <1>2, <1>3
<1>5. /\ chain'[c] = SubSeq(chain[c], 1, n) /\ chain' \in [Ctx -> Seq(Headers)]
      /\ \A d \in Ctx \ {c} : chain'[d] = chain[d]
  <2>1. chain \in [Ctx -> Seq(Headers)] /\ SubSeq(chain[c], 1, n) \in Seq(Headers)
    BY <1>1, <1>3, <1>4 DEF TypeOK
  <2> QED BY <1>2, <1>3, <2>1
<1>6. chain'[c] \in Seq(Headers) /\ Len(chain'[c]) = n /\ \A k \in 1 .. n : chain'[c][k] = chain[c][k]
  BY <1>3, <1>4, <1>5
<1>7. \A d \in Ctx \ {c} : past'[d] = past[d]
  BY <1>1, <1>2 DEF TypeOK
<1>8. CASE ~CutsPast(n)
  <2>1. IsOwn(c, n) /\ <<c, n>> \in living
    <3>1. LastShift(c) <= n /\ past[c].to < n
      BY <1>3, <1>4, <1>8 DEF CutsPast
    <3>2. IsOwn(c, n)
      BY <1>3, <1>4, <3>1 DEF IsOwn
    <3> QED BY <1>1, <1>3, <3>2 DEF OwnLive
  <2>2. living' = {i \in living : Mark(i) <= chain[c][n].mark}
    BY <1>2, <1>8 DEF Left
  <2>3. chain[c][n].mark = Mark(<<c, n>>) /\ Mark(<<c, n>>) \in Nat
    BY <1>1, <1>4, ChainsAre, <1>3 DEF Mark
  <2>4. ASSUME NEW i \in living', i[1] = c PROVE i[2] <= n
    <3>1. i \in living /\ Mark(i) <= Mark(<<c, n>>) /\ i[2] \in Nat /\ Mark(i) \in Nat
      BY <1>1, <2>2, <2>3, <2>4, LivingIs
    <3>2. PICK j : j = <<c, n>>
      OBVIOUS
    <3>3. n < i[2] => Mark(j) < Mark(i)
      BY <1>1, <2>1, <2>4, <3>1, <3>2 DEF Apart
    <3> QED BY <2>3, <3>1, <3>2, <3>3
  <2>5. ASSUME NEW i \in living', NEW l \in living, Mark(l) <= Mark(i) PROVE l \in living'
    <3>1. i \in living /\ Mark(i) <= chain[c][n].mark
      BY <2>2, <2>5
    <3>2. Mark(l) \in Nat /\ Mark(i) \in Nat /\ chain[c][n].mark \in Nat
      BY <1>1, <2>3, <3>1, LivingIs
    <3> QED BY <2>2, <2>5, <3>1, <3>2
  <2> QED BY <1>2, <1>3, <1>4, <1>5, <1>6, <1>7, <1>8, <2>1, <2>2, <2>4, <2>5 DEF Cut
<1>9. CASE CutsPast(n)
  <2>1. living' = {i \in living : Mark(i) < Begin(c) /\ (i[1] = c => i[2] <= n)}
    BY <1>2, <1>9 DEF Left
  <2>2. Begin(c) \in Nat
    BY <1>3, PeakStands
  <2>3. ASSUME NEW i \in living', NEW l \in living, Mark(l) <= Mark(i), l[1] = c => l[2] <= n
        PROVE  l \in living'
    <3>1. i \in living /\ Mark(i) < Begin(c)
      BY <2>1, <2>3
    <3>2. Mark(l) \in Nat /\ Mark(i) \in Nat
      BY <1>1, <3>1, LivingIs
    <3> QED BY <2>1, <2>2, <2>3, <3>1, <3>2
  <2>4. \A i \in living' : i[1] = c => i[2] <= n
    BY <2>1
  <2> QED BY <1>2, <1>3, <1>4, <1>5, <1>6, <1>7, <1>9, <2>1, <2>3, <2>4 DEF Cut
<1> QED BY <1>8, <1>9

LEMMA CommitSound ==
    ASSUME Here, Sound(living, chain, trail, mem, top), NEW n \in Nat, NEW c, Cut(c, n),
           NEW d, d = chain[c][n], NEW w, w = Higher(d.mark, word),
           \A i \in living' : Mark(i) <= w,
           c = Main => /\ <<c, n>> \in living /\ \A i \in living' : Mark(i) <= d.mark,
           trail' = Walked(trail, w, c, d)
    PROVE  Sound(living', chain', trail', mem, top) /\ trail' \in Seq(Entries)
<1>1. TypeOK /\ trail \in Seq(Entries) /\ top \in Nat /\ word \in Nat
  BY OfTheTypes DEF Here
<1>2. PICK L, q : L = living' /\ q = chain'
  OBVIOUS
<1>3. \A i \in L : /\ i \in living /\ q[i[1]][i[2]] = chain[i[1]][i[2]]
                   /\ q[i[1]][i[2]].mark = Mark(i) /\ Mark(i) \in Nat
  BY <1>2, CutLiving DEF Mark
<1>4. Sound(L, q, trail, mem, top)
  BY <1>3, SoundOfFewer
<1>5. w \in Nat /\ d.mark \in Nat /\ d.mark = Mark(<<c, n>>)
  <2>1. c \in Ctx /\ n \in 1 .. Len(chain[c])
    BY CutShift DEF Cut
  <2>2. d.mark \in Nat
    BY <1>1, <2>1, ChainsAre
  <2> QED BY <1>1, <2>2 DEF Higher, Mark
<1>6. Reach(L, q, w)
  BY <1>2, <1>3 DEF Reach
<1>7. ASSUME NEW i \in L, NEW x \in Variables(trail[q[i[1]][i[2]].mark].hb)
      PROVE  Older(trail, c, d, x)
  <2>1. CASE c # Main
    BY <2>1 DEF Older
  <2>2. CASE c = Main
    <3>1. PICK j : j = <<c, n>>
      OBVIOUS
    <3>2. i \in living /\ j \in living /\ Mark(j) = d.mark /\ Mark(i) <= Mark(j)
      BY <1>2, <1>3, <1>5, <2>2, <3>1
    <3>3. PICK x1, x2 : x1 = Mark(i) /\ x2 = Mark(j)
      OBVIOUS
    <3>4. x1 = chain[i[1]][i[2]].mark /\ x2 = chain[j[1]][j[2]].mark /\ x1 <= x2
      BY <3>2, <3>3 DEF Mark
    <3>5. trail[x1].hb <= trail[x2].hb /\ trail[x1].hb \in Nat /\ trail[x2].hb \in Nat
      BY <1>1, <3>2, <3>4, SoundOrdered
    <3>6. x \in Goals \/ x \in 1 .. trail[x1].hb
      BY <1>3, <1>7, <3>3 DEF Variables
    <3>7. x \in Goals \/ x <= trail[d.mark].hb
      BY <3>2, <3>3, <3>5, <3>6
    <3> QED BY <3>7 DEF Older
  <2> QED BY <2>1, <2>2
<1>8. Sound(L, q, Walked(trail, w, c, d), mem, top) /\ Walked(trail, w, c, d) \in Seq(Entries)
  BY <1>1, <1>4, <1>5, <1>6, <1>7, SoundWalked
<1> QED BY <1>2, <1>8

LEMMA CommitKeeps ==
    ASSUME ShiftInv, Strict, NEW n \in Nat, n # 0, Commit(n)
    PROVE  ShiftInv'
<1>1. PICK c, d, w : c = cur /\ d = chain[c][n] /\ w = Higher(d.mark, word)
  OBVIOUS
<1>2. /\ ended = "no" /\ n < Len(chain[c]) /\ (CutsPast(n) => ctx[c].floor > ctx[c].base)
      /\ trail' = Walked(trail, w, c, d)
      /\ UNCHANGED <<mem, top, word, ctx, running, failing, ended>>
  BY <1>1 DEF Commit, Runs, Stays, Tidy
<1>3. Shift /\ TypeOK /\ Here /\ Contexted /\ Shaped /\ Apart /\ Floored
  BY <1>2, WhileItRuns DEF Here, Standing, Stacked
<1>4. Sound(living, chain, trail, mem, top)
  BY <1>3 DEF Shift
<1>5. Cut(c, n) /\ chain' \in [Ctx -> Seq(Headers)]
  BY <1>1, <1>3, CommitCuts
<1>6. c \in Active /\ c \in Ctx /\ d.mark \in Nat /\ word \in Nat /\ w \in Nat /\ d.mark <= w /\ word <= w
  <2>1. c \in Active /\ c \in Ctx /\ n \in 1 .. Len(chain[c])
    BY <1>3, <1>5, CutShift DEF Cut
  <2>2. d.mark \in Nat /\ word \in Nat
    BY <1>1, <1>3, <2>1, ChainsAre, OfTheTypes
  <2> QED BY <1>1, <2>1, <2>2 DEF Higher
<1>7. \A i \in living' : Mark(i) \in Nat
  BY <1>3, <1>5, CutLiving
<1>8. /\ Stacked' /\ past'[c].to <= n /\ past' \in [Ctx -> [to : Nat, under : Ctx \X Nat]]
      /\ StaysWithin(c, n) \/ Past(c, n)
      /\ \A i \in living' : Mark(i) <= w
      /\ c = Main => /\ <<c, n>> \in living /\ \A i \in living' : Mark(i) <= d.mark
                     /\ past'[Main] = past[Main]
  <2>1. CASE ~CutsPast(n)
    <3>1. /\ <<c, n>> \in living /\ past' = past
          /\ living' = {i \in living : Mark(i) <= chain[c][n].mark}
      BY <1>1, <1>3, <2>1, CommitCuts
    <3>2. StaysWithin(c, n)
      BY <2>1, <3>1 DEF StaysWithin
    <3>3. Stacked' /\ past'[c].to <= n
      BY <1>3, <1>5, <3>1, <3>2, WithinKeeps
    <3>4. \A i \in living' : Mark(i) <= d.mark
      BY <1>1, <3>1
    <3>5. \A i \in living' : Mark(i) <= w
      BY <1>6, <1>7, <3>4
    <3> QED BY <1>3, <3>1, <3>2, <3>3, <3>4, <3>5 DEF TypeOK
  <2>2. CASE CutsPast(n)
    <3>1. /\ past' = [past EXCEPT ![c] = [to |-> n, under |-> Youngest(Left(n))]]
          /\ living' = Left(n)
      BY <1>1, <1>3, <2>2, CommitCuts
    <3>2. past \in [Ctx -> [to : Nat, under : Ctx \X Nat]]
      BY <1>3 DEF TypeOK
    <3>3. past'[c].to = n /\ past'[c].under = Youngest(Left(n))
      BY <1>6, <3>1, <3>2
    <3>4. PastCut(c, n) /\ Past(c, n)
      BY <1>2, <1>5, <2>2, <3>1, <3>3 DEF PastCut, Past
    <3>5. Stacked' /\ past'[c].to <= n
      BY <1>3, <3>4, PastKeeps
    <3>6. c \in Goals /\ Len(running) > 1
      BY <1>3, <3>4, PastHasCaller
    <3>7. PICK a, u : a = Activator /\ u = Peak(a)
      OBVIOUS
    <3>8. /\ past'[c].under = u /\ u \in living' /\ Level(a) \in Nat /\ Level(a) < Begin(c)
          /\ a = running[Len(running) - 1] /\ \A i \in living' : Mark(i) <= Level(a)
      BY <1>3, <3>4, <3>7, PastUnder
    <3>9. past' \in [Ctx -> [to : Nat, under : Ctx \X Nat]]
      <4>1. u \in living
        BY <1>3, <1>5, <3>8, CutLiving
      <4>2. Youngest(Left(n)) \in Ctx \X Nat
        BY <1>3, <3>3, <3>8, <4>1 DEF TypeOK
      <4> QED BY <3>1, <3>2, <4>2
    <3>10. Level(a) <= w
      <4>1. PICK r : r = Len(running)
        OBVIOUS
      <4>2. r \in 2 .. r /\ r \in Nat /\ running[r] = c
        BY <1>1, <1>3, <3>6, <4>1, RunningIs
      <4>3. ctx[c].base < ctx[c].floor => Level(a) <= ctx[c].floor
        BY <1>3, <3>8, <4>1, <4>2 DEF Floored
      <4>4. ctx[c].floor <= word /\ ctx[c].floor \in Nat /\ ctx[c].base \in Nat
        BY <1>1, <1>3, <1>6, ContextIs DEF Contexted
      <4> QED BY <1>2, <1>6, <2>2, <3>8, <4>3, <4>4
    <3>11. \A i \in living' : Mark(i) <= w
      BY <1>6, <1>7, <3>8, <3>10
    <3> QED BY <3>4, <3>5, <3>6, <3>9, <3>11, Bounds
  <2> QED BY <2>1, <2>2
<1>9. Sound(living', chain', trail', mem, top) /\ trail' \in Seq(Entries)
  BY <1>1, <1>2, <1>3, <1>4, <1>5, <1>8, CommitSound
<1>10. Sound(living, chain, trail, mem, top)'
  BY <1>2, <1>9
<1>11. living' \subseteq Ctx \X Nat
  BY <1>3, <1>5 DEF Cut, TypeOK
<1>12. TypeOK'
  BY <1>2, <1>3, <1>5, <1>8, <1>9, <1>11 DEF TypeOK
<1>13. Shaped' /\ Apart' /\ Spliced'
  <2>1. UserNext /\ RedoNext
    BY <1>3 DEF Shift, Spliced
  <2> QED BY <1>3, <1>5, <1>8, <2>1, CutShaped, CutApart, CutUserNext, CutRedoNext DEF Spliced
<1>14. Contexted'
  <2>1. Active' = Active /\ cur' = cur
    BY <1>2 DEF Active, cur
  <2>2. \A e \in Ctx : chain'[e] = <<>> <=> chain[e] = <<>>
    <3>1. chain'[c] # <<>> /\ chain[c] # <<>>
      <4>1. /\ Len(chain'[c]) = n /\ chain'[c] \in Seq(Headers)
            /\ n \in 1 .. Len(chain[c]) /\ chain[c] \in Seq(Headers)
        BY <1>3, <1>5, <1>6, ChainsAre DEF Cut
      <4> QED BY <4>1
    <3> QED BY <1>5, <3>1 DEF Cut
  <2>3. past'[Main].to = 0
    <3>1. CASE c = Main
      BY <1>3, <1>8, <3>1 DEF Contexted
    <3>2. CASE c # Main
      BY <1>3, <1>5, <3>2 DEF Contexted, Cut, Ctx
    <3> QED BY <3>1, <3>2
  <2> QED BY <1>2, <1>3, <2>1, <2>2, <2>3 DEF Contexted, Ctx
<1> QED BY <1>2, <1>8, <1>10, <1>12, <1>13, <1>14, GoesOn DEF Shift, Standing

-----------------------------------------------------------------------------
(* The goal g that runs comes to rest as p, and its activator a goes on.   *)

Parks(g, a, p) ==
    /\ g = cur /\ a = Activator /\ g \in Goals /\ p # Going /\ running' = Front(running)
    /\ ctx' \in [Ctx -> Contexts]
    /\ ctx'[g].park = p /\ ctx'[g].gen <= ctx'[g].seq /\ ctx[g].seq <= ctx'[g].seq
    /\ ctx'[g].base = ctx[g].base /\ ctx'[g].floor = ctx[g].floor
    /\ ctx'[a] = [ctx[a] EXCEPT !.keep = ctx'[a].keep]
    /\ \A c \in Ctx \ {g, a} : ctx'[c] = ctx[c]
    /\ word' = WordAfter(a, ctx'[a].keep)

LEMMA CallerOfGoal ==
    ASSUME Here, NEW g, g = cur, g \in Goals, NEW a, a = Activator
    PROVE  /\ Len(running) > 1 /\ a \in Active /\ a \in Ctx /\ g \in Ctx /\ a # g
           /\ a = running[Len(running) - 1] /\ chain[a] # <<>> /\ g \in Active
           /\ ctx[a].seq \in Nat /\ ctx[g].seq \in Nat
           /\ a \in Goals => ctx[a].park = Going
<1>1. TypeOK /\ Contexted /\ Shaped
  BY DEF Here, Standing
<1>2. Len(running) \in Nat \ {0} /\ g = running[Len(running)] /\ g \in Active /\ Active \subseteq Ctx
  BY <1>1, RunningIs
<1>3. Len(running) # 1
  <2>1. running[1] = Main
    BY <1>1 DEF Contexted
  <2>2. Main # g
    BY Bounds
  <2> QED BY <1>2, <2>1, <2>2
<1>4. Len(running) > 1
  <2>1. PICK r : r = Len(running)
    OBVIOUS
  <2>2. r > 1
    BY <1>2, <1>3, <2>1
  <2> QED BY <2>1, <2>2
<1>5. a \in Active /\ a # g /\ a = running[Len(running) - 1]
  BY <1>1, <1>4, CallersAre
<1>6. Len(chain[a]) \in Nat \ {0} /\ chain[a] \in Seq(Headers)
  BY <1>1, <1>2, <1>5, ActiveIs, ChainsAre
<1>7. chain[a] # <<>> /\ (a \in Goals => ctx[a].park = Going)
  BY <1>1, <1>5, <1>6, ActiveIs
<1> QED BY <1>1, <1>2, <1>4, <1>5, <1>7, ContextIs

LEMMA ParksIs ==
    ASSUME Here, NEW g, NEW a, NEW p, Parks(g, a, p)
    PROVE  /\ Later(ctx, ctx') /\ \A c \in Ctx \ {g} : ctx'[c].park = ctx[c].park /\ ctx'[c].gen = ctx[c].gen
           /\ \A c \in Ctx \ {g} : ctx'[c].seq = ctx[c].seq
           /\ \A c \in Ctx : ctx'[c].base = ctx[c].base /\ ctx'[c].floor = ctx[c].floor
           /\ a \in Ctx /\ g \in Ctx /\ a # g /\ word' = FloorOf(ctx'[a]) /\ word' \in Nat
<1>1. TypeOK /\ a \in Ctx /\ g \in Ctx /\ a # g
  BY CallerOfGoal DEF Parks, Here
<1>2. ctx[a] \in Contexts /\ ctx' \in [Ctx -> Contexts]
  BY <1>1 DEF TypeOK, Parks
<1>3. /\ ctx'[a].park = ctx[a].park /\ ctx'[a].gen = ctx[a].gen /\ ctx'[a].seq = ctx[a].seq
      /\ ctx'[a].base = ctx[a].base /\ ctx'[a].floor = ctx[a].floor
  <2>1. PICK k : k = ctx'[a].keep
    OBVIOUS
  <2>2. ctx'[a] = [ctx[a] EXCEPT !.keep = k]
    BY <2>1 DEF Parks
  <2> QED BY <1>2, <2>2 DEF Contexts
<1>4. \A c \in Ctx \ {g, a} : ctx'[c] = ctx[c]
  BY DEF Parks
<1>5. \A c \in Ctx \ {g} : /\ ctx'[c].park = ctx[c].park /\ ctx'[c].gen = ctx[c].gen
                           /\ ctx'[c].seq = ctx[c].seq
                           /\ ctx'[c].base = ctx[c].base /\ ctx'[c].floor = ctx[c].floor
  BY <1>3, <1>4
<1>6. ctx[g].seq <= ctx'[g].seq /\ ctx'[g].base = ctx[g].base /\ ctx'[g].floor = ctx[g].floor
  BY DEF Parks
<1>7. Later(ctx, ctx')
  <2>1. ASSUME NEW h \in Goals PROVE ctx[h].seq \in Nat /\ ctx'[h].seq \in Nat /\ ctx[h].seq <= ctx'[h].seq
    <3>1. h \in Ctx /\ ctx[h].seq \in Nat
      BY <1>1, ContextIs DEF Ctx
    <3>2. ctx'[h] \in Contexts
      BY <1>2, <3>1
    <3>3. ctx'[h].seq \in Nat
      BY <3>2 DEF Contexts
    <3> QED BY <1>5, <1>6, <3>1, <3>3
  <2> QED BY <2>1 DEF Later
<1>8. word' = FloorOf(ctx'[a]) /\ word' \in Nat
  <2>1. word' = Higher(ctx'[a].keep, ctx[a].floor)
    BY DEF Parks, WordAfter
  <2>2. ctx'[a] \in Contexts
    BY <1>1, <1>2
  <2>3. ctx'[a].keep \in Nat /\ ctx'[a].floor \in Nat
    BY <2>2 DEF Contexts
  <2> QED BY <1>3, <2>1, <2>3 DEF FloorOf, Higher
<1> QED BY <1>1, <1>5, <1>6, <1>7, <1>8

LEMMA ParksContexted ==
    ASSUME Here, NEW g, NEW a, NEW p, Parks(g, a, p), past' = past,
           \A c \in Ctx \ {g} : chain'[c] = <<>> <=> chain[c] = <<>>,
           chain'[g] = <<>> <=> p = Absent
    PROVE  Contexted'
<1>1. TypeOK /\ Contexted /\ g \in Goals /\ g = cur /\ a = Activator /\ running' = Front(running)
  BY DEF Here, Standing, Parks
<1>2. Len(running) > 1
  BY <1>1, CallerOfGoal
<1>3. /\ Len(running') = Len(running) - 1 /\ Len(running') \in Nat \ {0} /\ Len(running) \in Nat \ {0}
      /\ DOMAIN running' = 1 .. Len(running) - 1 /\ cur' = a
      /\ \A j \in 1 .. Len(running) - 1 : running'[j] = running[j] /\ j \in 1 .. Len(running)
      /\ Active' = Active \ {g}
  BY <1>1, <1>2, FrontRunning
<1>4. /\ \A c \in Ctx \ {g} : ctx'[c].park = ctx[c].park /\ ctx'[c].gen = ctx[c].gen
      /\ \A c \in Ctx \ {g} : ctx'[c].seq = ctx[c].seq
      /\ word' = FloorOf(ctx'[a])
  BY ParksIs
<1>5. running'[1] = Main /\ \A i, j \in DOMAIN running' : running'[i] = running'[j] => i = j
  <2>1. DOMAIN running = 1 .. Len(running)
    BY <1>1, RunningIs
  <2>2. running[1] = Main /\ \A i, j \in DOMAIN running : running[i] = running[j] => i = j
    BY <1>1 DEF Contexted
  <2>3. PICK r : r = Len(running)
    OBVIOUS
  <2>4. 1 \in 1 .. r - 1
    BY <1>2, <1>3, <2>3
  <2> QED BY <1>3, <2>1, <2>2, <2>3, <2>4
<1>6. ASSUME NEW h \in Goals
      PROVE  /\ h \in Active' <=> ctx'[h].park = Going
             /\ chain'[h] = <<>> <=> ctx'[h].park = Absent
             /\ ctx'[h].gen <= ctx'[h].seq
  <2>1. /\ h \in Active <=> ctx[h].park = Going
        /\ chain[h] = <<>> <=> ctx[h].park = Absent
        /\ ctx[h].gen <= ctx[h].seq
    BY <1>1 DEF Contexted
  <2>2. CASE h = g
    <3>1. ctx'[g].park = p /\ p # Going /\ ctx'[g].gen <= ctx'[g].seq
      BY DEF Parks
    <3> QED BY <1>3, <2>2, <3>1
  <2>3. CASE h # g
    <3>1. h \in Ctx \ {g}
      BY <2>3 DEF Ctx
    <3>2. ctx'[h].park = ctx[h].park /\ ctx'[h].gen = ctx[h].gen /\ ctx'[h].seq = ctx[h].seq
      BY <1>4, <3>1
    <3>3. chain'[h] = <<>> <=> chain[h] = <<>>
      BY <3>1
    <3> QED BY <1>3, <2>1, <2>3, <3>2, <3>3
  <2> QED BY <2>2, <2>3
<1>7. chain'[Main] # <<>> /\ past'[Main].to = 0
  <2>1. Main \in Ctx \ {g}
    BY <1>1, Bounds DEF Ctx
  <2> QED BY <1>1, <2>1 DEF Contexted
<1> QED BY <1>3, <1>4, <1>5, <1>6, <1>7 DEF Contexted

(* The goal answers. *)
Answers(shifted, g, a, n, t, k, w) ==
    /\ g = cur /\ a = Activator /\ n = ctx[g].seq + 1
    /\ t = IF shifted THEN Tried(trail, word, g) ELSE trail
    /\ k = Kept(a, ctx[g].tr, t, TRUE) /\ w = WordAfter(a, k)

LEMMA AnswerParks ==
    ASSUME ShiftInv, Strict, NEW shifted \in BOOLEAN, Answer(shifted), NEW g, NEW a, NEW n, NEW t, NEW k,
           NEW w, Answers(shifted, g, a, n, t, k, w)
    PROVE  /\ Sound(living, chain, t, mem, top) /\ t \in Seq(Entries) /\ Len(t) \in Nat
           /\ Len(t) <= w /\ w \in Nat /\ n \in Nat /\ ctx[g].seq < n
           /\ Parks(g, a, Answered) /\ ctx'[g].gen = n /\ ctx'[g].seq = n /\ word' = w
           /\ mem' \in [Variables(top) -> Values] /\ \A x \in Variables(top) : x # g => mem'[x] = mem[x]
           /\ Entry(g) \in Entries /\ Entry(g).old = mem[g] /\ Entry(g).cell = g
<1>1. /\ ended = "no" /\ g \in Goals /\ n <= MaxGen
      /\ shifted => MayMark(living, trail, MarkOf(g))
      /\ ctx' = [ctx EXCEPT ![g].park = Answered, ![g].seq = n, ![g].gen = n, ![a].keep = k]
      /\ word' = w /\ mem' = [mem EXCEPT ![g] = IF shifted THEN n ELSE 0]
      /\ running' = Front(running)
  BY DEF Answer, Answers, Runs
<1>2. g = cur /\ a = Activator /\ n = ctx[g].seq + 1
  BY DEF Answers
<1>3. Shift /\ TypeOK /\ Here
  BY <1>1, WhileItRuns DEF Here
<1>4. a \in Ctx /\ g \in Ctx /\ a # g /\ ctx[g].seq \in Nat
  BY <1>1, <1>2, <1>3, CallerOfGoal
<1>5. Sound(living, chain, t, mem, top) /\ t \in Seq(Entries)
  <2>1. CASE shifted
    <3>1. t = Tried(trail, word, cur) /\ MayMark(living, trail, MarkOf(cur))
      BY <1>1, <1>2, <2>1 DEF Answers
    <3> QED BY <1>3, <3>1, TriedHere
  <2>2. CASE ~shifted
    <3>1. t = trail
      BY <2>2 DEF Answers
    <3> QED BY <1>3, <3>1, OfTheTypes DEF Shift
  <2> QED BY <2>1, <2>2
<1>6. Len(t) \in Nat /\ k \in Nat /\ Len(t) <= k /\ w \in Nat /\ k <= w
  <2>1. Len(t) \in Nat
    BY <1>5
  <2>2. ctx[a].keep \in Nat /\ ctx[g].tr \in Nat /\ ctx[a].floor \in Nat
    BY <1>3, <1>4, ContextIs
  <2>3. k = Higher(Lower(ctx[a].keep, ctx[g].tr), Len(t)) /\ w = Higher(k, ctx[a].floor)
    BY DEF Answers, Kept, WordAfter
  <2>4. k \in Nat /\ Len(t) <= k
    BY <2>1, <2>2, <2>3 DEF Higher, Lower
  <2> QED BY <2>1, <2>2, <2>3, <2>4 DEF Higher
<1>7. /\ ctx' \in [Ctx -> Contexts] /\ \A c \in Ctx \ {g, a} : ctx'[c] = ctx[c]
      /\ ctx'[g] = [ctx[g] EXCEPT !.park = Answered, !.seq = n, !.gen = n]
      /\ ctx'[a] = [ctx[a] EXCEPT !.keep = k]
  <2>1. ctx \in [Ctx -> Contexts] /\ ctx[g] \in Contexts /\ ctx[a] \in Contexts /\ n \in Nat
    BY <1>2, <1>3, <1>4 DEF TypeOK
  <2>2. [ctx[g] EXCEPT !.park = Answered, !.seq = n, !.gen = n] \in Contexts
    BY <2>1 DEF Contexts
  <2>3. [ctx[a] EXCEPT !.keep = k] \in Contexts
    BY <1>6, <2>1 DEF Contexts
  <2>4. ctx' = [ctx EXCEPT ![g] = [ctx[g] EXCEPT !.park = Answered, !.seq = n, !.gen = n],
                           ![a] = [ctx[a] EXCEPT !.keep = k]]
    BY <1>1, <1>4, <2>1
  <2> QED BY <1>4, <2>1, <2>2, <2>3, <2>4
<1>8. /\ ctx'[g].park = Answered /\ ctx'[g].gen = n /\ ctx'[g].seq = n /\ ctx'[a].keep = k
      /\ ctx'[g].base = ctx[g].base /\ ctx'[g].floor = ctx[g].floor
  <2>1. ctx[g] \in Contexts /\ ctx[a] \in Contexts
    BY <1>3, <1>4 DEF TypeOK
  <2> QED BY <1>7, <2>1 DEF Contexts
<1>9. Parks(g, a, Answered)
  <2>1. n <= n /\ ctx[g].seq <= n /\ n \in Nat
    BY <1>2, <1>4
  <2>2. Answered # Going
    BY DEF Answered, Going
  <2>3. word' = WordAfter(a, ctx'[a].keep)
    BY <1>1, <1>8 DEF Answers
  <2> QED BY <1>1, <1>2, <1>7, <1>8, <2>1, <2>2, <2>3 DEF Parks
<1>10. mem' \in [Variables(top) -> Values] /\ \A x \in Variables(top) : x # g => mem'[x] = mem[x]
  <2>1. mem \in [Variables(top) -> Values] /\ MaxGen \in Nat
    BY <1>3, OfTheTypes
  <2>2. n \in Values /\ 0 \in Values
    BY <1>1, <1>2, <1>4, <2>1 DEF Values
  <2>3. PICK v : v = IF shifted THEN n ELSE 0
    OBVIOUS
  <2>4. v \in Values /\ mem' = [mem EXCEPT ![g] = v]
    BY <1>1, <2>2, <2>3
  <2> QED BY <2>1, <2>4
<1>11. /\ Entry(g) \in Entries /\ Entry(g).old = mem[g] /\ Entry(g).cell = g
  <2>1. g \in DOMAIN mem
    BY <1>1, <1>3, OfTheTypes DEF Variables
  <2> QED BY <1>3, <2>1, EntryIs
<1> QED BY <1>1, <1>2, <1>4, <1>5, <1>6, <1>8, <1>9, <1>10, <1>11

(* Binding C to what the answer left. *)
LEMMA AnswerSound ==
    ASSUME NEW L, NEW ch, NEW t \in Seq(Entries), NEW me, NEW me2, NEW h \in Nat, Sound(L, ch, t, me, h),
           NEW g, NEW e \in Entries, e.cell = g, e.old = me[g], \A x \in Variables(h) : x # g => me2[x] = me[x]
    PROVE  Sound(L, ch, Append(t, e), me2, h) /\ Append(t, e) \in Seq(Entries)
<1>1. \A x \in Variables(h) : e.cell # x => me2[x] = me[x]
  OBVIOUS
<1>2. IsSentinel(e) \/ e.old = me[e.cell]
  OBVIOUS
<1>3. Sound(L, ch, Append(t, e), me2, h)
  BY <1>1, <1>2, SoundAppended
<1> QED BY <1>3

LEMMA AnswerKeeps ==
    ASSUME ShiftInv, Strict, NEW shifted \in BOOLEAN, Answer(shifted)
    PROVE  ShiftInv'
<1>1. PICK g, a, n, t, k, w : Answers(shifted, g, a, n, t, k, w)
  BY DEF Answers
<1>2. /\ Sound(living, chain, t, mem, top) /\ t \in Seq(Entries) /\ Len(t) \in Nat
      /\ Len(t) <= w /\ w \in Nat /\ n \in Nat /\ ctx[g].seq < n
      /\ Parks(g, a, Answered) /\ ctx'[g].gen = n /\ ctx'[g].seq = n /\ word' = w
      /\ mem' \in [Variables(top) -> Values] /\ \A x \in Variables(top) : x # g => mem'[x] = mem[x]
      /\ Entry(g) \in Entries /\ Entry(g).old = mem[g] /\ Entry(g).cell = g
  BY <1>1, AnswerParks
<1>3. g = cur /\ a = Activator
  BY <1>1 DEF Answers
<1>4. PICK det, L, t2, m, e : /\ det = (Len(chain[g]) = 1) /\ m = MarkOf(a) /\ e = Entry(g)
                              /\ L = IF det THEN living \ {<<g, 1>>} ELSE living
                              /\ t2 = IF det THEN Tried(t, w, a) ELSE Marked(t, m)
  OBVIOUS
<1>5. /\ ended = "no" /\ MayMark(L, t, m) /\ trail' = Append(t2, e)
      /\ IF det
         THEN living' = L /\ UNCHANGED chain
         ELSE /\ living' = L \cup {<<a, Len(chain[a]) + 1>>}
              /\ chain' = Longer(a, Choice(t, m, "redo", g, n))
      /\ UNCHANGED <<top, failing, past, ended>>
  BY <1>1, <1>4 DEF Answer, Answers, Runs, Longer
<1>6. Shift /\ TypeOK /\ Here /\ Contexted /\ Shaped /\ Apart /\ UserNext /\ RedoNext
  BY <1>5, WhileItRuns DEF Here, Standing, Shift, Spliced
<1>7. g \in Goals /\ Len(running) > 1 /\ a \in Active /\ a \in Ctx /\ g \in Ctx /\ a # g /\ chain[a] # <<>>
      /\ a = running[Len(running) - 1] /\ (a \in Goals => ctx[a].park = Going) /\ running' = Front(running)
  BY <1>2, <1>3, <1>6, CallerOfGoal DEF Parks
<1>8. /\ Later(ctx, ctx') /\ \A c \in Ctx \ {g} : ctx'[c].park = ctx[c].park /\ ctx'[c].gen = ctx[c].gen
      /\ \A c \in Ctx : ctx'[c].base = ctx[c].base /\ ctx'[c].floor = ctx[c].floor
      /\ word' \in Nat
  BY <1>2, <1>6, ParksIs
<1>9. /\ Len(running') = Len(running) - 1 /\ Len(running') \in Nat \ {0} /\ Len(running) \in Nat \ {0}
      /\ cur' = a /\ running' \in Seq(Ctx) /\ running' # <<>>
      /\ \A j \in 1 .. Len(running) - 1 : running'[j] = running[j] /\ j \in 1 .. Len(running)
  BY <1>3, <1>6, <1>7, FrontRunning
<1>10. top \in Nat /\ Len(chain[a]) \in Nat \ {0} /\ m \in Nat
  BY <1>4, <1>6, <1>7, LastChoiceIs, OfTheTypes
<1>11. PICK q : q = chain'
  OBVIOUS
<1>20. CASE ~det
  <2>1. PICK N, kd, d : N = Len(chain[a]) + 1 /\ kd = "redo" /\ d = Choice(t, m, kd, g, n)
    OBVIOUS
  <2>2. /\ L = living /\ t2 = Marked(t, m) /\ living' = living \cup {<<a, N>>} /\ chain' = Longer(a, d)
    BY <1>4, <1>5, <1>20, <2>1
  <2>3. d \in Headers /\ d.mark = Len(Trimmed(t, m)) + 1 /\ d.kind = kd /\ d.of = g /\ d.gen = n /\ d.snap = mem
    <3>1. kd \in Kinds
      BY <2>1 DEF Kinds
    <3>2. IsChoice(Choice(t, m, kd, g, n), t, m, kd, g, n)
      BY <1>2, <1>6, <1>7, <1>10, <3>1, ChoiceIs
    <3> QED BY <2>1, <3>2 DEF IsChoice
  <2>4. q[a][N] = d /\ \A i \in living : q[i[1]][i[2]] = chain[i[1]][i[2]]
    <3>1. IsLonger(Longer(a, d), a, d, Len(chain[a]) + 1)
      BY <1>6, <1>7, <2>3, LongerIs
    <3> QED BY <1>11, <2>1, <2>2, <3>1 DEF IsLonger
  <2>5. MayMark(living, t, m)
    BY <1>5, <2>2
  <2>6. /\ Sound(living \cup {<<a, N>>}, q, Marked(t, m), mem, top)
        /\ \A i \in living : Mark(i) < d.mark
    <3>1. q[a][N].mark = Len(Trimmed(t, m)) + 1 /\ q[a][N].snap = mem
      BY <2>3, <2>4
    <3>2. /\ Sound(living \cup {<<a, N>>}, q, Marked(t, m), mem, top)
          /\ \A i \in living : Mark(i) < Len(Trimmed(t, m)) + 1
      <4>1. TypeOK /\ t \in Seq(Entries) /\ Sound(living, chain, t, mem, top) /\ m \in Nat
        BY <1>2, <1>6, <1>10
      <4>2. \A i \in living : q[i[1]][i[2]] = chain[i[1]][i[2]]
        BY <2>4
      <4> QED BY <2>5, <3>1, <4>1, <4>2, SoundNew
    <3> QED BY <2>3, <3>2
  <2>7. Marked(t, m) \in Seq(Entries)
    BY <1>2, <1>6, <1>10, MarkedIs
  <2>8. Sound(living', chain', trail', mem', top) /\ trail' \in Seq(Entries)
    <3>1. PICK K : K = living \cup {<<a, N>>}
      OBVIOUS
    <3>2. Sound(K, q, t2, mem, top) /\ t2 \in Seq(Entries)
      BY <2>2, <2>6, <2>7, <3>1
    <3>3. PICK me2 : me2 = mem'
      OBVIOUS
    <3>4. Sound(K, q, Append(t2, e), me2, top) /\ Append(t2, e) \in Seq(Entries)
      BY <1>2, <1>4, <1>10, <3>2, <3>3, AnswerSound
    <3> QED BY <1>5, <1>11, <2>2, <3>1, <3>3, <3>4
  <2>9. Onto(a, N) /\ chain'[a][N] = d /\ chain' \in [Ctx -> Seq(Headers)] /\ living' \subseteq Ctx \X Nat
    <3>1. PICK r, s : r = Len(running) /\ s = running'
      OBVIOUS
    <3>2. s[Len(s)] = a /\ \A j \in 1 .. Len(s) - 1 : j <= r /\ s[j] = running[j]
      <4>1. r \in Nat /\ r > 1 /\ Len(s) = r - 1
        BY <1>7, <1>9, <3>1
      <4>2. r - 1 \in 1 .. r - 1 /\ \A j \in 1 .. r - 2 : j \in 1 .. r - 1
        BY <4>1
      <4> QED BY <1>7, <1>9, <3>1, <4>1, <4>2
    <3>3. past' = past
      BY <1>5
    <3>4. /\ running' \in Seq(Ctx) /\ running' # <<>> /\ running'[Len(running')] = a
          /\ \A j \in 1 .. Len(running') - 1 : j <= Len(running) /\ running'[j] = running[j]
      BY <1>9, <3>1, <3>2
    <3> QED BY <1>6, <1>7, <2>1, <2>2, <2>3, <2>6, <3>3, <3>4, OntoIs
  <2>10. Again(a, N)
    <3>1. Len(running') <= Len(running) /\ running[Len(running')] = a
      BY <1>7, <1>9
    <3> QED BY <1>7, <2>1, <2>3, <2>9, <3>1 DEF Again
  <2>11. Fits(a, N, chain'[a][N], ctx')
    <3>1. N # 1 /\ n <= ctx'[g].seq
      BY <1>2, <1>10, <2>1
    <3> QED BY <1>7, <2>1, <2>3, <2>9, <3>1 DEF Fits
  <2>12. chain'[g] = chain[g]
    BY <1>7, <2>9 DEF Onto
  <2>13. NoNewBack
    <3>1. ASSUME NEW h \in Goals, NEW x \in Nat, x <= ctx[h].seq PROVE BackOnly(h, x)
      <4>1. CASE h = g
        <5>1. ctx'[g].gen # x
          <6>1. ctx[g].seq \in Nat
            BY <1>6, <1>7, ContextIs
          <6> QED BY <1>2, <3>1, <4>1, <6>1
        <5> QED BY <2>12, <4>1, <5>1 DEF BackOnly, Back
      <4>2. CASE h = a
        <5>1. ctx'[h].park = Going
          BY <1>7, <1>8, <3>1, <4>2
        <5>2. chain'[h][N].kind # "unwound" /\ Onto(h, N) /\ h \in Ctx
          BY <1>7, <2>1, <2>3, <2>9, <4>2
        <5> QED BY <1>6, <5>1, <5>2, BackOnlyPushed
      <4>3. CASE h # g /\ h # a
        <5>1. h \in Ctx
          BY DEF Ctx
        <5>2. chain'[h] = chain[h] /\ ctx'[h].park = ctx[h].park /\ ctx'[h].gen = ctx[h].gen
          BY <1>8, <2>9, <4>3, <5>1 DEF Onto
        <5> QED BY <5>2, BackOnlySame
      <4> QED BY <4>1, <4>2, <4>3
    <3> QED BY <1>6, <3>1, NoNewBackIs
  <2>14. NewRedo(a, N)
    <3>1. ASSUME NEW x \in 1 .. Len(chain'[g]), Back(g, n, x)' PROVE x = Len(chain[g])
      <4>1. SUFFICES ASSUME x + 1 \in DOMAIN chain[g], chain[g][x + 1].kind = "unwound",
                            chain[g][x + 1].gen = n
                     PROVE  FALSE
        BY <2>12, <3>1 DEF Back
      <4>2. chain[g][x + 1].gen <= ctx[g].seq
        BY <1>6, <1>7, <4>1 DEF Shaped
      <4>3. ctx[g].seq \in Nat
        BY <1>6, <1>7, ContextIs
      <4> QED BY <1>2, <4>1, <4>2, <4>3
    <3>2. chain'[a][N].gen = n /\ chain'[a][N].of = g
      BY <2>3, <2>9
    <3> QED BY <1>3, <1>7, <3>1, <3>2 DEF NewRedo
  <2>15. Stacked' /\ Spliced' /\ Shaped' /\ Apart'
    <3>1. \A c \in Active : ctx'[c].base = ctx[c].base /\ ctx'[c].floor = ctx[c].floor
      BY <1>6, <1>8, RunningIs
    <3>2. chain'[a][N].kind # "user" /\ ~Anew(a, N)
      BY <1>7, <2>1, <2>3, <2>9 DEF Anew
    <3> QED BY <1>6, <1>8, <2>9, <2>10, <2>11, <2>13, <2>14, <3>1, <3>2, PushKeeps
  <2>16. Contexted'
    <3>1. \A c \in Ctx \ {g} : chain'[c] = <<>> <=> chain[c] = <<>>
      <4>1. chain'[a] # <<>>
        <5>1. Len(chain'[a]) = N /\ N # 0 /\ chain'[a] \in Seq(Headers)
          BY <1>10, <2>1, <2>9 DEF Onto
        <5> QED BY <5>1
      <4> QED BY <1>7, <2>9, <4>1 DEF Onto
    <3>2. chain'[g] # <<>>
      <4>1. Len(chain[g]) \in Nat \ {0}
        BY <1>3, <1>6, ActiveIs, RunningIs
      <4> QED BY <2>12, <4>1
    <3> QED BY <1>2, <1>5, <1>6, <3>1, <3>2, ParksContexted DEF Answered, Absent
  <2>17. TypeOK'
    <3>1. ctx' \in [Ctx -> Contexts]
      BY <1>2 DEF Parks
    <3> QED BY <1>2, <1>5, <1>6, <1>8, <1>9, <2>8, <2>9, <3>1 DEF TypeOK
  <2>18. Sound(living, chain, trail, mem, top)'
    BY <1>5, <2>8
  <2> QED BY <1>5, <2>15, <2>16, <2>17, <2>18, GoesOn DEF Shift, Standing
<1>30. CASE det
  <2>1. /\ L = living \ {<<g, 1>>} /\ t2 = Tried(t, w, a) /\ living' = L /\ chain' = chain
        /\ Len(chain[g]) = 1
    BY <1>4, <1>5, <1>30
  <2>2. Less(g, 1) /\ chain \in [Ctx -> Seq(Headers)] /\ living' \subseteq Ctx \X Nat
    BY <1>3, <1>5, <1>6, <1>7, <2>1 DEF Less, TypeOK
  <2>3. Leave(g, 1)
    <3>1. LastShift(g) = 1
      BY <1>6, <2>2, LessIs
    <3>2. \A c \in Active \ {g} : ctx'[c].base = ctx[c].base /\ ctx'[c].floor = ctx[c].floor
      BY <1>6, <1>8, RunningIs
    <3> QED BY <1>7, <2>2, <3>1, <3>2 DEF Leave
  <2>4. NoneLost /\ Stacked'
    BY <1>6, <2>3, LeaveKeeps
  <2>5. LessBack(g, 1)
    <3>1. SUFFICES ASSUME NEW i \in living', Kind(i) = "redo",
                          NEW h, h = chain[i[1]][i[2]].of, NEW x, x = chain[i[1]][i[2]].gen
                   PROVE  /\ h \in Goals
                          /\ \A y \in 1 .. Len(chain'[h]) :
                                 Back(h, x, y)' => y \in 1 .. Len(chain[h]) /\ Back(h, x, y) /\ (h = g => y < 1)
      BY DEF LessBack
    <3>2. i \in living /\ i[1] \in Ctx /\ i[2] \in DOMAIN chain[i[1]]
      BY <1>6, <2>1, <3>1, LivingIs DEF Apart
    <3>3. h \in Goals /\ x <= ctx[h].seq
      BY <1>6, <3>1, <3>2 DEF Shaped, Kind
    <3>4. x \in Nat
      BY <1>6, <3>1, <3>2, GenIsNat DEF GenOfChoice
    <3>5. ASSUME NEW y \in 1 .. Len(chain'[h]), Back(h, x, y)'
          PROVE  y \in 1 .. Len(chain[h]) /\ Back(h, x, y) /\ (h = g => y < 1)
      <4>1. CASE h = g
        <5>1. ctx[g].seq \in Nat
          BY <1>6, <1>7, ContextIs
        <5>2. ctx'[g].gen # x
          BY <1>2, <3>3, <3>4, <4>1, <5>1
        <5>3. y + 1 \in DOMAIN chain[g]
          BY <2>1, <3>5, <4>1, <5>2 DEF Back
        <5>4. y = 1 /\ DOMAIN chain[g] = 1 .. 1
          BY <1>6, <1>7, <2>1, <3>5, <4>1, ChainsAre
        <5> QED BY <5>3, <5>4
      <4>2. CASE h # g
        <5>1. h \in Ctx \ {g}
          BY <3>3, <4>2 DEF Ctx
        <5>2. ctx'[h].park = ctx[h].park /\ ctx'[h].gen = ctx[h].gen
          BY <1>8, <5>1
        <5> QED BY <2>1, <3>5, <4>2, <5>2 DEF Back
      <4> QED BY <4>1, <4>2
    <3> QED BY <3>3, <3>5
  <2>6. Spliced' /\ Shaped' /\ Apart'
    <3>1. past[g].to <= Len(chain'[g])
      BY <1>6, <1>7, <2>1 DEF Shaped
    <3> QED BY <1>6, <1>8, <2>1, <2>2, <2>4, <2>5, <3>1, LessUserNext, LessRedoNext, LessApart, LessShaped
            DEF Spliced
  <2>7. Contexted'
    <3>1. chain[g] # <<>>
      BY <2>1
    <3> QED BY <1>2, <1>5, <1>6, <2>1, <3>1, ParksContexted DEF Answered, Absent
  <2>8. Sound(L, chain, t, mem, top)
    BY <1>2, <2>1, SoundOfFewer
  <2>9. Reach(L, chain, Higher(m, w))
    <3>1. Reach(L, chain, Len(t)) /\ \A i \in L : chain[i[1]][i[2]].mark \in Nat
      BY <1>2, <1>10, <2>8, SoundMarks
    <3>2. PICK z : z = Higher(m, w)
      OBVIOUS
    <3>3. z \in Nat /\ w <= z
      BY <1>2, <1>10, <3>2 DEF Higher
    <3> QED BY <1>2, <3>1, <3>2, <3>3 DEF Reach
  <2>10. a = Main => <<a, Len(chain[a])>> \in L /\ \A i \in L : Mark(i) <= MarkOf(a)
    <3>1. SUFFICES ASSUME a = Main
                   PROVE  <<a, Len(chain[a])>> \in L /\ \A i \in L : Mark(i) <= MarkOf(a)
      OBVIOUS
    <3>2. past[a].to # Len(chain[a])
      BY <1>6, <1>10, <3>1 DEF Contexted
    <3>3. Peak(a) \in living /\ Peak(a) = <<a, Len(chain[a])>>
      BY <1>6, <1>7, <3>2, PeakStands
    <3>4. MarkOf(a) = Mark(<<a, Len(chain[a])>>)
      BY <1>6, <1>7, LastChoiceIs
    <3>5. Level(a)' = MarkOf(a)
      <4>1. past' = past
        BY <1>5
      <4> QED BY <2>1, <3>3, <3>4, <4>1 DEF Level, Peak, PeakAt, Mark
    <3>6. Level(cur)' = Level(a)'
      BY <1>9 DEF Level, Peak, PeakAt, Mark
    <3>7. \A i \in L : Mark(i) <= MarkOf(a)
      BY <2>1, <2>4, <3>5, <3>6 DEF Stacked, Highest, Mark
    <3> QED BY <1>7, <2>1, <3>3, <3>7
  <2>11. Sound(L, chain, t2, mem, top) /\ t2 \in Seq(Entries)
    <3>1. MayMark(L, t, MarkOf(a))
      BY <1>4, <1>5
    <3>2. Reach(L, chain, Higher(MarkOf(a), w))
      BY <1>4, <2>9
    <3> QED BY <1>2, <1>6, <1>7, <2>1, <2>8, <2>10, <3>1, <3>2, SoundTried
  <2>12. Sound(living', chain', trail', mem', top) /\ trail' \in Seq(Entries)
    <3>1. PICK me2 : me2 = mem'
      OBVIOUS
    <3>2. Sound(L, chain, Append(t2, e), me2, top) /\ Append(t2, e) \in Seq(Entries)
      BY <1>2, <1>4, <1>10, <2>11, <3>1, AnswerSound
    <3> QED BY <1>5, <2>1, <3>1, <3>2
  <2>13. TypeOK'
    <3>1. ctx' \in [Ctx -> Contexts]
      BY <1>2 DEF Parks
    <3> QED BY <1>2, <1>5, <1>6, <1>8, <1>9, <2>1, <2>2, <2>12, <3>1 DEF TypeOK
  <2>14. Sound(living, chain, trail, mem, top)'
    BY <1>5, <2>12
  <2> QED BY <1>5, <2>4, <2>6, <2>7, <2>13, <2>14, GoesOn DEF Shift, Standing
<1> QED BY <1>20, <1>30

-----------------------------------------------------------------------------
(* The steps of failure.  The trail is unwound to the mark of the choice.  *)

LEMMA FailsIs ==
    ASSUME ShiftInv, NEW kind, Fails(kind), NEW c, c = cur, NEW N, N = Len(chain[c]), NEW b, b = B.mark
    PROVE  /\ Shift /\ TypeOK /\ Here /\ Contexted /\ Shaped /\ Apart /\ UserNext /\ RedoNext /\ InOrder
           /\ c \in Active /\ c \in Ctx /\ N \in Nat \ {0} /\ DOMAIN chain[c] = 1 .. N
           /\ <<c, N>> \in living /\ B = chain[c][N] /\ chain[c][N].kind = kind
           /\ past[c].to < N /\ b \in 1 .. Len(trail) /\ b \in Nat /\ Reach(living, chain, b)
           /\ past' = past /\ top' = top /\ trail' = SubSeq(trail, 1, b) /\ mem' = Unwound(b)
<1>1. /\ ended = "no" /\ InOrder /\ B.kind = kind /\ past' = past /\ top' = top
      /\ trail' = SubSeq(trail, 1, b) /\ mem' = Unwound(b)
  BY DEF Fails
<1>2. Shift /\ TypeOK /\ Here /\ Contexted /\ Shaped /\ Apart /\ UserNext /\ RedoNext
  BY <1>1, WhileItRuns DEF Here, Standing, Shift, Spliced
<1>3. /\ past[c].to < N /\ B = chain[c][N] /\ b = Mark(<<c, N>>) /\ N \in Nat \ {0}
  BY <1>1, <1>2, NextInLine
<1>4. c \in Active /\ c \in Ctx /\ DOMAIN chain[c] = 1 .. N
  BY <1>2, RunningIs, ChainsAre
<1>5. <<c, N>> \in living /\ \A i \in living : Mark(i) <= b
  BY <1>1 DEF InOrder
<1>6. b \in 1 .. Len(trail) /\ b \in Nat
  <2>1. PICK j : j = <<c, N>>
    OBVIOUS
  <2>2. j \in living /\ b = chain[j[1]][j[2]].mark
    BY <1>3, <1>5, <2>1 DEF Mark
  <2>3. Sound(living, chain, trail, mem, top) /\ trail \in Seq(Entries) /\ top \in Nat
    BY <1>2, OfTheTypes DEF Shift
  <2> QED BY <2>2, <2>3, SoundMarks
<1>7. Reach(living, chain, b)
  BY <1>5 DEF Reach, Mark
<1> QED BY <1>1, <1>2, <1>3, <1>4, <1>5, <1>6, <1>7

LEMMA RestoredIsValue ==
    ASSUME TypeOK, NEW m \in Nat, NEW x \in DOMAIN mem
    PROVE  Restored(trail, mem, m, x) \in Values
<1>1. trail \in Seq(Entries) /\ mem[x] \in Values
  BY OfTheTypes
<1>2. CASE EntriesOf(trail, m, x) = {}
  BY <1>1, <1>2, RestoredAsIs
<1>3. CASE EntriesOf(trail, m, x) # {}
  <2>1. PICK i \in EntriesOf(trail, m, x) : \A j \in EntriesOf(trail, m, x) : i <= j
    BY <1>1, <1>3, HasOldest
  <2>2. PICK e : e = trail[i]
    OBVIOUS
  <2>3. Restored(trail, mem, m, x) = e.old
    BY <1>1, <2>1, <2>2, RestoredFromOldest
  <2>4. e \in Entries
    BY <1>1, <2>1, <2>2, EntriesAreNat
  <2> QED BY <2>3, <2>4 DEF Entries
<1> QED BY <1>2, <1>3

LEMMA SoundFails ==
    ASSUME ShiftInv, NEW kind, Fails(kind), NEW L, L \subseteq living, NEW ch,
           \A i \in L : ch[i[1]][i[2]] = chain[i[1]][i[2]]
    PROVE  /\ Sound(L, ch, trail', mem', top) /\ trail' \in Seq(Entries)
           /\ mem' \in [Variables(top) -> Values] /\ Len(trail') \in Nat
<1>1. PICK b : b = B.mark
  OBVIOUS
<1>2. /\ TypeOK /\ b \in 1 .. Len(trail) /\ b \in Nat /\ Reach(living, chain, b)
      /\ trail' = SubSeq(trail, 1, b) /\ mem' = Unwound(b) /\ Shift
  BY <1>1, FailsIs
<1>3. /\ Sound(living, chain, trail, mem, top) /\ trail \in Seq(Entries) /\ top \in Nat
      /\ DOMAIN mem = Variables(top) /\ Len(trail) \in Nat
  BY <1>2, OfTheTypes DEF Shift
<1>4. Sound(L, ch, trail, mem, top)
  BY <1>3, SoundOfFewer
<1>5. Reach(L, ch, b)
  BY <1>2 DEF Reach
<1>6. PICK me : me = mem'
  OBVIOUS
<1>7. me = [x \in Variables(top) |-> Restored(trail, mem, b, x)]
  BY <1>2, <1>3, <1>6 DEF Unwound
<1>8. b \in 0 .. Len(trail)
  BY <1>2, <1>3
<1>9. \A x \in Variables(top) : me[x] = Restored(trail, mem, b, x)
  BY <1>7
<1>10. Sound(L, ch, SubSeq(trail, 1, b), me, top)
  BY <1>3, <1>4, <1>5, <1>8, <1>9, SoundPopped
<1>11. SubSeq(trail, 1, b) \in Seq(Entries) /\ Len(SubSeq(trail, 1, b)) = b
  BY <1>3, <1>8, PrefixOf
<1>12. me \in [Variables(top) -> Values]
  <2>1. \A x \in Variables(top) : Restored(trail, mem, b, x) \in Values
    BY <1>2, <1>3, RestoredIsValue
  <2> QED BY <1>7, <2>1
<1> QED BY <1>2, <1>6, <1>10, <1>11, <1>12

LEMMA PopsIs ==
    ASSUME ShiftInv, NEW kind, Fails(kind), Pops, NEW c, c = cur, NEW N, N = Len(chain[c])
    PROVE  /\ Less(c, N) /\ Len(chain'[c]) = N - 1 /\ chain' \in [Ctx -> Seq(Headers)]
           /\ living' \subseteq Ctx \X Nat
           /\ Sound(living', chain', trail', mem', top)
<1>1. /\ TypeOK /\ Here /\ Apart /\ c \in Ctx /\ N \in Nat \ {0} /\ past' = past
  BY FailsIs
<1>2. chain' = [chain EXCEPT ![c] = Front(@)] /\ living' = living \ {<<c, N>>}
  BY DEF Pops
<1>3. chain \in [Ctx -> Seq(Headers)] /\ chain[c] \in Seq(Headers) /\ living \subseteq Ctx \X Nat
  BY <1>1 DEF TypeOK
<1>4. /\ Front(chain[c]) \in Seq(Headers) /\ Len(Front(chain[c])) = N - 1
      /\ \A n \in 1 .. N - 1 : Front(chain[c])[n] = chain[c][n]
  <2>1. Front(chain[c]) = SubSeq(chain[c], 1, N - 1)
    BY <1>1, <1>3 DEF Front
  <2> QED BY <1>1, <1>3, <2>1
<1>5. /\ chain'[c] = Front(chain[c]) /\ chain' \in [Ctx -> Seq(Headers)]
      /\ \A d \in Ctx \ {c} : chain'[d] = chain[d]
  BY <1>1, <1>2, <1>3, <1>4
<1>6. Less(c, N)
  BY <1>1, <1>2, <1>4, <1>5 DEF Less
<1>7. living' \subseteq Ctx \X Nat
  BY <1>2, <1>3
<1>8. Sound(living', chain', trail', mem', top)
  <2>1. PICK L, ch : L = living' /\ ch = chain'
    OBVIOUS
  <2>2. L \subseteq living /\ \A i \in L : ch[i[1]][i[2]] = chain[i[1]][i[2]]
    BY <1>1, <1>2, <1>6, <2>1, LessLiving
  <2>3. Sound(L, ch, trail', mem', top)
    BY <2>2, SoundFails
  <2> QED BY <2>1, <2>3
<1> QED BY <1>4, <1>5, <1>6, <1>7, <1>8

(* A $reset_redo finds its goal where it has been before, but not at what  *)
(* has just been left.                                                     *)
LEMMA LessBackIs ==
    ASSUME Here, NEW c, NEW N, Less(c, N), Len(chain'[c]) = N - 1,
           \A h \in Goals \ {c} : ctx'[h].park \in {Answered, Spent} =>
               ctx[h].park \in {Answered, Spent} /\ ctx'[h].gen = ctx[h].gen,
           c \in Goals /\ ctx'[c].park \in {Answered, Spent} =>
               chain[c][N].kind = "unwound" /\ chain[c][N].gen = ctx'[c].gen
    PROVE  LessBack(c, N)
<1>1. SUFFICES ASSUME NEW i \in living', Kind(i) = "redo",
                      NEW h, h = chain[i[1]][i[2]].of, NEW x, x = chain[i[1]][i[2]].gen
               PROVE  /\ h \in Goals
                      /\ \A n \in 1 .. Len(chain'[h]) :
                             Back(h, x, n)' => n \in 1 .. Len(chain[h]) /\ Back(h, x, n) /\ (h = c => n < N)
  BY DEF LessBack
<1>2. TypeOK /\ Apart /\ Shaped
  BY DEF Here, Standing
<1>3. i \in living /\ i[1] \in Ctx /\ i[2] \in DOMAIN chain[i[1]]
  BY <1>2, LessLiving, LivingIs DEF Apart
<1>4. h \in Goals /\ h \in Ctx
  BY <1>1, <1>2, <1>3 DEF Shaped, Kind, Ctx
<1>5. ASSUME NEW n \in 1 .. Len(chain'[h]), Back(h, x, n)'
      PROVE  n \in 1 .. Len(chain[h]) /\ Back(h, x, n) /\ (h = c => n < N)
  <2>1. \/ n = Len(chain'[h]) /\ ctx'[h].park \in {Answered, Spent} /\ ctx'[h].gen = x
        \/ n + 1 \in DOMAIN chain'[h] /\ chain'[h][n + 1].kind = "unwound" /\ chain'[h][n + 1].gen = x
    BY <1>5 DEF Back
  <2>2. CASE h # c
    <3>1. chain'[h] = chain[h]
      BY <1>4, <2>2 DEF Less
    <3>2. ctx'[h].park \in {Answered, Spent} =>
              ctx[h].park \in {Answered, Spent} /\ ctx'[h].gen = ctx[h].gen
      BY <1>4, <2>2
    <3> QED BY <1>5, <2>1, <2>2, <3>1, <3>2 DEF Back
  <2>3. CASE h = c
    <3>1. N \in Nat \ {0} /\ Len(chain[c]) = N /\ DOMAIN chain[c] = 1 .. N
      BY LessIs
    <3>2. n \in 1 .. N - 1 /\ n \in 1 .. N /\ n < N /\ n + 1 \in 1 .. N
      BY <1>5, <2>3, <3>1
    <3>3. CASE n = Len(chain'[h]) /\ ctx'[h].park \in {Answered, Spent} /\ ctx'[h].gen = x
      <4>1. chain[c][N].kind = "unwound" /\ chain[c][N].gen = x
        BY <1>4, <2>3, <3>3
      <4>2. n + 1 = N
        BY <2>3, <3>1, <3>3
      <4> QED BY <2>3, <3>1, <3>2, <4>1, <4>2 DEF Back
    <3>4. CASE n + 1 \in DOMAIN chain'[h] /\ chain'[h][n + 1].kind = "unwound" /\ chain'[h][n + 1].gen = x
      <4>1. chain'[c] \in Seq(Headers) /\ \A k \in 1 .. N - 1 : chain'[c][k] = chain[c][k]
        BY DEF Less
      <4>2. n + 1 \in 1 .. N - 1
        BY <2>3, <3>1, <3>2, <3>4, <4>1
      <4> QED BY <2>3, <3>1, <3>2, <3>4, <4>1, <4>2 DEF Back
    <3> QED BY <2>1, <3>3, <3>4
  <2> QED BY <2>2, <2>3
<1> QED BY <1>4, <1>5

LEMMA RetryKeeps ==
    ASSUME ShiftInv, Retry
    PROVE  ShiftInv'
<1>1. /\ Fails("user") /\ failing' = FALSE /\ ended = "no"
      /\ UNCHANGED <<word, chain, ctx, running, living, ended>>
  BY DEF Retry, Fails
<1>2. Shift /\ TypeOK /\ past' = past /\ top' = top
  BY <1>1, FailsIs
<1>3. /\ Sound(living, chain, trail', mem', top) /\ trail' \in Seq(Entries)
      /\ mem' \in [Variables(top) -> Values]
  BY <1>1, SoundFails
<1>4. TypeOK'
  BY <1>1, <1>2, <1>3 DEF TypeOK
<1>5. Sound(living, chain, trail, mem, top)'
  BY <1>1, <1>2, <1>3
<1>6. Standing' /\ Stacked' /\ Spliced'
  BY <1>1, <1>2, SteadyKeeps DEF Shift
<1> QED BY <1>1, <1>4, <1>5, <1>6, GoesOn DEF Shift

LEMMA RetryLastKeeps ==
    ASSUME ShiftInv, RetryLast
    PROVE  ShiftInv'
<1>1. PICK c, N : c = cur /\ N = Len(chain[c])
  OBVIOUS
<1>2. /\ Fails("user") /\ Pops /\ failing' = FALSE /\ ended = "no"
      /\ UNCHANGED <<word, ctx, running, ended>>
  BY DEF RetryLast, Fails
<1>3. /\ Shift /\ TypeOK /\ Here /\ Contexted /\ Shaped /\ Apart /\ UserNext /\ RedoNext /\ InOrder
      /\ c \in Active /\ c \in Ctx /\ N \in Nat \ {0} /\ chain[c][N].kind = "user"
      /\ past[c].to < N /\ past' = past /\ top' = top
  BY <1>1, <1>2, FailsIs
<1>4. /\ Less(c, N) /\ Len(chain'[c]) = N - 1 /\ chain' \in [Ctx -> Seq(Headers)]
      /\ living' \subseteq Ctx \X Nat /\ Sound(living', chain', trail', mem', top)
  BY <1>1, <1>2, PopsIs
<1>5. trail' \in Seq(Entries) /\ mem' \in [Variables(top) -> Values]
  <2>1. Sound({}, chain, trail', mem', top) /\ trail' \in Seq(Entries) /\ mem' \in [Variables(top) -> Values]
    BY <1>2, SoundFails
  <2> QED BY <2>1
<1>6. TypeOK'
  BY <1>2, <1>3, <1>4, <1>5 DEF TypeOK
<1>7. Sound(living, chain, trail, mem, top)'
  BY <1>3, <1>4
<1>8. Drop(c, N)
  BY <1>3, <1>4 DEF Drop
<1>9. NoneLost /\ Stacked'
  <2>1. \A d \in Active : ctx'[d].base = ctx[d].base /\ ctx'[d].floor = ctx[d].floor
    BY <1>2
  <2> QED BY <1>2, <1>3, <1>8, <2>1, StayKeeps
<1>10. LessBack(c, N)
  <2>1. \A h \in Goals \ {c} : ctx'[h].park \in {Answered, Spent} =>
            ctx[h].park \in {Answered, Spent} /\ ctx'[h].gen = ctx[h].gen
    BY <1>2
  <2>2. c \in Goals => ctx'[c].park \notin {Answered, Spent}
    BY <1>2, <1>3 DEF Contexted, Going, Answered, Spent
  <2> QED BY <1>3, <1>4, <2>1, <2>2, LessBackIs
<1>11. Later(ctx, ctx')
  <2>1. \A h \in Goals : ctx[h].seq \in Nat
    BY <1>3, ContextIs DEF Ctx
  <2> QED BY <1>2, <2>1 DEF Later
<1>12. Spliced' /\ Shaped' /\ Apart'
  <2>1. past[c].to <= Len(chain'[c]) /\ Len(chain'[c]) # N /\ past[c].to \in Nat
    BY <1>3, <1>4, ChainsAre
  <2> QED BY <1>3, <1>4, <1>9, <1>10, <1>11, <2>1, LessUserNext, LessRedoNext, LessApart, LessShaped
          DEF Spliced
<1>13. Contexted'
  <2>1. Active' = Active /\ cur' = cur
    BY <1>2 DEF Active, cur
  <2>2. chain'[c] # <<>> /\ chain[c] # <<>>
    <3>1. N - 1 \in Nat \ {0}
      <4>1. PICK v : v = PeakAt(c, N - 1)
        OBVIOUS
      <4> QED BY <1>3, <1>8, <4>1, DropItself
    <3>2. chain'[c] # <<>>
      BY <1>4, <3>1
    <3>3. chain[c] # <<>>
      BY <1>1, <1>3
    <3> QED BY <3>2, <3>3
  <2>3. \A d \in Ctx : chain'[d] = <<>> <=> chain[d] = <<>>
    BY <1>4, <2>2 DEF Less
  <2> QED BY <1>2, <1>3, <2>1, <2>3 DEF Contexted, Ctx
<1> QED BY <1>2, <1>6, <1>7, <1>9, <1>12, <1>13, GoesOn DEF Shift, Standing

LEMMA RedoKeeps ==
    ASSUME ShiftInv, Strict, Redo
    PROVE  ShiftInv'
<1>1. PICK c, N, h, f : c = cur /\ N = Len(chain[c]) /\ h = B.of /\ f = ctx[h].base
  OBVIOUS
<1>2. /\ Fails("redo") /\ Pops /\ failing' = TRUE /\ ended' = ended /\ ended = "no"
      /\ ctx[h].park \in {Answered, Spent} /\ ctx[h].gen = B.gen /\ ~Lost(h)
      /\ ctx' = [ctx EXCEPT ![h] = Entered(h, trail', f)] /\ word' = FloorOf(ctx'[h])
      /\ running' = Append(running, h)
  BY <1>1 DEF Redo, Fails, Redoable
<1>3. /\ Shift /\ TypeOK /\ Here /\ Contexted /\ Shaped /\ Apart /\ UserNext /\ RedoNext /\ InOrder
      /\ c \in Active /\ c \in Ctx /\ N \in Nat \ {0} /\ chain[c][N].kind = "redo"
      /\ past[c].to < N /\ past' = past /\ top' = top
      /\ B = chain[c][N] /\ DOMAIN chain[c] = 1 .. N
  <2>1. Fails("redo")
    BY <1>2
  <2>2. c = cur /\ N = Len(chain[c])
    BY <1>1
  <2> QED BY <2>1, <2>2, FailsIs
<1>4. /\ Less(c, N) /\ Len(chain'[c]) = N - 1 /\ chain' \in [Ctx -> Seq(Headers)]
      /\ living' \subseteq Ctx \X Nat /\ Sound(living', chain', trail', mem', top)
  BY <1>1, <1>2, PopsIs
<1>5. trail' \in Seq(Entries) /\ mem' \in [Variables(top) -> Values] /\ Len(trail') \in Nat
  <2>1. /\ Sound({}, chain, trail', mem', top) /\ trail' \in Seq(Entries)
        /\ mem' \in [Variables(top) -> Values] /\ Len(trail') \in Nat
    BY <1>2, SoundFails
  <2> QED BY <2>1
<1>6. h \in Goals /\ h \in Ctx
  <2>1. N \in DOMAIN chain[c]
    BY <1>3
  <2> QED BY <1>1, <1>3, <2>1 DEF Shaped, Ctx
<1>7. /\ ctx' \in [Ctx -> Contexts] /\ \A d \in Ctx \ {h} : ctx'[d] = ctx[d]
      /\ ctx'[h].park = Going /\ ctx'[h].gen = ctx[h].gen /\ ctx'[h].seq = ctx[h].seq
      /\ ctx'[h].floor = f /\ ctx'[h].base = f /\ f \in Nat
  <2>1. ctx \in [Ctx -> Contexts] /\ ctx[h] \in Contexts /\ f \in Nat
    BY <1>1, <1>3, <1>6, ContextIs DEF TypeOK
  <2>2. PICK l : l = Len(trail')
    OBVIOUS
  <2>3. Entered(h, trail', f) = [ctx[h] EXCEPT !.park = Going, !.floor = f, !.tr = l]
    BY <2>2 DEF Entered
  <2>4. [ctx[h] EXCEPT !.park = Going, !.floor = f, !.tr = l] \in Contexts
    BY <1>5, <2>1, <2>2 DEF Contexts
  <2>5. ctx' = [ctx EXCEPT ![h] = [ctx[h] EXCEPT !.park = Going, !.floor = f, !.tr = l]]
    BY <1>2, <2>3
  <2>6. /\ ctx' \in [Ctx -> Contexts] /\ \A d \in Ctx \ {h} : ctx'[d] = ctx[d]
        /\ ctx'[h] = [ctx[h] EXCEPT !.park = Going, !.floor = f, !.tr = l]
    BY <1>6, <2>1, <2>4, <2>5
  <2> QED BY <1>1, <2>1, <2>6 DEF Contexts
<1>8. h \notin Active /\ ctx[h].park # Going /\ ctx[h].park # Absent
  BY <1>2, <1>3, <1>6 DEF Contexted, Going, Answered, Spent, Absent
<1>9. Drop(c, N)
  BY <1>3, <1>4 DEF Drop
<1>10. Send(c, N, h)
  <2>1. ctx'[h].floor \in Nat /\ ctx'[h].base = ctx'[h].floor
    BY <1>7
  <2>2. \A d \in Active : ctx'[d].base = ctx[d].base /\ ctx'[d].floor = ctx[d].floor
    <3>1. Active \subseteq Ctx
      BY <1>3, RunningIs
    <3> QED BY <1>7, <1>8, <3>1
  <2>3. /\ chain[c][N].kind = "redo" /\ h = chain[c][N].of /\ ctx[h].gen = chain[c][N].gen
        /\ ctx[h].park \in {Answered, Spent} /\ ~Lost(h) /\ running' = Append(running, h)
        /\ h \in Goals
    BY <1>1, <1>2, <1>3, <1>6
  <2> QED BY <1>9, <2>1, <2>2, <2>3 DEF Send
<1>11. NoneLost /\ Stacked'
  BY <1>3, <1>10, SendKeeps
<1>12. /\ running' \in Seq(Ctx) /\ Active' = Active \cup {h} /\ cur' = h
       /\ Len(running') = Len(running) + 1 /\ Len(running) \in Nat \ {0}
       /\ DOMAIN running' = 1 .. Len(running) + 1 /\ running'[Len(running) + 1] = h
       /\ \A j \in 1 .. Len(running) : running'[j] = running[j]
  BY <1>3, <1>10, SendRunning
<1>13. h # c
  BY <1>3, <1>8
<1>14. LessBack(c, N)
  <2>1. \A x \in Goals \ {c} : ctx'[x].park \in {Answered, Spent} =>
            ctx[x].park \in {Answered, Spent} /\ ctx'[x].gen = ctx[x].gen
    BY <1>7, <1>13 DEF Ctx, Going, Answered, Spent
  <2>2. c \in Goals => ctx'[c].park \notin {Answered, Spent}
    BY <1>3, <1>7, <1>13 DEF Contexted, Going, Answered, Spent
  <2> QED BY <1>3, <1>4, <2>1, <2>2, LessBackIs
<1>15. Later(ctx, ctx')
  <2>1. ASSUME NEW x \in Goals PROVE ctx[x].seq \in Nat /\ ctx'[x].seq = ctx[x].seq
    BY <1>3, <1>7, ContextIs DEF Ctx
  <2> QED BY <2>1 DEF Later
<1>16. Spliced' /\ Shaped' /\ Apart'
  <2>1. past[c].to <= Len(chain'[c]) /\ Len(chain'[c]) # N /\ past[c].to \in Nat
    BY <1>3, <1>4, ChainsAre
  <2> QED BY <1>3, <1>4, <1>11, <1>14, <1>15, <2>1, LessUserNext, LessRedoNext, LessApart, LessShaped
          DEF Spliced
<1>17. Contexted'
  <2>1. running'[1] = Main /\ \A j, k \in DOMAIN running' : running'[j] = running'[k] => j = k
    <3>1. PICK r, s : r = Len(running) /\ s = running'
      OBVIOUS
    <3>2. /\ DOMAIN running = 1 .. r /\ running[1] = Main
          /\ \A j, k \in 1 .. r : running[j] = running[k] => j = k
          /\ \A j \in 1 .. r : running[j] \in Active
      BY <1>3, <3>1, RunningIs DEF Contexted
    <3>3. /\ r \in Nat \ {0} /\ DOMAIN s = 1 .. r + 1 /\ s[r + 1] = h
          /\ \A j \in 1 .. r : s[j] = running[j]
      BY <1>12, <3>1
    <3>4. \A j \in 1 .. r + 1 : j \in 1 .. r \/ j = r + 1
      BY <3>3
    <3>5. \A j \in 1 .. r : s[j] # h
      BY <1>8, <3>2, <3>3
    <3>6. ASSUME NEW j \in 1 .. r + 1, NEW k \in 1 .. r + 1, s[j] = s[k] PROVE j = k
      BY <3>2, <3>3, <3>4, <3>5, <3>6
    <3>7. s[1] = Main
      BY <3>2, <3>3
    <3> QED BY <3>1, <3>3, <3>6, <3>7
  <2>2. chain'[c] # <<>> /\ chain[c] # <<>>
    <3>1. N - 1 \in Nat \ {0}
      <4>1. PICK v : v = PeakAt(c, N - 1)
        OBVIOUS
      <4> QED BY <1>3, <1>9, <4>1, DropItself
    <3>2. chain'[c] # <<>>
      BY <1>4, <3>1
    <3>3. chain[c] # <<>>
      BY <1>1, <1>3
    <3> QED BY <3>2, <3>3
  <2>3. \A d \in Ctx : chain'[d] = <<>> <=> chain[d] = <<>>
    BY <1>4, <2>2 DEF Less
  <2>4. ASSUME NEW g \in Goals
        PROVE  /\ g \in Active' <=> ctx'[g].park = Going
               /\ chain'[g] = <<>> <=> ctx'[g].park = Absent
               /\ ctx'[g].gen <= ctx'[g].seq
    <3>1. /\ g \in Active <=> ctx[g].park = Going
          /\ chain[g] = <<>> <=> ctx[g].park = Absent
          /\ ctx[g].gen <= ctx[g].seq /\ g \in Ctx
      BY <1>3 DEF Contexted, Ctx
    <3>2. CASE g = h
      BY <1>7, <1>8, <1>12, <2>3, <3>1, <3>2 DEF Going, Absent
    <3>3. CASE g # h
      <4>1. ctx'[g] = ctx[g]
        BY <1>7, <3>1, <3>3
      <4> QED BY <1>12, <2>3, <3>1, <3>3, <4>1
    <3> QED BY <3>2, <3>3
  <2>5. chain'[Main] # <<>> /\ past'[Main].to = 0 /\ word' = FloorOf(ctx'[cur'])
    BY <1>2, <1>3, <1>12, <2>3 DEF Contexted, Ctx
  <2> QED BY <2>1, <2>4, <2>5 DEF Contexted
<1>18. TypeOK'
  <2>1. word' \in Nat
    <3>1. ctx'[h] \in Contexts
      BY <1>6, <1>7
    <3>2. ctx'[h].keep \in Nat /\ ctx'[h].floor \in Nat
      BY <3>1 DEF Contexts
    <3> QED BY <1>2, <3>2 DEF FloorOf, Higher
  <2>2. running' # <<>> /\ running' \in Seq(Ctx)
    BY <1>12
  <2> QED BY <1>2, <1>3, <1>4, <1>5, <1>7, <2>1, <2>2 DEF TypeOK
<1>19. Sound(living, chain, trail, mem, top)'
  BY <1>3, <1>4
<1> QED BY <1>2, <1>11, <1>16, <1>17, <1>18, <1>19, GoesOn DEF Shift, Standing

(* The goal that runs comes to rest at $co_unwound or $co_finish. *)
AtRest(kind, c, N, p, gen) ==
    \/ kind = "unwound" /\ p = Spent /\ gen = chain[c][N].gen
    \/ kind = "finish" /\ p = Absent /\ gen = ctx[c].gen

Rested(c, N, p, gen, a) ==
    /\ Parks(c, a, p) /\ ctx'[c].gen = gen /\ failing' = TRUE /\ ended' = ended /\ ended = "no"
    /\ LastShift(c) = N /\ (N = 1 <=> p = Absent)

LEMMA RestsParks ==
    ASSUME ShiftInv, NEW kind, Fails(kind), NEW c, c = cur, NEW N, N = Len(chain[c]),
           NEW p, NEW gen, AtRest(kind, c, N, p, gen), Rests(c, p, gen), NEW a, a = Activator
    PROVE  Rested(c, N, p, gen, a)
<1>2. PICK k : k = Kept(a, ctx[c].tr, trail', p = Spent)
  OBVIOUS
<1>3. /\ ctx' = [ctx EXCEPT ![c].park = p, ![c].gen = gen, ![a].keep = k]
      /\ word' = WordAfter(a, k) /\ running' = Front(running) /\ failing' = TRUE /\ ended' = ended
      /\ ended = "no"
  BY <1>2 DEF Rests, Fails
<1>4. /\ TypeOK /\ Here /\ Contexted /\ Shaped /\ c \in Active /\ c \in Ctx /\ N \in Nat \ {0}
      /\ DOMAIN chain[c] = 1 .. N /\ chain[c][N].kind = kind
  <2>1. PICK b : b = B.mark
    OBVIOUS
  <2> QED BY <2>1, FailsIs
<1>5. Len(trail') \in Nat
  <2>1. Sound({}, chain, trail', mem', top) /\ Len(trail') \in Nat
    BY SoundFails
  <2> QED BY <2>1
<1>6. /\ (N = 1) <=> kind \in {"top", "finish"}
      /\ kind = "unwound" => c \in Goals /\ chain[c][N].gen <= ctx[c].seq
      /\ kind = "finish" => c \in Goals
  <2>1. N \in DOMAIN chain[c]
    BY <1>4
  <2> QED BY <1>4, <2>1 DEF Shaped
<1>7. c \in Goals
  BY <1>6 DEF AtRest
<1>8. a \in Ctx /\ a # c /\ ctx[c].seq \in Nat
  BY <1>4, <1>7, CallerOfGoal
<1>9. gen \in Nat /\ gen <= ctx[c].seq
  <2>1. ctx[c].gen \in Nat /\ ctx[c].gen <= ctx[c].seq
    BY <1>4, <1>7, ContextIs DEF Contexted
  <2>2. chain[c][N].gen \in Nat
    <3>1. chain[c] \in Seq(Headers) /\ N \in 1 .. Len(chain[c])
      BY <1>4, ChainsAre
    <3>2. PICK d : d = chain[c][N]
      OBVIOUS
    <3>3. d \in Headers
      BY <3>1, <3>2
    <3> QED BY <3>2, <3>3 DEF Headers
  <2> QED BY <1>6, <2>1, <2>2 DEF AtRest
<1>10. k \in Nat
  <2>1. ctx[a].keep \in Nat /\ ctx[c].tr \in Nat
    BY <1>4, <1>8, ContextIs
  <2> QED BY <1>2, <1>5, <2>1 DEF Kept, Higher, Lower
<1>11. p \in {Absent, Spent} /\ p # Going
  BY DEF AtRest, Absent, Spent, Going
<1>12. /\ ctx' \in [Ctx -> Contexts] /\ \A d \in Ctx \ {c, a} : ctx'[d] = ctx[d]
       /\ ctx'[c] = [ctx[c] EXCEPT !.park = p, !.gen = gen]
       /\ ctx'[a] = [ctx[a] EXCEPT !.keep = k]
  <2>1. ctx \in [Ctx -> Contexts] /\ ctx[c] \in Contexts /\ ctx[a] \in Contexts
    BY <1>4, <1>8 DEF TypeOK
  <2>2. [ctx[c] EXCEPT !.park = p, !.gen = gen] \in Contexts
    BY <1>9, <1>11, <2>1 DEF Contexts
  <2>3. [ctx[a] EXCEPT !.keep = k] \in Contexts
    BY <1>10, <2>1 DEF Contexts
  <2>4. ctx' = [ctx EXCEPT ![c] = [ctx[c] EXCEPT !.park = p, !.gen = gen],
                           ![a] = [ctx[a] EXCEPT !.keep = k]]
    BY <1>3, <1>4, <1>8, <2>1
  <2> QED BY <1>4, <1>8, <2>1, <2>2, <2>3, <2>4
<1>13. /\ ctx'[c].park = p /\ ctx'[c].gen = gen /\ ctx'[c].seq = ctx[c].seq /\ ctx'[a].keep = k
       /\ ctx'[c].base = ctx[c].base /\ ctx'[c].floor = ctx[c].floor
  <2>1. ctx[c] \in Contexts /\ ctx[a] \in Contexts
    BY <1>4, <1>8 DEF TypeOK
  <2> QED BY <1>12, <2>1 DEF Contexts
<1>14. Parks(c, a, p)
  <2>1. gen <= ctx[c].seq /\ ctx[c].seq <= ctx[c].seq
    BY <1>8, <1>9
  <2>2. word' = WordAfter(a, ctx'[a].keep)
    BY <1>3, <1>13
  <2> QED BY <1>3, <1>7, <1>11, <1>12, <1>13, <2>1, <2>2 DEF Parks
<1>15. LastShift(c) = N
  <2>1. N = 1 \/ chain[c][N].kind = "unwound"
    BY <1>4, <1>6 DEF AtRest
  <2>2. PICK s : s = chain[c]
    OBVIOUS
  <2>3. ShiftIn(s, N) = N
    BY <1>4, <2>1, <2>2, ShiftInTop
  <2> QED BY <2>2, <2>3 DEF LastShift
<1>16. (N = 1) <=> (p = Absent)
  BY <1>6 DEF AtRest, Absent, Spent
<1> QED BY <1>3, <1>13, <1>14, <1>15, <1>16 DEF Rested

LEMMA RestsKeeps ==
    ASSUME ShiftInv, NEW kind, Fails(kind), Pops, NEW c, c = cur, NEW N, N = Len(chain[c]),
           NEW p, NEW gen, AtRest(kind, c, N, p, gen), Rests(c, p, gen)
    PROVE  ShiftInv'
<1>1. PICK a : a = Activator
  OBVIOUS
<1>2. /\ Parks(c, a, p) /\ ctx'[c].gen = gen /\ failing' = TRUE /\ ended' = ended /\ ended = "no"
      /\ LastShift(c) = N /\ (N = 1 <=> p = Absent)
  <2>1. Rested(c, N, p, gen, a)
    BY <1>1, RestsParks
  <2> QED BY <2>1 DEF Rested
<1>3. /\ TypeOK /\ Here /\ Contexted /\ Shaped /\ Apart /\ UserNext /\ RedoNext
      /\ c \in Active /\ c \in Ctx /\ N \in Nat \ {0} /\ chain[c][N].kind = kind
      /\ past[c].to < N /\ past' = past /\ top' = top
  <2>1. PICK b : b = B.mark
    OBVIOUS
  <2> QED BY <2>1, FailsIs
<1>4. /\ Less(c, N) /\ Len(chain'[c]) = N - 1 /\ chain' \in [Ctx -> Seq(Headers)]
      /\ living' \subseteq Ctx \X Nat /\ Sound(living', chain', trail', mem', top)
  BY PopsIs
<1>5. trail' \in Seq(Entries) /\ mem' \in [Variables(top) -> Values]
  <2>1. Sound({}, chain, trail', mem', top) /\ trail' \in Seq(Entries) /\ mem' \in [Variables(top) -> Values]
    BY SoundFails
  <2> QED BY <2>1
<1>6. Parks(c, a, p) /\ c \in Goals /\ running' = Front(running) /\ ctx'[c].park = p
      /\ ctx' \in [Ctx -> Contexts]
  BY <1>2 DEF Parks
<1>7. Len(running) > 1 /\ a # c /\ a \in Ctx
  BY <1>1, <1>3, <1>6, CallerOfGoal
<1>8. /\ Later(ctx, ctx') /\ \A d \in Ctx \ {c} : ctx'[d].park = ctx[d].park /\ ctx'[d].gen = ctx[d].gen
      /\ \A d \in Ctx : ctx'[d].base = ctx[d].base /\ ctx'[d].floor = ctx[d].floor
      /\ word' \in Nat
  BY <1>3, <1>6, ParksIs
<1>9. Leave(c, N)
  <2>1. Active \subseteq Ctx
    BY <1>3, RunningIs
  <2> QED BY <1>2, <1>4, <1>6, <1>7, <1>8, <2>1 DEF Leave
<1>10. NoneLost /\ Stacked'
  BY <1>3, <1>9, LeaveKeeps
<1>11. LessBack(c, N)
  <2>1. \A h \in Goals \ {c} : ctx'[h].park \in {Answered, Spent} =>
            ctx[h].park \in {Answered, Spent} /\ ctx'[h].gen = ctx[h].gen
    BY <1>8 DEF Ctx
  <2>2. c \in Goals /\ ctx'[c].park \in {Answered, Spent} =>
            chain[c][N].kind = "unwound" /\ chain[c][N].gen = ctx'[c].gen
    BY <1>2, <1>3, <1>6 DEF AtRest, Absent, Answered, Spent
  <2> QED BY <1>3, <1>4, <2>1, <2>2, LessBackIs
<1>12. Spliced' /\ Shaped' /\ Apart'
  <2>1. past[c].to <= Len(chain'[c]) /\ Len(chain'[c]) # N /\ past[c].to \in Nat
    BY <1>3, <1>4, ChainsAre
  <2> QED BY <1>3, <1>4, <1>8, <1>10, <1>11, <2>1, LessUserNext, LessRedoNext, LessApart, LessShaped
          DEF Spliced
<1>13. Contexted'
  <2>1. \A d \in Ctx \ {c} : chain'[d] = chain[d]
    BY <1>4 DEF Less
  <2>2. chain'[c] = <<>> <=> p = Absent
    <3>1. PICK q : q = chain'[c]
      OBVIOUS
    <3>2. q \in Seq(Headers) /\ Len(q) = N - 1
      BY <1>3, <1>4, <3>1
    <3>3. q = <<>> <=> Len(q) = 0
      BY <3>2, EmptySeq
    <3>4. N - 1 = 0 <=> N = 1
      BY <1>3
    <3> QED BY <1>2, <3>1, <3>2, <3>3, <3>4
  <2> QED BY <1>3, <1>6, <2>1, <2>2, ParksContexted
<1>14. TypeOK'
  <2>1. running' # <<>> /\ running' \in Seq(Ctx)
    BY <1>3, <1>6, <1>7, FrontRunning
  <2> QED BY <1>2, <1>3, <1>4, <1>5, <1>6, <1>8, <2>1 DEF TypeOK
<1>15. Sound(living, chain, trail, mem, top)'
  BY <1>3, <1>4
<1> QED BY <1>2, <1>10, <1>12, <1>13, <1>14, <1>15, GoesOn DEF Shift, Standing

LEMMA UnwindKeeps ==
    ASSUME ShiftInv, Unwind
    PROVE  ShiftInv'
<1>1. PICK c, N, gen, kind, p : c = cur /\ N = Len(chain[c]) /\ gen = B.gen /\ kind = "unwound" /\ p = Spent
  OBVIOUS
<1>2. Fails(kind) /\ Pops /\ Rests(c, p, gen)
  BY <1>1 DEF Unwind
<1>3. B = chain[c][N]
  <2>1. PICK b : b = B.mark
    OBVIOUS
  <2> QED BY <1>1, <1>2, <2>1, FailsIs
<1>4. AtRest(kind, c, N, p, gen)
  BY <1>1, <1>3 DEF AtRest
<1> QED BY <1>1, <1>2, <1>4, RestsKeeps

LEMMA FinishKeeps ==
    ASSUME ShiftInv, Finish
    PROVE  ShiftInv'
<1>1. PICK c, N, gen, kind, p :
          c = cur /\ N = Len(chain[c]) /\ gen = ctx[c].gen /\ kind = "finish" /\ p = Absent
  OBVIOUS
<1>2. Fails(kind) /\ Pops /\ Rests(c, p, gen)
  BY <1>1 DEF Finish
<1>3. AtRest(kind, c, N, p, gen)
  BY <1>1 DEF AtRest
<1> QED BY <1>1, <1>2, <1>3, RestsKeeps

-----------------------------------------------------------------------------
(* How a program comes to its end. *)

LEMMA ExhaustedKeeps ==
    ASSUME ShiftInv, Exhausted
    PROVE  ShiftInv'
<1>1. /\ Fails("top") /\ ended' = "failed" /\ UNCHANGED <<word, chain, ctx, running, failing, living>>
  BY DEF Exhausted
<1>2. TypeOK /\ Apart /\ past' = past /\ top' = top
  <2>1. PICK c, N, b : c = cur /\ N = Len(chain[c]) /\ b = B.mark
    OBVIOUS
  <2> QED BY <1>1, <2>1, FailsIs
<1>3. /\ Sound(living, chain, trail', mem', top) /\ trail' \in Seq(Entries)
      /\ mem' \in [Variables(top) -> Values]
  BY <1>1, SoundFails
<1>4. TypeOK'
  BY <1>1, <1>2, <1>3 DEF TypeOK
<1>5. Sound(living, chain, trail, mem, top)'
  BY <1>1, <1>2, <1>3
<1>6. Apart'
  BY <1>1, <1>2, ApartSame
<1> QED BY <1>1, <1>4, <1>5, <1>6, ComesToAnEnd

LEMMA RedoRefusedKeeps ==
    ASSUME ShiftInv, RedoRefused
    PROVE  ShiftInv'
<1>1. PICK c, N : c = cur /\ N = Len(chain[c])
  OBVIOUS
<1>2. Fails("redo") /\ Pops /\ ended' = "refused" /\ UNCHANGED <<word, ctx, running, failing>>
  BY DEF RedoRefused
<1>3. TypeOK /\ Here /\ past' = past /\ top' = top
  <2>1. PICK b : b = B.mark
    OBVIOUS
  <2> QED BY <1>1, <1>2, <2>1, FailsIs
<1>4. /\ Less(c, N) /\ chain' \in [Ctx -> Seq(Headers)]
      /\ living' \subseteq Ctx \X Nat /\ Sound(living', chain', trail', mem', top)
  BY <1>1, <1>2, PopsIs
<1>5. trail' \in Seq(Entries) /\ mem' \in [Variables(top) -> Values]
  <2>1. Sound({}, chain, trail', mem', top) /\ trail' \in Seq(Entries) /\ mem' \in [Variables(top) -> Values]
    BY <1>2, SoundFails
  <2> QED BY <2>1
<1>6. TypeOK'
  BY <1>2, <1>3, <1>4, <1>5 DEF TypeOK
<1>7. Sound(living, chain, trail, mem, top)'
  BY <1>3, <1>4
<1>8. Apart'
  BY <1>3, <1>4, LessApart
<1> QED BY <1>2, <1>6, <1>7, <1>8, ComesToAnEnd

LEMMA RedoLostKeeps ==
    ASSUME ShiftInv, RedoLost
    PROVE  ShiftInv'
<1>1. ended' = "lost" /\ UNCHANGED <<mem, top, trail, word, chain, ctx, running, failing, living, past>>
  BY DEF RedoLost
<1>2. TypeOK /\ Sound(living, chain, trail, mem, top) /\ Apart
  BY DEF ShiftInv
<1>3. TypeOK'
  BY <1>1, <1>2 DEF TypeOK
<1>4. Sound(living, chain, trail, mem, top)'
  BY <1>1, <1>2
<1>5. Apart'
  BY <1>1, <1>2, ApartSame
<1> QED BY <1>1, <1>3, <1>4, <1>5, ComesToAnEnd

(* Only a lost goal is out of order. *)
LEMMA OutOfOrderKeeps ==
    ASSUME ShiftInv, OutOfOrder
    PROVE  ShiftInv'
<1>1. /\ ended = "no" /\ ~InOrder /\ ended' = "astray"
      /\ UNCHANGED <<mem, top, trail, word, chain, ctx, running, failing, living, past>>
  BY DEF OutOfOrder
<1>2. TypeOK /\ Sound(living, chain, trail, mem, top) /\ Apart /\ Here /\ Contexted /\ Shaped
  BY <1>1, WhileItRuns DEF ShiftInv, Here, Standing
<1>3. TypeOK'
  BY <1>1, <1>2 DEF TypeOK
<1>4. Sound(living, chain, trail, mem, top)' /\ Apart'
  BY <1>1, <1>2, ApartSame
<1>5. Lost(cur) /\ Len(chain[cur]) = past[cur].to
  <2>1. past[cur].to = Len(chain[cur])
    BY <1>1, <1>2, InLine
  <2>2. PICK c : c = cur
    OBVIOUS
  <2>3. c \in Active
    BY <1>2, <2>2, RunningIs
  <2>4. LastShift(c) \in 1 .. Len(chain[c]) /\ Len(chain[c]) \in Nat
    BY <1>2, <2>3, ActiveIs
  <2> QED BY <2>1, <2>2, <2>4 DEF Lost
<1>6. Chronological'
  <2>1. cur' = cur
    BY <1>1 DEF cur
  <2> QED BY <1>1, <1>5, <2>1 DEF Chronological, Lost, LastShift
<1> QED BY <1>1, <1>3, <1>4, <1>6 DEF ShiftInv

LEMMA StutterKeeps ==
    ASSUME ShiftInv, UNCHANGED vars
    PROVE  ShiftInv'
<1>1. /\ UNCHANGED <<mem, top, trail, word, chain, ctx, running, failing, living, past, ended>>
  BY DEF vars
<1>2. TypeOK /\ Sound(living, chain, trail, mem, top) /\ Apart /\ Chronological
  BY DEF ShiftInv
<1>3. TypeOK'
  BY <1>1, <1>2 DEF TypeOK
<1>4. Sound(living, chain, trail, mem, top)' /\ Apart'
  BY <1>1, <1>2, ApartSame
<1>5. ended' = "no" => Standing' /\ Stacked' /\ Spliced'
  BY <1>1, SteadyKeeps DEF ShiftInv
<1>6. Chronological'
  BY <1>1, <1>2 DEF Chronological, Lost, LastShift, cur
<1> QED BY <1>3, <1>4, <1>5, <1>6 DEF ShiftInv

-----------------------------------------------------------------------------
(* The start. *)

LEMMA InitTypes ==
    ASSUME Init
    PROVE  TypeOK
<1>1. /\ mem = [g \in Goals |-> 0] /\ top = 0 /\ word = 0 /\ running = <<Main>> /\ failing = FALSE
      /\ trail = <<[cell |-> 0, old |-> 0, hb |-> 0]>>
      /\ living = {<<Main, 1>>} /\ past = [c \in Ctx |-> [to |-> 0, under |-> <<Main, 1>>]]
      /\ ended = "no"
  BY DEF Init
<1>2. PICK k, d : k = "top" /\ d = [mark |-> 1, kind |-> k, of |-> Main, gen |-> 0, snap |-> mem]
  OBVIOUS
<1>3. chain = [c \in Ctx |-> IF c = Main THEN <<d>> ELSE <<>>]
  BY <1>2 DEF Init
<1>4. top \in 0 .. MaxHeap /\ mem \in [Variables(top) -> Values] /\ Main \in Ctx
  <2>1. MaxHeap \in Nat /\ MaxGen \in Nat
    BY Bounds
  <2>2. 1 .. 0 = {}
    OBVIOUS
  <2>3. Variables(top) = Goals
    BY <1>1, <2>2 DEF Variables
  <2>4. 0 \in Values
    BY <2>1 DEF Values
  <2> QED BY <1>1, <2>1, <2>3, <2>4 DEF Ctx
<1>5. d \in Headers
  <2>1. mem \in UNION {[Variables(n) -> Values] : n \in 0 .. MaxHeap}
    BY <1>4
  <2>2. k \in Kinds
    BY <1>2 DEF Kinds
  <2> QED BY <1>2, <1>4, <2>1, <2>2 DEF Headers, Kinds
<1>6. chain \in [Ctx -> Seq(Headers)]
  BY <1>3, <1>5
<1>7. ctx \in [Ctx -> Contexts]
  <2>1. PICK e : e = [park |-> Absent, seq |-> 0, gen |-> 0, base |-> 0, floor |-> 0,
                      keep |-> 0, tr |-> 0]
    OBVIOUS
  <2>2. e \in Contexts
    BY <2>1 DEF Contexts, Absent
  <2>3. ctx = [c \in Ctx |-> e]
    BY <2>1 DEF Init
  <2> QED BY <2>2, <2>3
<1>8. trail \in Seq(Entries)
  <2>1. 0 \in Nat /\ MaxHeap \in Nat /\ MaxGen \in Nat
    BY Bounds
  <2>2. 0 \in Goals \cup 0 .. MaxHeap /\ 0 \in Values
    BY <2>1 DEF Values
  <2>3. [cell |-> 0, old |-> 0, hb |-> 0] \in Entries
    BY <2>1, <2>2 DEF Entries
  <2> QED BY <1>1, <2>3
<1>9. running \in Seq(Ctx) /\ running # <<>>
  BY <1>1, <1>4
<1>10. living \subseteq Ctx \X Nat /\ past \in [Ctx -> [to : Nat, under : Ctx \X Nat]]
  BY <1>1, <1>4
<1> QED BY <1>1, <1>4, <1>6, <1>7, <1>8, <1>9, <1>10 DEF TypeOK

LEMMA InitIs ==
    ASSUME Init, NEW i, i = <<Main, 1>>
    PROVE  /\ living = {i} /\ running = <<Main>> /\ Active = {Main} /\ cur = Main
           /\ Len(running) = 1 /\ DOMAIN running = {1} /\ running[1] = Main
           /\ i[1] = Main /\ i[2] = 1 /\ Mark(i) = 1 /\ Kind(i) = "top" /\ chain[Main][1].snap = mem
           /\ Len(chain[Main]) = 1 /\ DOMAIN chain[Main] = {1} /\ Main \in Ctx
           /\ \A g \in Goals : g # Main /\ chain[g] = <<>> /\ ctx[g].park = Absent
                               /\ ctx[g].seq = 0 /\ ctx[g].gen = 0
           /\ \A c \in Ctx : past[c].to = 0 /\ FloorOf(ctx[c]) = 0 /\ ctx[c].base = 0 /\ ctx[c].floor = 0
           /\ word = 0 /\ ended = "no" /\ top = 0 /\ DOMAIN mem = Goals
           /\ trail = <<[cell |-> 0, old |-> 0, hb |-> 0]>>
<1>1. PICK d : d = [mark |-> 1, kind |-> "top", of |-> Main, gen |-> 0, snap |-> mem]
  OBVIOUS
<1>2. chain = [c \in Ctx |-> IF c = Main THEN <<d>> ELSE <<>>]
  BY <1>1 DEF Init
<1>3. /\ living = {i} /\ running = <<Main>> /\ word = 0 /\ ended = "no" /\ top = 0 /\ DOMAIN mem = Goals
      /\ trail = <<[cell |-> 0, old |-> 0, hb |-> 0]>>
      /\ past = [c \in Ctx |-> [to |-> 0, under |-> <<Main, 1>>]]
      /\ ctx = [c \in Ctx |-> [park |-> Absent, seq |-> 0, gen |-> 0, base |-> 0, floor |-> 0,
                               keep |-> 0, tr |-> 0]]
  BY DEF Init
<1>4. Main \in Ctx /\ \A g \in Goals : g \in Ctx /\ g # Main
  BY Bounds DEF Ctx
<1>5. chain[Main] = <<d>> /\ \A g \in Goals : chain[g] = <<>>
  BY <1>2, <1>4
<1>6. Len(chain[Main]) = 1 /\ DOMAIN chain[Main] = {1} /\ chain[Main][1] = d
  BY <1>5
<1>7. i[1] = Main /\ i[2] = 1
  OBVIOUS
<1>8. Mark(i) = 1 /\ Kind(i) = "top" /\ chain[Main][1].snap = mem
  BY <1>1, <1>6, <1>7 DEF Mark, Kind
<1>9. Len(running) = 1 /\ DOMAIN running = {1} /\ running[1] = Main
  BY <1>3
<1>10. Active = {Main} /\ cur = Main
  BY <1>9 DEF Active, cur, Last
<1>11. \A g \in Goals : ctx[g].park = Absent /\ ctx[g].seq = 0 /\ ctx[g].gen = 0
  BY <1>3, <1>4
<1>12. \A c \in Ctx : past[c].to = 0 /\ ctx[c].base = 0 /\ ctx[c].floor = 0 /\ ctx[c].keep = 0
  BY <1>3
<1>13. \A c \in Ctx : FloorOf(ctx[c]) = 0
  BY <1>12 DEF FloorOf, Higher
<1> QED BY <1>3, <1>4, <1>5, <1>6, <1>7, <1>8, <1>9, <1>10, <1>11, <1>12, <1>13

LEMMA InitSound ==
    ASSUME Init
    PROVE  Sound(living, chain, trail, mem, top)
<1>1. PICK i, e, c : i = <<Main, 1>> /\ e = [cell |-> 0, old |-> 0, hb |-> 0] /\ c = chain[Main][1]
  OBVIOUS
<1>2. /\ living = {i} /\ chain[i[1]][i[2]] = c /\ c.mark = 1 /\ c.snap = mem /\ top = 0
      /\ trail = <<e>> /\ DOMAIN mem = Goals
  <2>1. /\ living = {i} /\ i[1] = Main /\ i[2] = 1 /\ Mark(i) = 1 /\ chain[Main][1].snap = mem
        /\ top = 0 /\ DOMAIN mem = Goals /\ trail = <<[cell |-> 0, old |-> 0, hb |-> 0]>>
    BY <1>1, InitIs
  <2> QED BY <1>1, <2>1 DEF Mark
<1>3. trail[1] = e /\ Len(trail) = 1 /\ e.cell = 0 /\ e.hb = 0
  BY <1>1, <1>2
<1>4. Variables(0) = Goals
  <2>1. 1 .. 0 = {}
    OBVIOUS
  <2> QED BY <2>1 DEF Variables
<1>5. ASSUME NEW x PROVE Restored(trail, mem, 1, x) = mem[x]
  <2>1. EntriesOf(trail, 1, x) = {}
    BY <1>3 DEF EntriesOf
  <2> QED BY <2>1 DEF Restored
<1>6. ASSUME NEW j \in living PROVE j = i
  BY <1>2
<1> QED BY <1>2, <1>3, <1>4, <1>5, <1>6 DEF Sound, IsSentinel

LEMMA InitStands ==
    ASSUME Init
    PROVE  Standing /\ Stacked /\ Spliced
<1>1. PICK i : i = <<Main, 1>>
  OBVIOUS
<1>2. /\ living = {i} /\ running = <<Main>> /\ Active = {Main} /\ cur = Main
      /\ Len(running) = 1 /\ DOMAIN running = {1} /\ running[1] = Main
      /\ i[1] = Main /\ i[2] = 1 /\ Mark(i) = 1 /\ Kind(i) = "top"
      /\ Len(chain[Main]) = 1 /\ DOMAIN chain[Main] = {1} /\ Main \in Ctx
      /\ \A g \in Goals : g # Main /\ chain[g] = <<>> /\ ctx[g].park = Absent
                          /\ ctx[g].seq = 0 /\ ctx[g].gen = 0
      /\ \A c \in Ctx : past[c].to = 0 /\ FloorOf(ctx[c]) = 0 /\ ctx[c].base = 0 /\ ctx[c].floor = 0
      /\ word = 0
  BY <1>1, InitIs
<1>3. \A j \in living : j = i
  BY <1>2
<1>4. LastShift(Main) = 1 /\ ~Lost(Main) /\ Begin(Main) = 1
  <2>1. PICK s : s = chain[Main]
    OBVIOUS
  <2>2. ShiftIn(s, 1) = 1
    BY ShiftInTop
  <2>3. LastShift(Main) = 1
    BY <1>2, <2>1, <2>2 DEF LastShift
  <2>4. ~Lost(Main)
    BY <1>2, <2>3 DEF Lost
  <2>5. chain[Main][1].mark = 1
    BY <1>2 DEF Mark
  <2> QED BY <2>3, <2>4, <2>5 DEF Begin
<1>5. Level(Main) = 1
  <2>1. Peak(Main) = i
    BY <1>1, <1>2 DEF Peak, PeakAt
  <2> QED BY <1>2, <2>1 DEF Level
<1>6. Contexted
  <2>1. chain[Main] # <<>>
    BY <1>2
  <2>2. \A j, k \in DOMAIN running : j = k
    BY <1>2
  <2>3. ASSUME NEW g \in Goals
        PROVE  /\ g \in Active <=> ctx[g].park = Going
               /\ chain[g] = <<>> <=> ctx[g].park = Absent
               /\ ctx[g].gen <= ctx[g].seq
    BY <1>2 DEF Absent, Going
  <2> QED BY <1>2, <2>1, <2>2, <2>3 DEF Contexted
<1>7. Shaped
  <2>1. PICK k : k = chain[Main][1].kind
    OBVIOUS
  <2>2. k = "top"
    BY <1>2, <2>1 DEF Kind
  <2>3. ASSUME NEW c \in Ctx PROVE c = Main \/ (c \in Goals /\ chain[c] = <<>>)
    BY <1>2, <2>3 DEF Ctx
  <2>4. \A c \in Ctx : past[c].to = 0 /\ Len(chain[c]) \in Nat
    BY <1>2, InitTypes, ChainsAre
  <2>5. \A c \in Ctx : past[c].to <= Len(chain[c])
    BY <2>4
  <2>6. ASSUME NEW c \in Ctx, NEW n \in DOMAIN chain[c]
        PROVE  c = Main /\ n = 1 /\ chain[c][n].kind = "top"
    <3>1. c = Main
      <4>1. chain[c] = <<>> => DOMAIN chain[c] = {}
        OBVIOUS
      <4> QED BY <2>3, <4>1
    <3> QED BY <1>2, <2>1, <2>2, <3>1
  <2> QED BY <2>5, <2>6 DEF Shaped
<1>8. Apart
  <2>1. i[2] \in DOMAIN chain[i[1]]
    BY <1>2
  <2>2. ~(i[2] < i[2])
    BY <1>2
  <2> QED BY <1>3, <2>1, <2>2 DEF Apart
<1>9. Highest
  BY <1>2, <1>3, <1>5 DEF Highest
<1>10. OwnLive
  <2>1. ASSUME NEW n \in Nat, IsOwn(Main, n) PROVE <<Main, n>> = i
    BY <1>1, <1>2, <2>1 DEF IsOwn
  <2> QED BY <1>2, <1>4, <2>1 DEF OwnLive
<1>11. Grounded
  BY <1>2, <1>4 DEF Grounded
<1>12. Nested /\ Adjoined /\ Floored
  <2>1. \A k \in {1} : 1 .. k - 1 = {}
    OBVIOUS
  <2>2. 2 .. 1 = {}
    OBVIOUS
  <2>3. Nested
    BY <1>2, <2>1 DEF Nested
  <2>4. Adjoined
    BY <1>2, <2>2 DEF Adjoined
  <2>5. Floored
    BY <1>2, <2>2 DEF Floored
  <2> QED BY <2>3, <2>4, <2>5
<1>13. UserNext /\ RedoNext
  <2>1. \A j \in living : Kind(j) # "user" /\ Kind(j) # "redo"
    BY <1>2, <1>3
  <2>2. UserNext
    BY <2>1 DEF UserNext
  <2>3. RedoNext
    BY <2>1 DEF RedoNext
  <2> QED BY <2>2, <2>3
<1> QED BY <1>6, <1>7, <1>8, <1>9, <1>10, <1>11, <1>12, <1>13 DEF Standing, Stacked, Spliced

LEMMA InitShiftInv == Init => ShiftInv
<1> SUFFICES ASSUME Init PROVE ShiftInv
  OBVIOUS
<1>1. ended = "no"
  BY DEF Init
<1> QED BY <1>1, InitTypes, InitSound, InitStands DEF ShiftInv, Standing, Chronological

-----------------------------------------------------------------------------
(* The invariant. *)

LEMMA NextKeepsShiftInv ==
    ASSUME ShiftInv, Strict, [Next]_vars
    PROVE  ShiftInv'
<1>1. CASE NewVar
  BY <1>1, NewVarKeeps
<1>2. ASSUME NEW x \in DOMAIN mem \ Goals, Bind(x) PROVE ShiftInv'
  BY <1>2, BindKeeps
<1>3. CASE Open
  BY <1>3, OpenKeeps
<1>4. ASSUME NEW n \in 1 .. MaxChoices + 3, Commit(n) PROVE ShiftInv'
  <2>1. n \in Nat /\ n # 0
    BY Bounds
  <2> QED BY <1>4, <2>1, CommitKeeps
<1>5. ASSUME NEW g \in Goals, Start(g) PROVE ShiftInv'
  BY <1>5, StartKeeps
<1>6. ASSUME NEW g \in Goals, Call(g) PROVE ShiftInv'
  BY <1>6, CallKeeps
<1>7. ASSUME NEW g \in Goals, CallRefused(g) PROVE ShiftInv'
  BY <1>7, CallRefusedKeeps
<1>8. ASSUME NEW shifted \in BOOLEAN, Answer(shifted) PROVE ShiftInv'
  BY <1>8, AnswerKeeps
<1>9. CASE Retry \/ RetryLast
  BY <1>9, RetryKeeps, RetryLastKeeps
<1>10. CASE Exhausted
  BY <1>10, ExhaustedKeeps
<1>11. CASE Redo
  BY <1>11, RedoKeeps
<1>12. CASE RedoRefused \/ RedoLost
  BY <1>12, RedoRefusedKeeps, RedoLostKeeps
<1>13. CASE Unwind \/ Finish
  BY <1>13, UnwindKeeps, FinishKeeps
<1>14. CASE OutOfOrder
  BY <1>14, OutOfOrderKeeps
<1>15. CASE Ended \/ UNCHANGED vars
  BY <1>15, StutterKeeps DEF Ended
<1> QED BY <1>1, <1>2, <1>3, <1>4, <1>5, <1>6, <1>7, <1>8, <1>9, <1>10, <1>11, <1>12, <1>13, <1>14, <1>15
        DEF Next

(* In every program that keeps to its way, with any number of goals,       *)
(* choices and answers, the invariant holds: the contexts lie upon each    *)
(* other, and the trail is sound for every choice to be retried.           *)
THEOREM ShiftInvariance == Strict => (Spec => []ShiftInv)
<1> SUFFICES ASSUME Strict PROVE Spec => []ShiftInv
  OBVIOUS
<1>1. Init => ShiftInv
  BY InitShiftInv
<1>2. ShiftInv /\ [Next]_vars => ShiftInv'
  BY NextKeepsShiftInv
<1> QED BY <1>1, <1>2, PTL DEF Spec

(* The state of a program keeps its types whatever is shifted, resumed,    *)
(* committed and retried.                                                  *)
THEOREM ShiftTypes == Strict => (Spec => []TypeOK)
<1>1. ShiftInv => TypeOK
  BY DEF ShiftInv
<1> QED BY <1>1, ShiftInvariance, PTL

(* The context that runs always fails into the youngest of all choices     *)
(* that are to be retried, its own or another's, unless it has cut past a  *)
(* shift and has nothing left of its own.                                  *)
THEOREM FailsInOrder == Strict => (Spec => []Chronological)
<1>1. ShiftInv => Chronological
  BY DEF ShiftInv
<1> QED BY <1>1, ShiftInvariance, PTL

(* Failing back to any choice, in whatever context, finds every variable   *)
(* that was there as it was: $co_unwound, $reset_redo, the floor and the   *)
(* tidying of commits together lose no entry that is still needed.         *)
THEOREM FailingRestores == Strict => (Spec => []RestoresVariables)
<1>1. ShiftInv => RestoresVariables
  BY DEF ShiftInv, Sound, RestoresVariables
<1> QED BY <1>1, ShiftInvariance, PTL

(* Besides the choice mark nothing takes the sentinel of a choice that is  *)
(* to be retried, no commit, no failure and no hand-over.                  *)
THEOREM OnlyMarksSweep == Strict => (Spec => []SweptAreDead)
<1>1. ASSUME ShiftInv PROVE SweptAreDead
  <2>1. Sound(living, chain, trail, mem, top) /\ Apart /\ trail \in Seq(Entries)
    BY <1>1 DEF ShiftInv, TypeOK
  <2>2. ASSUME NEW i \in living PROVE Mark(i) <= Len(trail) /\ IsSentinel(trail[Mark(i)])
    <3>1. PICK c : c = chain[i[1]][i[2]]
      OBVIOUS
    <3>2. c.mark \in 1 .. Len(trail) /\ IsSentinel(trail[c.mark])
      BY <2>1, <3>1 DEF Sound
    <3> QED BY <2>1, <3>1, <3>2 DEF Mark
  <2> QED BY <2>1, <2>2 DEF SweptAreDead, Apart
<1> QED BY <1>1, ShiftInvariance, PTL
=============================================================================
