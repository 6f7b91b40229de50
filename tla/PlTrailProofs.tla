---------------------------- MODULE PlTrailProofs ----------------------------
(***************************************************************************)
(* Failing back restores every variable, and no attributed binding is lost *)
(* to $wakeup, for any number of cells, choices and entries.               *)
(*                                                                         *)
(* What a backtrack finds in a cell is decided by the oldest entry of the  *)
(* cell above the mark. The proof follows that entry through every step: a *)
(* cell a choice has to bring back is older than each younger choice, so   *)
(* that a binding of it is recorded whichever choice is the youngest, and  *)
(* a commit keeps its entries whichever choice it returns to.              *)
(***************************************************************************)
EXTENDS PlTrail, InductionLemmas, SequenceTheorems

-----------------------------------------------------------------------------
(* The invariant. *)

(* What popping the entries of tr above m leaves in cell x. *)
Restored(tr, me, m, x) ==
    IF EntriesOf(tr, m, x) = {} THEN me[x] ELSE tr[Oldest(EntriesOf(tr, m, x))].old

Restores ==
    \A k \in 1 .. Len(choices) : \A x \in DOMAIN choices[k].snap \ {Box} :
        Restored(trail, mem, choices[k].mark, x) = choices[k].snap[x]

(* Every open choice stands on its sentinel, and what it has to bring back *)
(* is older than it by the trail test.                                     *)
ChoicesStand ==
    \A k \in 1 .. Len(choices) :
        /\ choices[k].mark \in 1 .. Len(trail) /\ IsSentinel(trail[choices[k].mark])
        /\ choices[k].hi <= depth /\ HB(trail, choices[k]) <= top
        /\ DOMAIN choices[k].snap \subseteq
               (-choices[k].hi .. -1) \cup (1 .. HB(trail, choices[k])) \cup {Box}

(* A younger choice has to bring back all an older one has to. *)
ChoicesNest ==
    \A k, l \in 1 .. Len(choices) : k < l =>
        /\ choices[k].mark < choices[l].mark /\ choices[k].hi <= choices[l].hi
        /\ DOMAIN choices[k].snap \subseteq DOMAIN choices[l].snap

(* A heap variable is bound once and has one entry as long as it is bound. *)
BoundOnce ==
    \A i \in 1 .. Len(trail) : trail[i].cell \in Heap =>
        /\ trail[i].cell <= top /\ mem[trail[i].cell] = Bound
        /\ \A j \in 1 .. Len(trail) : trail[j].cell = trail[i].cell => j = i

TrailInv == TypeOK /\ ChoicesStand /\ ChoicesNest /\ BoundOnce /\ Restores /\ WakeupsAreFound

-----------------------------------------------------------------------------
(* The oldest entry. *)

LEMMA OldestIs ==
    ASSUME NEW S, S \subseteq Nat, S # {}
    PROVE  Oldest(S) \in S /\ \A j \in S : Oldest(S) <= j
BY NatHasLeast DEF Oldest

LEMMA EntriesAreNat ==
    ASSUME NEW tr \in Seq(Entries), NEW m \in Nat, NEW x
    PROVE  /\ EntriesOf(tr, m, x) \subseteq 1 .. Len(tr)
           /\ EntriesOf(tr, m, x) \subseteq Nat
           /\ \A i \in EntriesOf(tr, m, x) : tr[i] \in Entries /\ tr[i].old \in Nat
<1>1. \A i \in m + 1 .. Len(tr) : i \in 1 .. Len(tr) /\ i \in Nat /\ tr[i] \in Entries
  OBVIOUS
<1> QED BY <1>1 DEF EntriesOf, Entries

LEMMA HasOldest ==
    ASSUME NEW tr \in Seq(Entries), NEW m \in Nat, NEW x, EntriesOf(tr, m, x) # {}
    PROVE  \E i \in EntriesOf(tr, m, x) : \A j \in EntriesOf(tr, m, x) : i <= j
BY EntriesAreNat, OldestIs

LEMMA RestoredFromOldest ==
    ASSUME NEW tr \in Seq(Entries), NEW me, NEW m \in Nat, NEW x,
           NEW i \in EntriesOf(tr, m, x), \A j \in EntriesOf(tr, m, x) : i <= j
    PROVE  Restored(tr, me, m, x) = tr[i].old
<1> DEFINE E == EntriesOf(tr, m, x)
<1>1. E \subseteq Nat
  BY EntriesAreNat
<1>2. Oldest(E) \in E /\ \A j \in E : Oldest(E) <= j
  BY <1>1, OldestIs
<1>3. i = Oldest(E)
  BY <1>1, <1>2
<1> QED BY <1>3 DEF Restored

LEMMA RestoredAsIs ==
    ASSUME NEW tr, NEW me, NEW m, NEW x, EntriesOf(tr, m, x) = {}
    PROVE  Restored(tr, me, m, x) = me[x]
BY DEF Restored

(* Two trails with the same entries of a cell leave the same in it. *)
SameEntries(tr1, tr2, m, x1, x2) ==
    /\ EntriesOf(tr1, m, x1) = EntriesOf(tr2, m, x2)
    /\ \A i \in EntriesOf(tr1, m, x1) : tr1[i].old = tr2[i].old

LEMMA SameRestored ==
    ASSUME NEW tr1 \in Seq(Entries), NEW tr2, NEW me1, NEW me2, NEW m \in Nat,
           NEW x1, NEW x2, SameEntries(tr1, tr2, m, x1, x2), me1[x1] = me2[x2]
    PROVE  Restored(tr1, me1, m, x1) = Restored(tr2, me2, m, x2)
<1>1. CASE EntriesOf(tr1, m, x1) = {}
  BY <1>1 DEF Restored, SameEntries
<1>2. CASE EntriesOf(tr1, m, x1) # {}
  <2>1. Oldest(EntriesOf(tr1, m, x1)) \in EntriesOf(tr1, m, x1)
    BY <1>2, EntriesAreNat, OldestIs
  <2> QED BY <1>2, <2>1 DEF Restored, SameEntries
<1> QED BY <1>1, <1>2

(* One more entry. *)
LEMMA AppendedEntries ==
    ASSUME NEW tr \in Seq(Entries), NEW e \in Entries, NEW m \in 0 .. Len(tr), NEW x
    PROVE  /\ Append(tr, e) \in Seq(Entries) /\ Len(Append(tr, e)) = Len(tr) + 1
           /\ Append(tr, e)[Len(tr) + 1] = e
           /\ \A i \in 1 .. Len(tr) : Append(tr, e)[i] = tr[i]
           /\ EntriesOf(Append(tr, e), m, x) =
                  EntriesOf(tr, m, x) \cup (IF e.cell = x THEN {Len(tr) + 1} ELSE {})
<1>1. /\ Append(tr, e) \in Seq(Entries) /\ Len(Append(tr, e)) = Len(tr) + 1
      /\ Append(tr, e)[Len(tr) + 1] = e
      /\ \A i \in 1 .. Len(tr) : Append(tr, e)[i] = tr[i]
  BY AppendProperties
<1>2. m + 1 .. Len(tr) + 1 = (m + 1 .. Len(tr)) \cup {Len(tr) + 1}
  OBVIOUS
<1>3. \A i \in m + 1 .. Len(tr) : Append(tr, e)[i] = tr[i]
  BY <1>1
<1> QED BY <1>1, <1>2, <1>3 DEF EntriesOf

LEMMA AppendedOther ==
    ASSUME NEW tr \in Seq(Entries), NEW me, NEW e \in Entries, NEW m \in 0 .. Len(tr),
           NEW x, e.cell # x
    PROVE  Restored(Append(tr, e), me, m, x) = Restored(tr, me, m, x)
<1> DEFINE s == Append(tr, e)
<1>1. s \in Seq(Entries) /\ \A i \in 1 .. Len(tr) : s[i] = tr[i]
  BY AppendedEntries
<1>2. m \in Nat
  OBVIOUS
<1>3. EntriesOf(s, m, x) = EntriesOf(tr, m, x) \cup (IF e.cell = x THEN {Len(tr) + 1} ELSE {})
  BY AppendedEntries
<1> HIDE DEF s
<1>4. EntriesOf(tr, m, x) = EntriesOf(s, m, x)
  BY <1>3
<1>5. \A i \in EntriesOf(tr, m, x) : tr[i].old = s[i].old
  BY <1>1, <1>2, EntriesAreNat
<1>6. SameEntries(tr, s, m, x, x)
  BY <1>4, <1>5 DEF SameEntries
<1>7. Restored(tr, me, m, x) = Restored(s, me, m, x)
  BY <1>2, <1>6, SameRestored
<1> QED BY <1>7 DEF s

(* An entry saves what its cell held: failing back still finds it. *)
Saves(e, me, x) == e.cell = x /\ e.old = me[x]

LEMMA AppendedSaved ==
    ASSUME NEW tr \in Seq(Entries), NEW me1, NEW me2, NEW e \in Entries,
           NEW m \in 0 .. Len(tr), NEW x, Saves(e, me1, x)
    PROVE  Restored(Append(tr, e), me2, m, x) = Restored(tr, me1, m, x)
<1> USE DEF Saves
<1> DEFINE s == Append(tr, e)
           E == EntriesOf(tr, m, x)
           F == EntriesOf(s, m, x)
<1>1. /\ F = E \cup {Len(tr) + 1} /\ s \in Seq(Entries)
      /\ s[Len(tr) + 1] = e
      /\ \A i \in 1 .. Len(tr) : s[i] = tr[i]
  BY AppendedEntries
<1>2. m \in Nat /\ Len(tr) \in Nat
  OBVIOUS
<1>3. E \subseteq 1 .. Len(tr)
  BY <1>2, EntriesAreNat
<1> HIDE DEF s, E, F
<1>4. CASE E = {}
  <2>1. Restored(s, me2, m, x) = s[Len(tr) + 1].old
    <3> DEFINE n == Len(tr) + 1
    <3>1. n \in F /\ \A j \in F : n <= j
      BY <1>1, <1>2, <1>4
    <3> HIDE DEF n
    <3>2. Restored(s, me2, m, x) = s[n].old
      BY <1>1, <1>2, <3>1, RestoredFromOldest DEF F
    <3> QED BY <3>2 DEF n
  <2>2. Restored(tr, me1, m, x) = me1[x]
    BY <1>4, RestoredAsIs DEF E
  <2> QED BY <1>1, <2>1, <2>2 DEF s
<1>5. CASE E # {}
  <2>1. PICK i \in E : \A j \in E : i <= j
    BY <1>2, <1>5, HasOldest DEF E
  <2>2. i \in F /\ \A j \in F : i <= j
    BY <1>1, <1>2, <1>3, <2>1
  <2>3. Restored(s, me2, m, x) = s[i].old
    BY <1>1, <1>2, <2>2, RestoredFromOldest DEF F
  <2>4. Restored(tr, me1, m, x) = tr[i].old
    BY <1>2, <2>1, RestoredFromOldest DEF E
  <2> QED BY <1>1, <1>3, <2>1, <2>3, <2>4 DEF s
<1> QED BY <1>4, <1>5

LEMMA PrefixOf ==
    ASSUME NEW tr \in Seq(Entries), NEW b \in 0 .. Len(tr)
    PROVE  /\ SubSeq(tr, 1, b) \in Seq(Entries) /\ Len(SubSeq(tr, 1, b)) = b
           /\ \A i \in 1 .. b : SubSeq(tr, 1, b)[i] = tr[i]
BY SubSeqProperties

(* Popping to a mark in between first changes nothing. *)
LEMMA PoppedBetween ==
    ASSUME NEW tr \in Seq(Entries), NEW me1, NEW me2, NEW b \in 0 .. Len(tr),
           NEW m \in 0 .. b, NEW x, me2[x] = Restored(tr, me1, b, x)
    PROVE  Restored(SubSeq(tr, 1, b), me2, m, x) = Restored(tr, me1, m, x)
<1> DEFINE s == SubSeq(tr, 1, b)
           E == EntriesOf(tr, m, x)
           F == EntriesOf(s, m, x)
           G == EntriesOf(tr, b, x)
<1>0. b \in Nat /\ m \in Nat /\ Len(tr) \in Nat
  OBVIOUS
<1>1. s \in Seq(Entries) /\ Len(s) = b /\ \A i \in 1 .. b : s[i] = tr[i]
  BY SubSeqProperties
<1> HIDE DEF s
<1>2. E = F \cup G /\ \A i \in F, j \in G : i < j
  BY <1>0, <1>1 DEF EntriesOf
<1>3. E \subseteq Nat /\ F \subseteq 1 .. b /\ G \subseteq Nat
  BY <1>0, <1>1 DEF EntriesOf
<1> HIDE DEF E, F, G
<1>4. CASE F # {}
  <2>1. PICK i \in F : \A j \in F : i <= j
    BY <1>0, <1>1, <1>4, HasOldest DEF F
  <2>2. i \in E /\ \A j \in E : i <= j
    BY <1>2, <1>3, <2>1
  <2>3. Restored(s, me2, m, x) = s[i].old
    BY <1>0, <1>1, <2>1, RestoredFromOldest DEF F
  <2>4. Restored(tr, me1, m, x) = tr[i].old
    BY <1>0, <2>2, RestoredFromOldest DEF E
  <2> QED BY <1>1, <1>3, <2>1, <2>3, <2>4 DEF s
<1>5. CASE F = {} /\ G # {}
  <2>1. PICK i \in G : \A j \in G : i <= j
    BY <1>0, <1>5, HasOldest DEF G
  <2>2. i \in E /\ \A j \in E : i <= j
    BY <1>2, <1>5, <2>1
  <2>3. Restored(tr, me1, b, x) = tr[i].old
    BY <1>0, <2>1, RestoredFromOldest DEF G
  <2>4. Restored(tr, me1, m, x) = tr[i].old
    BY <1>0, <2>2, RestoredFromOldest DEF E
  <2>5. Restored(s, me2, m, x) = me2[x]
    BY <1>5, RestoredAsIs DEF F
  <2> QED BY <2>3, <2>4, <2>5 DEF s
<1>6. CASE F = {} /\ G = {}
  <2>1. Restored(s, me2, m, x) = me2[x]
    BY <1>6, RestoredAsIs DEF F
  <2>2. Restored(tr, me1, b, x) = me1[x]
    BY <1>6, RestoredAsIs DEF G
  <2>3. Restored(tr, me1, m, x) = me1[x]
    BY <1>2, <1>6, RestoredAsIs DEF E
  <2> QED BY <2>1, <2>2, <2>3 DEF s
<1> QED BY <1>4, <1>5, <1>6

-----------------------------------------------------------------------------
(* The tidying walk, unfolded. *)
WalkStep(f, i, c, n) ==
    IF i <= n THEN SubSeq(trail, 1, i)
    ELSE IF KeptUnder(c, trail[i]) THEN Append(f[i - 1], trail[i])
    ELSE f[i - 1]
IsWalk(f, l, c, n) == f = [i \in 0 .. l |-> WalkStep(f, i, c, n)]

LEMMA WalkExists ==
    ASSUME NEW c, NEW n \in Nat
    PROVE  \A l \in Nat : \E f : IsWalk(f, l, c, n)
<1> DEFINE T == {l \in Nat : \E f : IsWalk(f, l, c, n)}
<1>1. 0 \in T
  <2> DEFINE f == [i \in 0 .. 0 |-> SubSeq(trail, 1, i)]
  <2>1. IsWalk(f, 0, c, n)
    BY DEF WalkStep, IsWalk
  <2> QED BY <2>1
<1>2. ASSUME NEW l \in Nat, l \in T PROVE l + 1 \in T
  <2>1. PICK f : IsWalk(f, l, c, n)
    BY <1>2
  <2> DEFINE g == [i \in 0 .. l + 1 |-> IF i <= l THEN f[i] ELSE WalkStep(f, i, c, n)]
  <2>2. \A i \in 0 .. l + 1 : g[i] = WalkStep(g, i, c, n)
    <3> SUFFICES ASSUME NEW i \in 0 .. l + 1 PROVE g[i] = WalkStep(g, i, c, n)
      OBVIOUS
    <3>1. i # 0 => g[i - 1] = f[i - 1]
      OBVIOUS
    <3>2. WalkStep(g, i, c, n) = WalkStep(f, i, c, n)
      BY <3>1 DEF WalkStep
    <3>3. i <= l => f[i] = WalkStep(f, i, c, n)
      BY <2>1 DEF IsWalk
    <3> QED BY <3>2, <3>3
  <2>3. IsWalk(g, l + 1, c, n)
    BY <2>2 DEF IsWalk
  <2> HIDE DEF g
  <2> QED BY <2>3
<1>3. Nat \subseteq T
  <2> HIDE DEF T
  <2> QED BY <1>1, <1>2, SetInduction
<1> QED BY <1>3

LEMMA WalkedUnfolds ==
    ASSUME NEW c, NEW n \in Nat, trail \in Seq(Entries)
    PROVE  \E f : /\ Walked(c, n) = f[Len(trail)]
                  /\ \A i \in 0 .. Len(trail) : f[i] = WalkStep(f, i, c, n)
<1> DEFINE w == CHOOSE f : IsWalk(f, Len(trail), c, n)
<1>1. Walked(c, n) = w[Len(trail)]
  BY DEF Walked, WalkStep, IsWalk
<1>2. IsWalk(w, Len(trail), c, n)
  <2>0. Len(trail) \in Nat
    OBVIOUS
  <2>1. \E f : IsWalk(f, Len(trail), c, n)
    BY <2>0, WalkExists
  <2> QED BY <2>1
<1> HIDE DEF w
<1>3. \A i \in 0 .. Len(trail) : w[i] = WalkStep(w, i, c, n)
  BY <1>2 DEF IsWalk
<1> QED BY <1>1, <1>3

(* What the walk has left of the first i entries, k. *)
WalkedSoFar(k, i, n) ==
    /\ k \in Seq(Entries) /\ Len(k) <= i
    /\ i <= n => k = SubSeq(trail, 1, i)
    /\ n <= i => n <= Len(k) /\ \A p \in 1 .. n : k[p] = trail[p]
    /\ \A p \in 1 .. Len(k) : \E q \in 1 .. i : k[p] = trail[q]
    /\ \A p1, p2 \in 1 .. Len(k) :
           k[p1].cell \in Heap /\ k[p1].cell = k[p2].cell => p1 = p2

LEMMA WalkedIsApart ==
    ASSUME NEW c, NEW n \in 0 .. Len(trail), trail \in Seq(Entries), BoundOnce
    PROVE  WalkedSoFar(Walked(c, n), Len(trail), n)
<1>0. n \in Nat /\ Len(trail) \in Nat
  OBVIOUS
<1>1. PICK f : /\ Walked(c, n) = f[Len(trail)]
               /\ \A i \in 0 .. Len(trail) : f[i] = WalkStep(f, i, c, n)
  BY <1>0, WalkedUnfolds
<1>2. \A i \in 0 .. Len(trail) : i <= n => WalkedSoFar(f[i], i, n)
  <2> SUFFICES ASSUME NEW i \in 0 .. Len(trail), i <= n PROVE WalkedSoFar(f[i], i, n)
    OBVIOUS
  <2>1. f[i] = SubSeq(trail, 1, i)
    BY <1>1 DEF WalkStep
  <2>2. f[i] \in Seq(Entries) /\ Len(f[i]) = i /\ \A p \in 1 .. i : f[i][p] = trail[p]
    BY <2>1, SubSeqProperties
  <2>3. \A p1, p2 \in 1 .. i : trail[p1].cell \in Heap /\ trail[p1].cell = trail[p2].cell => p1 = p2
    BY DEF BoundOnce
  <2> QED BY <1>0, <2>1, <2>2, <2>3 DEF WalkedSoFar
<1> DEFINE T == {i \in Nat : i <= Len(trail) => WalkedSoFar(f[i], i, n)}
<1>3. 0 \in T
  BY <1>0, <1>2
<1>4. ASSUME NEW i \in Nat, i \in T PROVE i + 1 \in T
  <2> SUFFICES ASSUME i + 1 <= Len(trail) PROVE WalkedSoFar(f[i + 1], i + 1, n)
    OBVIOUS
  <2> DEFINE e == trail[i + 1]
             k == f[i]
  <2>1. WalkedSoFar(k, i, n)
    BY <1>0, <1>4
  <2>2. CASE i + 1 <= n
    BY <1>0, <1>2, <2>2
  <2>3. CASE i + 1 > n /\ ~KeptUnder(c, e)
    <3>1. f[i + 1] = k
      BY <1>0, <1>1, <2>3 DEF WalkStep
    <3> HIDE DEF k
    <3> QED BY <1>0, <2>1, <2>3, <3>1 DEF WalkedSoFar
  <2>4. CASE i + 1 > n /\ KeptUnder(c, e)
    <3>1. f[i + 1] = Append(k, e)
      <4>1. f[i + 1] = WalkStep(f, i + 1, c, n) /\ (i + 1) - 1 = i /\ ~(i + 1 <= n)
        BY <1>0, <1>1, <2>4
      <4>2. WalkStep(f, i + 1, c, n) = Append(f[(i + 1) - 1], trail[i + 1])
        BY <2>4, <4>1 DEF WalkStep
      <4> QED BY <4>1, <4>2
    <3>2. e \in Entries
      BY <1>0
    <3> DEFINE s == Append(k, e)
    <3> HIDE DEF k
    <3>3. k \in Seq(Entries) /\ Len(k) \in Nat /\ Len(k) <= i
      BY <2>1 DEF WalkedSoFar
    <3>4. /\ s \in Seq(Entries) /\ Len(s) = Len(k) + 1 /\ s[Len(k) + 1] = e
          /\ \A p \in 1 .. Len(k) : s[p] = k[p]
      BY <3>2, <3>3, AppendProperties
    <3> HIDE DEF s
    <3>5. n <= Len(s) /\ \A p \in 1 .. n : s[p] = trail[p]
      BY <1>0, <2>1, <2>4, <3>3, <3>4 DEF WalkedSoFar
    <3>6. \A p \in 1 .. Len(s) : \E q \in 1 .. i + 1 : s[p] = trail[q]
      <4> SUFFICES ASSUME NEW p \in 1 .. Len(s) PROVE \E q \in 1 .. i + 1 : s[p] = trail[q]
        OBVIOUS
      <4>1. CASE p = Len(k) + 1
        BY <3>4, <4>1
      <4>2. CASE p \in 1 .. Len(k)
        <5>1. PICK q \in 1 .. i : k[p] = trail[q]
          BY <2>1, <4>2 DEF WalkedSoFar
        <5> QED BY <3>4, <4>2, <5>1
      <4> QED BY <3>3, <3>4, <4>1, <4>2
    <3>7. \A p \in 1 .. Len(k) : k[p].cell \in Heap => k[p].cell # e.cell
      <4> SUFFICES ASSUME NEW p \in 1 .. Len(k), k[p].cell \in Heap, k[p].cell = e.cell
                   PROVE  FALSE
        OBVIOUS
      <4>1. PICK q \in 1 .. i : k[p] = trail[q]
        BY <2>1 DEF WalkedSoFar
      <4>2. q \in 1 .. Len(trail) /\ i + 1 \in 1 .. Len(trail) /\ q # i + 1
        BY <1>0
      <4> QED BY <4>1, <4>2 DEF BoundOnce
    <3>8. \A p1, p2 \in 1 .. Len(s) :
              s[p1].cell \in Heap /\ s[p1].cell = s[p2].cell => p1 = p2
      <4> SUFFICES ASSUME NEW p1 \in 1 .. Len(s), NEW p2 \in 1 .. Len(s),
                          s[p1].cell \in Heap, s[p1].cell = s[p2].cell
                   PROVE  p1 = p2
        OBVIOUS
      <4>1. \A p \in 1 .. Len(s) : p = Len(k) + 1 \/ p \in 1 .. Len(k)
        BY <3>3, <3>4
      <4>2. CASE p1 \in 1 .. Len(k) /\ p2 \in 1 .. Len(k)
        BY <2>1, <3>4, <4>2 DEF WalkedSoFar
      <4>3. CASE p1 = Len(k) + 1 /\ p2 \in 1 .. Len(k)
        BY <3>4, <3>7, <4>3
      <4>4. CASE p2 = Len(k) + 1 /\ p1 \in 1 .. Len(k)
        BY <3>4, <3>7, <4>4
      <4> QED BY <4>1, <4>2, <4>3, <4>4
    <3>9. f[i + 1] = s
      BY <3>1 DEF s
    <3>10. Len(s) <= i + 1 /\ ~(i + 1 <= n)
      BY <1>0, <2>4, <3>3, <3>4
    <3>11. WalkedSoFar(s, i + 1, n)
      BY <3>4, <3>5, <3>6, <3>8, <3>10 DEF WalkedSoFar
    <3> QED BY <3>9, <3>11
  <2> QED BY <1>0, <2>2, <2>3, <2>4
<1>5. Nat \subseteq T
  <2> HIDE DEF T
  <2> QED BY <1>3, <1>4, SetInduction
<1>6. WalkedSoFar(f[Len(trail)], Len(trail), n)
  BY <1>0, <1>5
<1> QED BY <1>1, <1>6

(* A cell all of whose entries above n the choice needs is restored from   *)
(* the walked trail as from the trail before.                              *)
LEMMA WalkedRestores ==
    ASSUME NEW c, NEW n \in 0 .. Len(trail), trail \in Seq(Entries), BoundOnce,
           NEW m \in 0 .. n, NEW x,
           \A i \in 1 .. Len(trail) : trail[i].cell = x => KeptUnder(c, trail[i])
    PROVE  \A me : Restored(Walked(c, n), me, m, x) = Restored(trail, me, m, x)
<1>0. n \in Nat /\ Len(trail) \in Nat /\ m \in Nat
  OBVIOUS
<1>1. PICK f : /\ Walked(c, n) = f[Len(trail)]
               /\ \A i \in 0 .. Len(trail) : f[i] = WalkStep(f, i, c, n)
  BY <1>0, WalkedUnfolds
<1> DEFINE Same(i) == /\ f[i] \in Seq(Entries) /\ Len(f[i]) >= m
                      /\ \A me : Restored(f[i], me, m, x) = Restored(SubSeq(trail, 1, i), me, m, x)
           T == {i \in Nat : n <= i /\ i <= Len(trail) => Same(i)}
<1>2. \A i \in 0 .. Len(trail) : SubSeq(trail, 1, i) \in Seq(Entries) /\ Len(SubSeq(trail, 1, i)) = i
  BY PrefixOf
<1>3. Same(n)
  <2>1. f[n] = SubSeq(trail, 1, n)
    <3>1. f[n] = WalkStep(f, n, c, n) /\ n <= n
      BY <1>0, <1>1
    <3> QED BY <3>1 DEF WalkStep
  <2>2. SubSeq(trail, 1, n) \in Seq(Entries) /\ Len(SubSeq(trail, 1, n)) = n
    BY <1>2
  <2>3. n >= m
    BY <1>0
  <2> QED BY <2>1, <2>2, <2>3
<1>4. 0 \in T
  BY <1>0, <1>3
<1>5. ASSUME NEW i \in Nat, i \in T PROVE i + 1 \in T
  <2> SUFFICES ASSUME n <= i + 1, i + 1 <= Len(trail) PROVE Same(i + 1)
    OBVIOUS
  <2>1. CASE i + 1 = n
    BY <1>3, <2>1
  <2>2. CASE n <= i
    <3> DEFINE e == trail[i + 1]
               k == f[i]
               s == SubSeq(trail, 1, i)
    <3>1. Same(i)
      BY <1>0, <1>5, <2>2
    <3>2. e \in Entries
      BY <1>0
    <3>3. SubSeq(trail, 1, i + 1) = Append(s, e)
      <4>1. SubSeq(trail, 1, i + 1) = SubSeq(trail, 1, i + 1 - 1) \o <<e>>
        BY <1>0, SubSeqRecursiveSecond
      <4>2. s \in Seq(Entries)
        BY <1>0, <1>2
      <4> QED BY <3>2, <4>1, <4>2, AppendIsConcat
    <3>4. /\ k \in Seq(Entries) /\ m \in 0 .. Len(k)
          /\ s \in Seq(Entries) /\ m \in 0 .. Len(s)
          /\ \A me : Restored(k, me, m, x) = Restored(s, me, m, x)
      <4>1. k \in Seq(Entries) /\ Len(k) >= m /\ Len(k) \in Nat
        BY <3>1
      <4>2. s \in Seq(Entries) /\ Len(s) = i
        BY <1>0, <1>2
      <4> QED BY <1>0, <2>2, <3>1, <4>1, <4>2
    <3>5. f[i + 1] = IF KeptUnder(c, e) THEN Append(k, e) ELSE k
      <4>1. f[i + 1] = WalkStep(f, i + 1, c, n) /\ (i + 1) - 1 = i /\ ~(i + 1 <= n)
        BY <1>0, <1>1, <2>2
      <4> QED BY <4>1 DEF WalkStep
    <3>6. e.cell = x => KeptUnder(c, e)
      BY <1>0
    <3> HIDE DEF e, k, s
    <3>7. CASE e.cell = x
      <4>1. f[i + 1] = Append(k, e)
        BY <3>5, <3>6, <3>7
      <4>2. Append(k, e) \in Seq(Entries) /\ Len(Append(k, e)) >= m
        BY <3>2, <3>4, AppendProperties
      <4>3. ASSUME NEW me PROVE Restored(Append(k, e), me, m, x) = Restored(Append(s, e), me, m, x)
        <5> DEFINE me1 == [y \in {x} |-> e.old]
        <5>1. Saves(e, me1, x)
          BY <3>7 DEF Saves
        <5> HIDE DEF me1
        <5>2. Restored(Append(k, e), me, m, x) = Restored(k, me1, m, x)
          BY <3>2, <3>4, <5>1, AppendedSaved
        <5>3. Restored(Append(s, e), me, m, x) = Restored(s, me1, m, x)
          BY <3>2, <3>4, <5>1, AppendedSaved
        <5> QED BY <3>4, <5>2, <5>3
      <4> QED BY <3>3, <4>1, <4>2, <4>3
    <3>8. CASE e.cell # x
      <4>1. ASSUME NEW me PROVE Restored(Append(s, e), me, m, x) = Restored(s, me, m, x)
        BY <3>2, <3>4, <3>8, AppendedOther
      <4>2. ASSUME NEW me PROVE Restored(Append(k, e), me, m, x) = Restored(k, me, m, x)
        BY <3>2, <3>4, <3>8, AppendedOther
      <4>3. Append(k, e) \in Seq(Entries) /\ Len(Append(k, e)) >= m
        BY <3>2, <3>4, AppendProperties
      <4>4. k \in Seq(Entries) /\ Len(k) >= m
        BY <1>0, <3>4
      <4> QED BY <3>3, <3>4, <3>5, <4>1, <4>2, <4>3, <4>4
    <3> QED BY <3>7, <3>8
  <2> QED BY <1>0, <2>1, <2>2
<1>6. Nat \subseteq T
  <2> HIDE DEF T
  <2> QED BY <1>4, <1>5, SetInduction
<1>7. Same(Len(trail))
  BY <1>0, <1>6
<1>8. SubSeq(trail, 1, Len(trail)) = trail
  BY SubSeqFull
<1> QED BY <1>1, <1>7, <1>8

-----------------------------------------------------------------------------
(* Facts about the choices. *)

LEMMA CellsAre ==
    /\ MaxHeap \in Nat /\ MaxFrames \in Nat /\ Box \in Cells /\ Stamp \in Cells
    /\ Heap \subseteq Cells /\ Frame \subseteq Cells /\ Cells \subseteq Int /\ 0 \notin Cells
    /\ Box \notin Heap /\ Stamp \notin Heap /\ Box \notin Frame /\ Stamp \notin Frame /\ Box # Stamp
<1>1. MaxHeap \in Nat /\ MaxFrames \in Nat
  BY Bounds
<1>2. Box \in Nat /\ Stamp \in Nat /\ Box = MaxHeap + 1 /\ Stamp = MaxHeap + 2
  BY <1>1 DEF Box, Stamp
<1>3. /\ Heap \subseteq Nat /\ 0 \notin Heap /\ Box \notin Heap /\ Stamp \notin Heap
      /\ Frame \subseteq Int /\ 0 \notin Frame /\ Box \notin Frame /\ Stamp \notin Frame
  BY <1>1, <1>2 DEF Heap, Frame
<1>4. Box # 0 /\ Stamp # 0 /\ Box # Stamp /\ Nat \subseteq Int
  BY <1>1, <1>2
<1> QED BY <1>1, <1>2, <1>3, <1>4 DEF Cells

LEMMA HeadersAre ==
    ASSUME TypeOK
    PROVE  \A k \in 1 .. Len(choices) :
               /\ choices[k] \in Headers /\ choices[k].mark \in Nat /\ choices[k].hi \in Nat
               /\ DOMAIN choices[k].snap \subseteq Cells
               /\ \A x \in DOMAIN choices[k].snap : choices[k].snap[x] \in Nat
<1> SUFFICES ASSUME NEW k \in 1 .. Len(choices)
             PROVE  /\ choices[k] \in Headers /\ choices[k].mark \in Nat /\ choices[k].hi \in Nat
                    /\ DOMAIN choices[k].snap \subseteq Cells
                    /\ \A x \in DOMAIN choices[k].snap : choices[k].snap[x] \in Nat
  OBVIOUS
<1>1. choices[k] \in Headers
  BY DEF TypeOK
<1>2. PICK S \in SUBSET Cells : choices[k].snap \in [S -> Nat]
  BY <1>1 DEF Headers
<1> QED BY <1>1, <1>2 DEF Headers

LEMMA EntriesAre ==
    ASSUME TypeOK
    PROVE  \A i \in 1 .. Len(trail) :
               /\ trail[i] \in Entries /\ trail[i].cell \in {0} \cup Cells
               /\ trail[i].hb \in Nat /\ trail[i].old \in Nat
<1>1. \A i \in 1 .. Len(trail) : trail[i] \in Entries
  BY DEF TypeOK
<1> QED BY <1>1 DEF Entries

(* What a choice has to bring back is live, and older than it and every    *)
(* younger choice.                                                         *)
LEMMA SavedIsOlder ==
    ASSUME TypeOK, ChoicesStand, ChoicesNest,
           NEW k \in 1 .. Len(choices), NEW l \in k .. Len(choices),
           NEW x \in DOMAIN choices[k].snap \ {Box}
    PROVE  /\ x \in DOMAIN choices[l].snap \ {Box}
           /\ x \in (-choices[k].hi .. -1) \cup (1 .. HB(trail, choices[k]))
           /\ x \in (-choices[l].hi .. -1) \cup (1 .. HB(trail, choices[l]))
           /\ x \in Live /\ x \in Cells /\ x # 0 /\ x # Stamp
           /\ Older(trail, choices[l], x)
<1>1. l \in 1 .. Len(choices) /\ (k < l \/ k = l)
  BY DEF TypeOK
<1>2. x \in DOMAIN choices[l].snap \ {Box}
  BY <1>1 DEF ChoicesNest
<1>3. /\ x \in (-choices[k].hi .. -1) \cup (1 .. HB(trail, choices[k]))
      /\ x \in (-choices[l].hi .. -1) \cup (1 .. HB(trail, choices[l]))
  BY <1>1, <1>2 DEF ChoicesStand
<1>4. /\ choices[l].hi \in Nat /\ choices[l].hi <= depth /\ depth \in Nat /\ depth <= MaxFrames
      /\ HB(trail, choices[l]) \in Nat /\ HB(trail, choices[l]) <= top /\ top \in Nat /\ top <= MaxHeap
  <2>1. choices[l].hi \in Nat /\ choices[l].hi <= depth /\ HB(trail, choices[l]) <= top
    BY <1>1, HeadersAre DEF ChoicesStand
  <2>2. trail[choices[l].mark].hb \in Nat
    BY <1>1, EntriesAre DEF ChoicesStand
  <2> QED BY <2>1, <2>2, Bounds DEF TypeOK, HB
<1>5. x \in Live
  BY <1>3, <1>4 DEF Live
<1>6. x \in Cells /\ x # 0 /\ x # Stamp
  BY <1>4, <1>5, Bounds DEF Live, Cells, Heap, Frame, Stamp
<1>7. Older(trail, choices[l], x)
  BY <1>3, <1>4, <1>5 DEF Live, Older
<1> QED BY <1>2, <1>3, <1>5, <1>6, <1>7

(* The choices up to K keep standing when their sentinels do. *)
LEMMA ChoicesKept ==
    ASSUME TypeOK, ChoicesStand, ChoicesNest, NEW K \in 0 .. Len(choices),
           Len(choices') = K, \A k \in 1 .. K : choices'[k] = choices[k],
           Len(trail') \in Nat, top' \in Nat, top <= top',
           \A k \in 1 .. K :
               /\ choices[k].mark <= Len(trail') /\ choices[k].hi <= depth'
               /\ trail'[choices[k].mark].cell = trail[choices[k].mark].cell
               /\ trail'[choices[k].mark].hb = trail[choices[k].mark].hb
    PROVE  ChoicesStand' /\ ChoicesNest'
<1>0. \A k \in 1 .. K : k \in 1 .. Len(choices)
  BY DEF TypeOK
<1>1. ChoicesStand'
  <2> SUFFICES ASSUME NEW k \in 1 .. K
               PROVE  /\ choices[k].mark \in 1 .. Len(trail')
                      /\ IsSentinel(trail'[choices[k].mark])
                      /\ choices[k].hi <= depth' /\ HB(trail', choices[k]) <= top'
                      /\ DOMAIN choices[k].snap \subseteq
                             (-choices[k].hi .. -1) \cup (1 .. HB(trail', choices[k])) \cup {Box}
    BY DEF ChoicesStand
  <2>1. HB(trail', choices[k]) = HB(trail, choices[k])
    BY DEF HB
  <2>2. choices[k].mark \in 1 .. Len(trail) /\ HB(trail, choices[k]) \in Nat
    BY <1>0, EntriesAre DEF ChoicesStand, HB
  <2>3. choices[k].mark \in 1 .. Len(trail')
    BY <2>2
  <2>4. HB(trail, choices[k]) <= top'
    <3>1. HB(trail, choices[k]) <= top
      BY <1>0 DEF ChoicesStand
    <3> QED BY <2>2, <3>1 DEF TypeOK
  <2>5. IsSentinel(trail'[choices[k].mark])
    BY <1>0 DEF ChoicesStand, IsSentinel
  <2> QED BY <1>0, <2>1, <2>3, <2>4, <2>5 DEF ChoicesStand
<1>2. ChoicesNest'
  BY <1>0 DEF ChoicesNest
<1> QED BY <1>1, <1>2

-----------------------------------------------------------------------------
(* The steps. Each is followed part by part of the invariant.              *)

(* A step that only writes one cell, which no choice has to bring back.    *)
LEMMA FreshCell ==
    ASSUME TrailInv, UNCHANGED <<choices, trail, wake, due>>,
           NEW y \in Cells, NEW v \in Nat, mem' = [mem EXCEPT ![y] = v],
           \A k \in 1 .. Len(choices) : y \notin DOMAIN choices[k].snap /\ choices[k].hi <= depth',
           \A i \in 1 .. Len(trail) : trail[i].cell = y => y \notin Heap,
           top' \in 0 .. MaxHeap, top <= top', depth' \in 0 .. MaxFrames, boxed' = boxed
    PROVE  TrailInv'
<1>0. TypeOK /\ ChoicesStand /\ ChoicesNest /\ BoundOnce /\ Restores /\ WakeupsAreFound
  BY DEF TrailInv
<1>1. TypeOK'
  <2>1. mem' \in [Cells -> Nat]
    BY <1>0 DEF TypeOK
  <2>2. due' \subseteq 1 .. top'
    BY <1>0, CellsAre DEF TypeOK
  <2> QED BY <1>0, <2>1, <2>2 DEF TypeOK
<1>2. ChoicesStand' /\ ChoicesNest'
  <2>1. Len(choices) \in 0 .. Len(choices) /\ Len(trail') \in Nat /\ top' \in Nat
    BY <1>0, CellsAre DEF TypeOK
  <2>2. \A k \in 1 .. Len(choices) : choices[k].mark <= Len(trail')
    BY <1>0, HeadersAre DEF ChoicesStand
  <2> QED BY <1>0, <2>1, <2>2, ChoicesKept
<1>3. BoundOnce'
  <2> SUFFICES ASSUME NEW i \in 1 .. Len(trail), trail[i].cell \in Heap
               PROVE  /\ trail[i].cell <= top' /\ mem'[trail[i].cell] = Bound
                      /\ \A j \in 1 .. Len(trail) : trail[j].cell = trail[i].cell => j = i
    BY DEF BoundOnce
  <2>1. trail[i].cell <= top /\ mem[trail[i].cell] = Bound /\ trail[i].cell # y
    BY <1>0 DEF BoundOnce
  <2>2. trail[i].cell <= top'
    BY <1>0, <2>1, CellsAre DEF TypeOK, Heap
  <2>3. mem'[trail[i].cell] = Bound
    BY <1>0, <2>1, CellsAre DEF TypeOK
  <2> QED BY <1>0, <2>2, <2>3 DEF BoundOnce
<1>4. Restores'
  <2> SUFFICES ASSUME NEW k \in 1 .. Len(choices), NEW x \in DOMAIN choices[k].snap \ {Box}
               PROVE  Restored(trail, mem', choices[k].mark, x) = choices[k].snap[x]
    BY DEF Restores
  <2>1. x \in Cells /\ x # y
    BY <1>0, HeadersAre
  <2>2. mem[x] = mem'[x]
    BY <1>0, <2>1 DEF TypeOK
  <2>3. Restored(trail, mem', choices[k].mark, x) = Restored(trail, mem, choices[k].mark, x)
    BY <2>2 DEF Restored
  <2> QED BY <1>0, <2>3 DEF Restores
<1>5. WakeupsAreFound'
  BY <1>0 DEF WakeupsAreFound
<1> QED BY <1>1, <1>2, <1>3, <1>4, <1>5 DEF TrailInv

LEMMA NewVarStep == ASSUME TrailInv, NEW kind \in {Var, AttVar}, NewVar(kind) PROVE TrailInv'
<1>0. TypeOK /\ ChoicesStand /\ ChoicesNest /\ BoundOnce
  BY DEF TrailInv
<1>1. top \in Nat /\ top + 1 \in Heap /\ top' = top + 1 /\ top' \in 0 .. MaxHeap /\ kind \in Nat
  BY <1>0, CellsAre DEF TypeOK, NewVar, Heap, Var, AttVar
<1>2. top + 1 \in Cells
  BY <1>1, CellsAre
<1>3. \A k \in 1 .. Len(choices) : top + 1 \notin DOMAIN choices[k].snap /\ choices[k].hi <= depth'
  <2> SUFFICES ASSUME NEW k \in 1 .. Len(choices)
               PROVE  top + 1 \notin DOMAIN choices[k].snap /\ choices[k].hi <= depth'
    OBVIOUS
  <2>1. top + 1 # Box
    BY <1>1, CellsAre
  <2>2. ASSUME top + 1 \in DOMAIN choices[k].snap PROVE FALSE
    <3>1. top + 1 \in Live
      BY <1>0, <2>1, <2>2, SavedIsOlder
    <3> QED BY <1>0, <1>1, <3>1 DEF Live, TypeOK
  <2> QED BY <1>0, <2>2 DEF ChoicesStand, NewVar
<1>4. \A i \in 1 .. Len(trail) : trail[i].cell = top + 1 => top + 1 \notin Heap
  BY <1>0, <1>1 DEF BoundOnce
<1>5. top <= top' /\ depth' \in 0 .. MaxFrames /\ UNCHANGED <<choices, trail, wake, due>> /\ boxed' = boxed
  BY <1>0, <1>1 DEF NewVar, TypeOK
<1> DEFINE y == top + 1
<1>6. mem' = [mem EXCEPT ![y] = kind]
  BY DEF NewVar
<1> HIDE DEF y
<1> QED BY <1>1, <1>2, <1>3, <1>4, <1>5, <1>6, FreshCell DEF y

LEMMA CallStep == ASSUME TrailInv, Call PROVE TrailInv'
<1>0. TypeOK /\ ChoicesStand /\ ChoicesNest
  BY DEF TrailInv
<1> DEFINE y == -(depth + 1)
<1>1. depth \in Nat /\ depth' = depth + 1 /\ depth' \in 0 .. MaxFrames /\ y \in Frame
  BY <1>0, CellsAre DEF TypeOK, Call, Frame
<1>2. y \in Cells /\ y \notin Heap /\ y # Box
  BY <1>1, CellsAre DEF Heap, Frame
<1>3. \A k \in 1 .. Len(choices) : y \notin DOMAIN choices[k].snap /\ choices[k].hi <= depth'
  <2> SUFFICES ASSUME NEW k \in 1 .. Len(choices)
               PROVE  y \notin DOMAIN choices[k].snap /\ choices[k].hi <= depth'
    OBVIOUS
  <2>1. ASSUME y \in DOMAIN choices[k].snap PROVE FALSE
    <3>1. y \in Live
      BY <1>0, <1>2, <2>1, SavedIsOlder
    <3> QED BY <1>0, <1>1, <3>1 DEF Live, TypeOK
  <2>2. choices[k].hi \in Nat /\ choices[k].hi <= depth
    BY <1>0, HeadersAre DEF ChoicesStand
  <2> QED BY <1>1, <2>1, <2>2
<1>4. top' = top /\ top \in 0 .. MaxHeap /\ top <= top'
  BY <1>0, CellsAre DEF TypeOK, Call
<1>5. mem' = [mem EXCEPT ![y] = Var] /\ Var \in Nat /\ UNCHANGED <<choices, trail, wake, due>> /\ boxed' = boxed
  BY DEF Call, Var
<1> HIDE DEF y
<1> QED BY <1>1, <1>2, <1>3, <1>4, <1>5, FreshCell

LEMMA ReturnStep == ASSUME TrailInv, Return PROVE TrailInv'
<1>0. TypeOK /\ ChoicesStand /\ ChoicesNest
  BY DEF TrailInv
<1> DEFINE y == -depth
<1>1. depth \in Nat /\ depth > 0 /\ depth' = depth - 1 /\ depth' \in 0 .. MaxFrames /\ y \in Frame
  <2>1. choices # <<>> => Len(choices) \in 1 .. Len(choices)
    BY <1>0 DEF TypeOK
  <2>2. choices # <<>> => B.hi \in Nat
    BY <1>0, <2>1, HeadersAre DEF B
  <2> QED BY <1>0, <2>2, CellsAre DEF TypeOK, Return, Frame
<1>2. y \in Cells /\ y \notin Heap /\ y # Box
  BY <1>1, CellsAre DEF Heap, Frame
<1>3. \A k \in 1 .. Len(choices) : y \notin DOMAIN choices[k].snap /\ choices[k].hi <= depth'
  <2> SUFFICES ASSUME NEW k \in 1 .. Len(choices)
               PROVE  y \notin DOMAIN choices[k].snap /\ choices[k].hi <= depth'
    OBVIOUS
  <2>1. Len(choices) \in 1 .. Len(choices) /\ k \in Nat /\ Len(choices) \in Nat /\ k <= Len(choices)
    BY <1>0 DEF TypeOK
  <2>2. choices[k].hi \in Nat /\ B.hi \in Nat /\ choices[k].hi <= B.hi
    BY <1>0, <2>1, HeadersAre DEF ChoicesNest, B
  <2>3. choices[k].hi < depth
    BY <1>1, <2>1, <2>2 DEF Return
  <2>4. y \notin DOMAIN choices[k].snap
    <3>1. ASSUME y \in DOMAIN choices[k].snap PROVE FALSE
      <4>1. y \in (-choices[k].hi .. -1) \cup (1 .. HB(trail, choices[k]))
        BY <1>0, <1>2, <2>1, <3>1, SavedIsOlder
      <4> QED BY <1>1, <2>2, <2>3, <4>1
    <3> QED BY <3>1
  <2> QED BY <1>1, <2>2, <2>3, <2>4
<1>4. top' = top /\ top \in 0 .. MaxHeap /\ top <= top'
  BY <1>0, CellsAre DEF TypeOK, Return
<1>5. mem' = [mem EXCEPT ![y] = Var] /\ Var \in Nat /\ UNCHANGED <<choices, trail, wake, due>> /\ boxed' = boxed
  BY DEF Return, Var
<1> HIDE DEF y
<1> QED BY <1>1, <1>2, <1>3, <1>4, <1>5, FreshCell

(* A variable is bound and its entry written.                              *)
LEMMA RecordedWrite ==
    ASSUME TrailInv, NEW x \in Live, mem[x] # Bound, mem' = [mem EXCEPT ![x] = Bound],
           trail' = Append(trail, Entry(x, mem[x])),
           UNCHANGED <<top, depth, choices, boxed>>, wake' \in Nat, due' \subseteq 1 .. top
    PROVE  /\ TypeOK' /\ ChoicesStand' /\ ChoicesNest' /\ BoundOnce' /\ Restores'
           /\ Len(trail') = Len(trail) + 1
           /\ trail'[Len(trail) + 1] = Entry(x, mem[x])
           /\ \A i \in 1 .. Len(trail) : trail'[i] = trail[i]
<1>0. TypeOK /\ ChoicesStand /\ ChoicesNest /\ BoundOnce /\ Restores /\ Len(trail) \in Nat
  BY DEF TrailInv, TypeOK
<1> DEFINE e == Entry(x, mem[x])
<1>1. x \in Cells /\ x # 0 /\ x # Box /\ mem[x] \in Nat /\ (x \in Heap => x <= top)
  <2>1. x \in Frame \cup Heap /\ (x \in Heap => x <= top)
    BY <1>0, CellsAre DEF TypeOK, Live, Frame, Heap
  <2>2. x \in Cells /\ x # 0 /\ x # Box
    BY <2>1, CellsAre
  <2> QED BY <1>0, <2>1, <2>2 DEF TypeOK
<1>2. e \in Entries /\ e.cell = x /\ e.old = mem[x] /\ Saves(e, mem, x)
  BY <1>1 DEF Entry, Entries, Saves
<1>3. /\ trail' \in Seq(Entries) /\ Len(trail') = Len(trail) + 1 /\ trail'[Len(trail) + 1] = e
      /\ \A i \in 1 .. Len(trail) : trail'[i] = trail[i]
  <2> HIDE DEF e
  <2> QED BY <1>0, <1>2, AppendProperties DEF TypeOK, e
<1>4. trail' = Append(trail, e) /\ e = Entry(x, mem[x])
  OBVIOUS
<1> HIDE DEF e
<1>5. TypeOK'
  <2>1. mem' \in [Cells -> Nat]
    BY <1>0 DEF TypeOK, Bound
  <2> QED BY <1>0, <1>3, <2>1 DEF TypeOK
<1>6. ChoicesStand' /\ ChoicesNest'
  <2>1. Len(choices) \in 0 .. Len(choices) /\ Len(trail') \in Nat /\ top' \in Nat /\ top <= top'
    BY <1>0, <1>3, CellsAre DEF TypeOK
  <2>2. \A k \in 1 .. Len(choices) :
            /\ choices[k].mark <= Len(trail') /\ choices[k].hi <= depth'
            /\ trail'[choices[k].mark] = trail[choices[k].mark]
    BY <1>0, <1>3, HeadersAre DEF ChoicesStand
  <2> QED BY <1>0, <2>1, <2>2, ChoicesKept
<1>7. BoundOnce'
  <2>1. \A i \in 1 .. Len(trail) : trail[i].cell \in Heap => trail[i].cell # x
    BY <1>0 DEF BoundOnce
  <2>2. \A i \in 1 .. Len(trail') : i = Len(trail) + 1 \/ i \in 1 .. Len(trail)
    BY <1>0, <1>3
  <2> SUFFICES ASSUME NEW i \in 1 .. Len(trail'), trail'[i].cell \in Heap
               PROVE  /\ trail'[i].cell <= top /\ mem'[trail'[i].cell] = Bound
                      /\ \A j \in 1 .. Len(trail') : trail'[j].cell = trail'[i].cell => j = i
    BY DEF BoundOnce
  <2>3. CASE i = Len(trail) + 1
    <3>1. mem'[x] = Bound
      BY <1>0, <1>1 DEF TypeOK
    <3> QED BY <1>1, <1>2, <1>3, <2>1, <2>2, <2>3, <3>1
  <2>4. CASE i \in 1 .. Len(trail)
    <3>1. trail[i].cell <= top /\ mem[trail[i].cell] = Bound /\ trail[i].cell # x
      BY <1>0, <1>3, <2>1, <2>4 DEF BoundOnce
    <3>2. mem'[trail[i].cell] = Bound
      BY <1>0, <1>3, <2>4, <3>1, CellsAre DEF TypeOK
    <3>3. \A j \in 1 .. Len(trail) : trail[j].cell = trail[i].cell => j = i
      BY <1>0, <1>3, <2>4 DEF BoundOnce
    <3> QED BY <1>2, <1>3, <2>2, <2>4, <3>1, <3>2, <3>3
  <2> QED BY <2>2, <2>3, <2>4
<1>8. Restores'
  <2> SUFFICES ASSUME NEW k \in 1 .. Len(choices), NEW z \in DOMAIN choices[k].snap \ {Box}
               PROVE  Restored(trail', mem', choices[k].mark, z) = choices[k].snap[z]
    BY DEF Restores
  <2> DEFINE m == choices[k].mark
  <2>1. m \in 0 .. Len(trail) /\ m \in Nat /\ z \in Cells
    BY <1>0, HeadersAre DEF ChoicesStand
  <2>2. trail \in Seq(Entries) /\ Restored(trail, mem, m, z) = choices[k].snap[z]
    BY <1>0 DEF TypeOK, Restores
  <2> HIDE DEF m
  <2>3. CASE z = x
    <3>1. Restored(Append(trail, e), mem', m, x) = Restored(trail, mem, m, x)
      BY <1>2, <2>1, <2>2, AppendedSaved
    <3> QED BY <1>4, <2>2, <2>3, <3>1 DEF m
  <2>4. CASE z # x
    <3>1. Restored(Append(trail, e), mem', m, z) = Restored(trail, mem', m, z)
      BY <1>2, <2>1, <2>2, <2>4, AppendedOther
    <3>2. mem'[z] = mem[z]
      BY <1>0, <2>1, <2>4 DEF TypeOK
    <3>3. Restored(trail, mem', m, z) = Restored(trail, mem, m, z)
      BY <3>2 DEF Restored
    <3> QED BY <1>4, <2>2, <3>1, <3>3 DEF m
  <2> QED BY <2>3, <2>4
<1> QED BY <1>3, <1>4, <1>5, <1>6, <1>7, <1>8

(* A binding the trail test does not record is of a cell no choice has to  *)
(* bring back.                                                             *)
LEMMA BindStep == ASSUME TrailInv, NEW x \in Frame \cup Heap, Bind(x) PROVE TrailInv'
<1>0. TypeOK /\ ChoicesStand /\ ChoicesNest /\ BoundOnce /\ WakeupsAreFound
  BY DEF TrailInv
<1>1. x \in Live /\ mem[x] # Bound /\ mem' = [mem EXCEPT ![x] = Bound]
  BY DEF Bind, Bound, Var
<1>2. UNCHANGED <<top, depth, choices, wake, boxed, due>>
  BY DEF Bind
<1>3. CASE NeedsLog(x)
  <2>1. trail' = Append(trail, Entry(x, mem[x]))
    BY <1>3 DEF Bind, Logged
  <2>2. wake' \in Nat /\ due' \subseteq 1 .. top
    BY <1>0, <1>2 DEF TypeOK
  <2>3. /\ TypeOK' /\ ChoicesStand' /\ ChoicesNest' /\ BoundOnce' /\ Restores'
        /\ Len(trail') = Len(trail) + 1 /\ \A i \in 1 .. Len(trail) : trail'[i] = trail[i]
    BY <1>1, <1>2, <2>1, <2>2, RecordedWrite
  <2>4. WakeupsAreFound'
    <3> SUFFICES ASSUME NEW y \in due
                 PROVE  /\ wake # 0
                        /\ \E i \in wake .. Len(trail') : trail'[i].cell = y /\ trail'[i].old = AttVar
      BY <1>2 DEF WakeupsAreFound
    <3>1. wake # 0 /\ \E i \in wake .. Len(trail) : trail[i].cell = y /\ trail[i].old = AttVar
      BY <1>0 DEF WakeupsAreFound
    <3>2. PICK i \in wake .. Len(trail) : trail[i].cell = y /\ trail[i].old = AttVar
      BY <3>1
    <3>3. i \in 1 .. Len(trail) /\ i \in wake .. Len(trail')
      BY <1>0, <2>3, <3>1 DEF TypeOK
    <3> QED BY <2>3, <3>1, <3>2, <3>3
  <2> QED BY <2>3, <2>4 DEF TrailInv
<1>4. CASE ~NeedsLog(x)
  <2>1. trail' = trail
    BY <1>4 DEF Bind, Logged
  <2>2. \A k \in 1 .. Len(choices) : x \notin DOMAIN choices[k].snap /\ choices[k].hi <= depth'
    <3> SUFFICES ASSUME NEW k \in 1 .. Len(choices)
                 PROVE  x \notin DOMAIN choices[k].snap /\ choices[k].hi <= depth'
      OBVIOUS
    <3>1. Len(choices) \in k .. Len(choices) /\ choices # <<>>
      BY <1>0 DEF TypeOK
    <3>2. x # Box
      BY CellsAre
    <3>3. ASSUME x \in DOMAIN choices[k].snap PROVE FALSE
      <4>1. Older(trail, B, x)
        BY <1>0, <3>1, <3>2, <3>3, SavedIsOlder DEF B
      <4> QED BY <1>4, <3>1, <4>1 DEF NeedsLog
    <3> QED BY <1>0, <1>2, <3>3 DEF ChoicesStand
  <2>3. \A i \in 1 .. Len(trail) : trail[i].cell = x => x \notin Heap
    BY <1>0, <1>1 DEF BoundOnce
  <2>4. x \in Cells /\ Bound \in Nat /\ UNCHANGED <<choices, trail, wake, due>> /\ boxed' = boxed
    BY <1>2, <2>1, CellsAre DEF Bound
  <2>5. top' \in 0 .. MaxHeap /\ top <= top' /\ depth' \in 0 .. MaxFrames
    BY <1>0, <1>2, CellsAre DEF TypeOK
  <2> QED BY <1>1, <2>2, <2>3, <2>4, <2>5, FreshCell
<1> QED BY <1>3, <1>4

LEMMA BindAttributedStep == ASSUME TrailInv, NEW x \in Heap, BindAttributed(x) PROVE TrailInv'
<1>0. TypeOK /\ BoundOnce /\ WakeupsAreFound /\ Len(trail) \in Nat /\ wake \in Nat
  BY DEF TrailInv, TypeOK
<1> DEFINE n == Len(trail) + 1
<1>1. /\ x \in Live /\ mem[x] = AttVar /\ mem[x] # Bound /\ mem' = [mem EXCEPT ![x] = Bound]
      /\ trail' = Append(trail, Entry(x, mem[x])) /\ UNCHANGED <<top, depth, choices, boxed>>
  BY DEF BindAttributed, Bound, AttVar
<1>2. wake' \in Nat /\ wake' # 0 /\ wake' <= n /\ (wake # 0 => wake' <= wake)
  BY <1>0 DEF BindAttributed
<1>3. due' = due \cup {x} /\ x \in 1 .. top
  BY <1>0, <1>1, CellsAre DEF BindAttributed, Live, Heap, TypeOK
<1>4. due' \subseteq 1 .. top
  BY <1>0, <1>3 DEF TypeOK
<1>5. /\ TypeOK' /\ ChoicesStand' /\ ChoicesNest' /\ BoundOnce' /\ Restores'
      /\ Len(trail') = n /\ trail'[n] = Entry(x, mem[x])
      /\ \A i \in 1 .. Len(trail) : trail'[i] = trail[i]
  BY <1>1, <1>2, <1>4, RecordedWrite
<1>6. WakeupsAreFound'
  <2> SUFFICES ASSUME NEW y \in due \cup {x}
               PROVE  \E i \in wake' .. n : trail'[i].cell = y /\ trail'[i].old = AttVar
    BY <1>2, <1>3, <1>5 DEF WakeupsAreFound
  <2>1. CASE y = x
    <3>1. n \in wake' .. n
      BY <1>0, <1>2
    <3> QED BY <1>1, <1>5, <2>1, <3>1 DEF Entry
  <2>2. CASE y \in due
    <3>1. wake # 0 /\ \E i \in wake .. Len(trail) : trail[i].cell = y /\ trail[i].old = AttVar
      BY <1>0, <2>2 DEF WakeupsAreFound
    <3>2. PICK i \in wake .. Len(trail) : trail[i].cell = y /\ trail[i].old = AttVar
      BY <3>1
    <3>3. i \in 1 .. Len(trail) /\ i \in wake' .. n
      BY <1>0, <1>2, <3>1
    <3> QED BY <1>5, <3>2, <3>3
  <2> QED BY <2>1, <2>2
<1> QED BY <1>5, <1>6 DEF TrailInv

(* $wakeup finds every binding that is due; with no choice open it then    *)
(* drops the entries, which nothing reads.                                 *)
LEMMA AwakenStep == ASSUME TrailInv, Awaken PROVE TrailInv'
<1>0. TypeOK /\ ChoicesStand /\ ChoicesNest /\ BoundOnce /\ Restores /\ WakeupsAreFound
  BY DEF TrailInv
<1>1. due' = {}
  BY <1>0 DEF Awaken, WakeupsAreFound
<1>2. wake' = 0 /\ UNCHANGED <<mem, top, depth, choices, boxed>> /\ wake # 0
  BY DEF Awaken
<1>3. WakeupsAreFound'
  BY <1>1 DEF WakeupsAreFound
<1>4. CASE choices = <<>> /\ wake <= Len(trail)
  <2>1. wake - 1 \in 0 .. Len(trail) /\ trail' = SubSeq(trail, 1, wake - 1)
    BY <1>0, <1>2, <1>4 DEF Awaken, TypeOK
  <2> DEFINE b == wake - 1
  <2>2. trail' \in Seq(Entries) /\ Len(trail') = b /\ \A i \in 1 .. b : trail'[i] = trail[i]
    <3>1. b \in 0 .. Len(trail) /\ trail' = SubSeq(trail, 1, b) /\ trail \in Seq(Entries)
      BY <1>0, <2>1 DEF TypeOK
    <3> HIDE DEF b
    <3> QED BY <3>1, PrefixOf
  <2>3. \A i \in 1 .. b : i \in 1 .. Len(trail)
    BY <1>0, <2>1 DEF TypeOK
  <2> HIDE DEF b
  <2>4. TypeOK'
    BY <1>0, <1>1, <1>2, <2>2 DEF TypeOK
  <2>5. BoundOnce'
    BY <1>0, <1>2, <2>2, <2>3 DEF BoundOnce
  <2>6. ChoicesStand' /\ ChoicesNest' /\ Restores'
    BY <1>2, <1>4 DEF ChoicesStand, ChoicesNest, Restores
  <2> QED BY <1>3, <2>4, <2>5, <2>6 DEF TrailInv
<1>5. CASE ~(choices = <<>> /\ wake <= Len(trail))
  <2>1. trail' = trail
    BY <1>5 DEF Awaken
  <2>2. TypeOK'
    BY <1>0, <1>1, <1>2, <2>1 DEF TypeOK
  <2>3. ChoicesStand' /\ ChoicesNest' /\ BoundOnce' /\ Restores'
    BY <1>0, <1>2, <2>1 DEF ChoicesStand, ChoicesNest, BoundOnce, Restores, HB
  <2> QED BY <1>3, <2>2, <2>3 DEF TrailInv
<1> QED BY <1>4, <1>5

(* What a new choice leaves of the trail: all up to a place at or above    *)
(* the youngest mark; above it are sentinels only.                         *)
LEMMA TrimmedIs ==
    ASSUME TypeOK, ChoicesStand, ChoicesNest
    PROVE  \E n \in 0 .. Len(trail) :
               /\ Trimmed = SubSeq(trail, 1, n)
               /\ \A k \in 1 .. Len(choices) : choices[k].mark <= n
               /\ \A i \in n + 1 .. Len(trail) : trail[i].cell = 0
<1>0. Len(trail) \in Nat /\ Len(choices) \in Nat
  BY DEF TypeOK
<1>1. MarkOfB \in 0 .. Len(trail) /\ \A k \in 1 .. Len(choices) : choices[k].mark <= MarkOfB
  <2>1. CASE choices = <<>>
    BY <1>0, <2>1 DEF MarkOfB
  <2>2. CASE choices # <<>>
    <3>1. Len(choices) \in 1 .. Len(choices) /\ MarkOfB = choices[Len(choices)].mark
      BY <1>0, <2>2 DEF MarkOfB, B, TypeOK
    <3>2. \A k \in 1 .. Len(choices) : choices[k].mark \in Nat
      BY HeadersAre
    <3>3. \A k \in 1 .. Len(choices) : k = Len(choices) \/ k < Len(choices)
      BY <1>0
    <3> QED BY <1>0, <3>1, <3>2, <3>3 DEF ChoicesStand, ChoicesNest
  <2> QED BY <2>1, <2>2
<1>2. DeadTop \subseteq Nat /\ Len(trail) \in DeadTop
  BY <1>0, <1>1 DEF DeadTop
<1>3. Oldest(DeadTop) \in DeadTop
  BY <1>2, OldestIs
<1> DEFINE n == Oldest(DeadTop)
<1>4. n \in MarkOfB .. Len(trail) /\ \A i \in n + 1 .. Len(trail) : IsSentinel(trail[i])
  BY <1>3 DEF DeadTop
<1>5. Trimmed = SubSeq(trail, 1, n)
  BY DEF Trimmed
<1> HIDE DEF n
<1>6. n \in 0 .. Len(trail) /\ \A k \in 1 .. Len(choices) : choices[k].mark <= n
  <2>1. \A k \in 1 .. Len(choices) : choices[k].mark \in Nat
    BY HeadersAre
  <2> QED BY <1>0, <1>1, <1>4, <2>1
<1> QED BY <1>4, <1>5, <1>6 DEF IsSentinel

LEMMA OpenChoiceStep == ASSUME TrailInv, OpenChoice PROVE TrailInv'
<1>0. /\ TypeOK /\ ChoicesStand /\ ChoicesNest /\ BoundOnce /\ Restores /\ WakeupsAreFound
      /\ Len(trail) \in Nat /\ Len(choices) \in Nat /\ wake \in Nat /\ top \in Nat /\ depth \in Nat
  BY CellsAre DEF TrailInv, TypeOK
<1>1. PICK n \in 0 .. Len(trail) :
          /\ Trimmed = SubSeq(trail, 1, n)
          /\ \A k \in 1 .. Len(choices) : choices[k].mark <= n
          /\ \A i \in n + 1 .. Len(trail) : trail[i].cell = 0
  BY <1>0, TrimmedIs
<1> DEFINE s == Trimmed
           e == Sentinel(top)
           K == Len(choices)
           new == [mark |-> n + 1, hi |-> depth, snap |-> Snapshot]
<1>2. s \in Seq(Entries) /\ Len(s) = n /\ \A i \in 1 .. n : s[i] = trail[i]
  BY <1>0, <1>1, PrefixOf DEF TypeOK
<1>3. e \in Entries /\ e.cell = 0 /\ e.hb = top /\ IsSentinel(e)
  BY <1>0 DEF Sentinel, Entry, Entries, IsSentinel
<1>4. trail' = Append(s, e) /\ UNCHANGED <<mem, top, depth, wake, boxed, due>>
  BY DEF OpenChoice
<1>5. choices' = Append(choices, new)
  BY <1>2 DEF OpenChoice
<1>6. Snapshot \in [Live \cup {Box} -> Nat] /\ Live \cup {Box} \subseteq Cells /\ DOMAIN Snapshot = Live \cup {Box}
  <2>1. Live \cup {Box} \subseteq Cells
    BY <1>0, CellsAre DEF TypeOK, Live, Cells, Frame, Heap
  <2> QED BY <1>0, <2>1 DEF TypeOK, Snapshot
<1>7. new \in Headers
  <2>1. n + 1 \in Nat
    BY <1>0
  <2> QED BY <1>0, <1>6, <2>1 DEF Headers
<1>8. new.mark = n + 1 /\ new.hi = depth /\ new.snap = Snapshot
  OBVIOUS
<1> HIDE DEF s, e, new
<1>9. /\ trail' \in Seq(Entries) /\ Len(trail') = n + 1 /\ trail'[n + 1] = e
      /\ \A i \in 1 .. n : trail'[i] = trail[i]
  BY <1>2, <1>3, <1>4, AppendProperties
<1>10. /\ choices' \in Seq(Headers) /\ Len(choices') = K + 1 /\ choices'[K + 1] = new
       /\ \A k \in 1 .. K : choices'[k] = choices[k]
  BY <1>0, <1>5, <1>7, AppendProperties DEF TypeOK
<1>11. \A k \in 1 .. K + 1 : k = K + 1 \/ k \in 1 .. K
  BY <1>0
<1>12. TypeOK'
  BY <1>0, <1>4, <1>9, <1>10 DEF TypeOK
<1>13. \A k \in 1 .. K : /\ choices[k].mark \in 1 .. n /\ choices[k].hi \in Nat /\ choices[k].hi <= depth
                         /\ HB(trail', choices[k]) = HB(trail, choices[k])
                         /\ trail'[choices[k].mark] = trail[choices[k].mark]
  <2> SUFFICES ASSUME NEW k \in 1 .. K
               PROVE  /\ choices[k].mark \in 1 .. n /\ choices[k].hi \in Nat /\ choices[k].hi <= depth
                      /\ HB(trail', choices[k]) = HB(trail, choices[k])
                      /\ trail'[choices[k].mark] = trail[choices[k].mark]
    OBVIOUS
  <2>1. choices[k].mark \in 1 .. n
    BY <1>0, <1>1 DEF ChoicesStand
  <2> QED BY <1>0, <1>9, <2>1, HeadersAre DEF ChoicesStand, HB
<1>14. ChoicesStand'
  <2> SUFFICES ASSUME NEW k \in 1 .. K + 1
               PROVE  /\ choices'[k].mark \in 1 .. n + 1 /\ IsSentinel(trail'[choices'[k].mark])
                      /\ choices'[k].hi <= depth /\ HB(trail', choices'[k]) <= top
                      /\ DOMAIN choices'[k].snap \subseteq
                             (-choices'[k].hi .. -1) \cup (1 .. HB(trail', choices'[k])) \cup {Box}
    BY <1>4, <1>9, <1>10 DEF ChoicesStand
  <2>1. CASE k = K + 1
    <3>1. HB(trail', new) = top
      BY <1>3, <1>8, <1>9 DEF HB
    <3> QED BY <1>0, <1>1, <1>3, <1>6, <1>8, <1>9, <1>10, <2>1, <3>1 DEF Live
  <2>2. CASE k \in 1 .. K
    <3>1. choices'[k] = choices[k] /\ choices[k].mark \in 1 .. n + 1
      BY <1>0, <1>10, <1>13, <2>2
    <3> QED BY <1>0, <1>13, <2>2, <3>1 DEF ChoicesStand
  <2> QED BY <1>11, <2>1, <2>2
<1>15. ChoicesNest'
  <2> SUFFICES ASSUME NEW k \in 1 .. K + 1, NEW l \in 1 .. K + 1, k < l
               PROVE  /\ choices'[k].mark < choices'[l].mark /\ choices'[k].hi <= choices'[l].hi
                      /\ DOMAIN choices'[k].snap \subseteq DOMAIN choices'[l].snap
    BY <1>10 DEF ChoicesNest
  <2>1. k \in 1 .. K /\ choices'[k] = choices[k]
    BY <1>0, <1>10
  <2>2. CASE l = K + 1
    <3>1. DOMAIN choices[k].snap \subseteq Live \cup {Box}
      <4>1. k \in k .. Len(choices)
        BY <1>0, <2>1
      <4> QED BY <1>0, <2>1, <4>1, SavedIsOlder
    <3>2. choices[k].mark < n + 1 /\ choices[k].hi <= depth
      BY <1>0, <1>13, <2>1
    <3> QED BY <1>6, <1>8, <1>10, <2>1, <2>2, <3>1, <3>2
  <2>3. CASE l \in 1 .. K
    BY <1>0, <1>10, <2>1, <2>3 DEF ChoicesNest
  <2> QED BY <1>11, <2>2, <2>3
<1>16. \A i \in 1 .. n + 1 : i = n + 1 \/ (i \in 1 .. n /\ i \in 1 .. Len(trail))
  BY <1>0
<1>17. BoundOnce'
  <2> SUFFICES ASSUME NEW i \in 1 .. n + 1, trail'[i].cell \in Heap
               PROVE  /\ trail'[i].cell <= top /\ mem[trail'[i].cell] = Bound
                      /\ \A j \in 1 .. n + 1 : trail'[j].cell = trail'[i].cell => j = i
    BY <1>4, <1>9 DEF BoundOnce
  <2>1. 0 \notin Heap
    BY CellsAre
  <2>2. i \in 1 .. n /\ i \in 1 .. Len(trail)
    BY <1>3, <1>9, <1>16, <2>1
  <2> QED BY <1>0, <1>3, <1>9, <1>16, <2>1, <2>2 DEF BoundOnce
<1>18. Restores'
  <2> SUFFICES ASSUME NEW k \in 1 .. K + 1, NEW x \in DOMAIN choices'[k].snap \ {Box}
               PROVE  Restored(trail', mem, choices'[k].mark, x) = choices'[k].snap[x]
    BY <1>4, <1>10 DEF Restores
  <2>1. CASE k = K + 1
    <3>1. EntriesOf(trail', n + 1, x) = {}
      BY <1>0, <1>9 DEF EntriesOf
    <3>2. Restored(trail', mem, n + 1, x) = mem[x]
      BY <3>1, RestoredAsIs
    <3>3. Snapshot[x] = mem[x]
      BY <1>6, <1>8, <1>10, <2>1 DEF Snapshot
    <3> QED BY <1>8, <1>10, <2>1, <3>2, <3>3
  <2>2. CASE k \in 1 .. K
    <3> DEFINE m == choices[k].mark
    <3>1. choices'[k] = choices[k] /\ m \in 0 .. Len(s) /\ m \in Nat /\ trail \in Seq(Entries)
      BY <1>0, <1>2, <1>10, <1>13, <2>2 DEF TypeOK
    <3>2. x # 0
      <4>1. k \in k .. Len(choices)
        BY <1>0, <2>2
      <4> QED BY <1>0, <2>2, <3>1, <4>1, SavedIsOlder
    <3> HIDE DEF m
    <3>3. Restored(Append(s, e), mem, m, x) = Restored(s, mem, m, x)
      BY <1>2, <1>3, <3>1, <3>2, AppendedOther
    <3>4. SameEntries(s, trail, m, x, x)
      <4>1. \A i \in m + 1 .. Len(trail) : trail[i].cell = x => i \in m + 1 .. n
        BY <1>0, <1>1, <3>1, <3>2
      <4>2. \A i \in m + 1 .. n : i \in 1 .. n /\ i \in m + 1 .. Len(trail)
        BY <1>0, <3>1
      <4>3. EntriesOf(s, m, x) = EntriesOf(trail, m, x)
        BY <1>2, <4>1, <4>2 DEF EntriesOf
      <4>4. \A i \in EntriesOf(s, m, x) : s[i].old = trail[i].old
        BY <1>2, <4>2 DEF EntriesOf
      <4> QED BY <4>3, <4>4 DEF SameEntries
    <3>5. Restored(s, mem, m, x) = Restored(trail, mem, m, x)
      BY <1>2, <3>1, <3>4, SameRestored
    <3>6. Restored(trail, mem, m, x) = choices[k].snap[x]
      BY <1>0, <2>2, <3>1 DEF Restores, m
    <3> QED BY <1>4, <3>1, <3>3, <3>5, <3>6 DEF m
  <2> QED BY <1>11, <2>1, <2>2
<1>19. WakeupsAreFound'
  <2> SUFFICES ASSUME NEW x \in due
               PROVE  /\ wake # 0
                      /\ \E i \in wake .. n + 1 : trail'[i].cell = x /\ trail'[i].old = AttVar
    BY <1>4, <1>9 DEF WakeupsAreFound
  <2>1. wake # 0 /\ x # 0
    BY <1>0 DEF WakeupsAreFound, TypeOK
  <2>2. PICK i \in wake .. Len(trail) : trail[i].cell = x /\ trail[i].old = AttVar
    BY <1>0 DEF WakeupsAreFound
  <2>3. i \in 1 .. n /\ i \in wake .. n + 1
    BY <1>0, <1>1, <2>1, <2>2
  <2> QED BY <1>9, <2>1, <2>2, <2>3
<1> QED BY <1>12, <1>14, <1>15, <1>17, <1>18, <1>19 DEF TrailInv

LEMMA RestoredIsNat ==
    ASSUME TypeOK, NEW m \in Nat, NEW x \in Cells
    PROVE  Restored(trail, mem, m, x) \in Nat
<1>1. trail \in Seq(Entries) /\ mem[x] \in Nat
  BY DEF TypeOK
<1>2. CASE EntriesOf(trail, m, x) = {}
  BY <1>1, <1>2, RestoredAsIs
<1>3. CASE EntriesOf(trail, m, x) # {}
  <2>1. PICK i \in EntriesOf(trail, m, x) : \A j \in EntriesOf(trail, m, x) : i <= j
    BY <1>1, <1>3, HasOldest
  <2>2. Restored(trail, mem, m, x) = trail[i].old
    BY <1>1, <2>1, RestoredFromOldest
  <2> QED BY <1>1, <2>1, <2>2, EntriesAreNat
<1> QED BY <1>2, <1>3

(* A heap variable with an entry above m has no other.                     *)
LEMMA TheOnlyEntry ==
    ASSUME TypeOK, BoundOnce, NEW m \in Nat, NEW i \in 1 .. Len(trail), trail[i].cell \in Heap
    PROVE  /\ i > m => Restored(trail, mem, m, trail[i].cell) = trail[i].old
           /\ i <= m => Restored(trail, mem, m, trail[i].cell) = Bound
<1> DEFINE x == trail[i].cell
           E == EntriesOf(trail, m, x)
<1>0. trail \in Seq(Entries) /\ Len(trail) \in Nat
  BY DEF TypeOK
<1>1. \A j \in 1 .. Len(trail) : trail[j].cell = x => j = i
  BY DEF BoundOnce
<1>2. mem[x] = Bound
  BY DEF BoundOnce
<1>3. E \subseteq 1 .. Len(trail) /\ \A j \in E : j > m /\ trail[j].cell = x
  BY <1>0 DEF EntriesOf
<1>4. i > m => i \in E
  BY <1>0 DEF EntriesOf
<1>5. i > m => E = {i}
  BY <1>1, <1>3, <1>4
<1>6. i <= m => E = {}
  BY <1>1, <1>3
<1>7. ASSUME i > m PROVE Restored(trail, mem, m, x) = trail[i].old
  <2>1. i \in E /\ \A j \in E : i <= j
    BY <1>5, <1>7
  <2> HIDE DEF x
  <2> QED BY <1>0, <2>1, RestoredFromOldest
<1>8. ASSUME i <= m PROVE Restored(trail, mem, m, x) = Bound
  BY <1>2, <1>6, <1>8, RestoredAsIs
<1> QED BY <1>7, <1>8

(* Failing back to the youngest choice, which stays or goes.               *)
LEMMA UnwindStep ==
    ASSUME TrailInv, Unwind, NEW K \in 0 .. Len(choices), choices' \in Seq(Headers),
           Len(choices') = K, \A k \in 1 .. K : choices'[k] = choices[k]
    PROVE  TrailInv'
<1>0. /\ TypeOK /\ ChoicesStand /\ ChoicesNest /\ BoundOnce /\ Restores /\ WakeupsAreFound
      /\ Len(trail) \in Nat /\ Len(choices) \in Nat /\ wake \in Nat /\ trail \in Seq(Entries)
      /\ K \in Nat /\ depth \in Nat
  BY CellsAre DEF TrailInv, TypeOK
<1> DEFINE L == Len(choices)
           b == B.mark
<1>1. L \in 1 .. Len(choices) /\ B = choices[L]
  BY <1>0 DEF Unwind, B, TypeOK
<1>2. /\ b \in 1 .. Len(trail) /\ b \in Nat /\ b \in 0 .. Len(trail)
      /\ B.hi \in Nat /\ B.hi <= depth /\ IsSentinel(trail[b])
  BY <1>0, <1>1, HeadersAre DEF ChoicesStand
<1>3. \A x \in Cells : Unwound(b)[x] = Restored(trail, mem, b, x)
  BY DEF Unwound, Restored
<1>4. /\ mem' = [x \in Cells |-> IF x < -B.hi THEN Var ELSE Unwound(b)[x]]
      /\ trail' = SubSeq(trail, 1, b) /\ due' = {x \in due : Unwound(b)[x] # AttVar}
      /\ depth' = B.hi /\ UNCHANGED <<top, wake, boxed>>
  BY DEF Unwind
<1> HIDE DEF b
<1>5. trail' \in Seq(Entries) /\ Len(trail') = b /\ \A i \in 1 .. b : trail'[i] = trail[i]
  BY <1>0, <1>2, <1>4, PrefixOf
<1>6. \A i \in 1 .. b : i \in 1 .. Len(trail)
  BY <1>0, <1>2
<1>7. \A x \in Cells : mem'[x] = IF x < -B.hi THEN Var ELSE Restored(trail, mem, b, x)
  BY <1>3, <1>4
<1>8. TypeOK'
  <2>1. \A x \in Cells : Unwound(b)[x] \in Nat
    BY <1>0, <1>2, <1>3, RestoredIsNat
  <2>2. mem' \in [Cells -> Nat]
    BY <1>4, <2>1 DEF Var
  <2>3. depth' \in 0 .. MaxFrames
    BY <1>0, <1>2, <1>4, CellsAre DEF TypeOK
  <2> QED BY <1>0, <1>4, <1>5, <2>2, <2>3 DEF TypeOK
<1>9. \A k \in 1 .. K : /\ k \in 1 .. L /\ choices[k].mark \in 1 .. b /\ choices[k].hi <= B.hi
                        /\ L \in k .. Len(choices)
  <2> SUFFICES ASSUME NEW k \in 1 .. K
               PROVE  /\ k \in 1 .. L /\ choices[k].mark \in 1 .. b /\ choices[k].hi <= B.hi
                      /\ L \in k .. Len(choices)
    OBVIOUS
  <2>1. k \in 1 .. L /\ (k = L \/ k < L) /\ L \in k .. Len(choices)
    BY <1>0
  <2>2. choices[k].mark <= b /\ choices[k].hi <= B.hi
    <3>1. b = choices[L].mark /\ B.hi = choices[L].hi
      BY <1>1 DEF b
    <3>2. CASE k = L
      BY <1>2, <3>1, <3>2
    <3>3. CASE k < L
      <4>1. choices[k].mark < choices[L].mark /\ choices[k].hi <= choices[L].hi
        BY <1>0, <1>1, <2>1, <3>3 DEF ChoicesNest
      <4>2. choices[k].mark \in Nat /\ choices[L].mark \in Nat
        BY <1>0, <1>1, <2>1, HeadersAre
      <4> QED BY <3>1, <4>1, <4>2
    <3> QED BY <2>1, <3>2, <3>3
  <2>3. choices[k].mark \in 1 .. Len(trail)
    BY <1>0, <2>1 DEF ChoicesStand
  <2> QED BY <1>2, <2>1, <2>2, <2>3
<1>10. ChoicesStand' /\ ChoicesNest'
  <2>1. Len(trail') \in Nat /\ top' \in Nat /\ top <= top'
    BY <1>0, <1>2, <1>4, <1>5, CellsAre DEF TypeOK
  <2>2. \A k \in 1 .. K :
            /\ choices[k].mark <= Len(trail') /\ choices[k].hi <= depth'
            /\ trail'[choices[k].mark] = trail[choices[k].mark]
    BY <1>4, <1>5, <1>9, <1>2
  <2> QED BY <1>0, <2>1, <2>2, ChoicesKept
<1>11. BoundOnce'
  <2> SUFFICES ASSUME NEW i \in 1 .. b, trail[i].cell \in Heap
               PROVE  /\ trail[i].cell <= top /\ mem'[trail[i].cell] = Bound
                      /\ \A j \in 1 .. b : trail[j].cell = trail[i].cell => j = i
    BY <1>4, <1>5 DEF BoundOnce
  <2>1. i \in 1 .. Len(trail) /\ i <= b
    BY <1>2, <1>6
  <2>2. Restored(trail, mem, b, trail[i].cell) = Bound
    BY <1>0, <1>2, <2>1, TheOnlyEntry
  <2>3. trail[i].cell \in Cells /\ ~(trail[i].cell < -B.hi)
    BY <1>2, CellsAre DEF Heap
  <2>4. mem'[trail[i].cell] = Bound
    BY <1>7, <2>2, <2>3
  <2> QED BY <1>0, <1>6, <2>1, <2>4 DEF BoundOnce
<1>12. Restores'
  <2> SUFFICES ASSUME NEW k \in 1 .. K, NEW x \in DOMAIN choices[k].snap \ {Box}
               PROVE  Restored(trail', mem', choices[k].mark, x) = choices[k].snap[x]
    BY DEF Restores
  <2> DEFINE m == choices[k].mark
  <2>1. /\ x \in Cells
        /\ x \in (-choices[L].hi .. -1) \cup (1 .. HB(trail, choices[L]))
    BY <1>0, <1>9, SavedIsOlder
  <2>2. ~(x < -B.hi)
    BY <1>1, <1>2, <2>1
  <2>3. mem'[x] = Restored(trail, mem, b, x)
    BY <1>7, <2>1, <2>2
  <2>4. m \in 0 .. b
    BY <1>2, <1>9
  <2> HIDE DEF m
  <2>5. Restored(SubSeq(trail, 1, b), mem', m, x) = Restored(trail, mem, m, x)
    BY <1>0, <1>2, <2>3, <2>4, PoppedBetween
  <2> QED BY <1>0, <1>4, <1>9, <2>5 DEF m, Restores
<1>13. WakeupsAreFound'
  <2> SUFFICES ASSUME NEW x \in due, Unwound(b)[x] # AttVar
               PROVE  /\ wake # 0
                      /\ \E i \in wake .. b : trail'[i].cell = x /\ trail'[i].old = AttVar
    BY <1>4, <1>5 DEF WakeupsAreFound
  <2>1. wake # 0 /\ x \in Heap /\ x \in Cells
    BY <1>0, CellsAre DEF WakeupsAreFound, TypeOK, Heap
  <2>2. PICK i \in wake .. Len(trail) : trail[i].cell = x /\ trail[i].old = AttVar
    BY <1>0 DEF WakeupsAreFound
  <2>3. i \in 1 .. Len(trail)
    BY <1>0, <2>1
  <2>4. ~(i > b)
    <3>1. Restored(trail, mem, b, x) # AttVar
      BY <1>3, <2>1
    <3>2. i > b => Restored(trail, mem, b, trail[i].cell) = trail[i].old
      BY <1>0, <1>2, <2>1, <2>2, <2>3, TheOnlyEntry
    <3> QED BY <2>2, <3>1, <3>2
  <2>5. i \in 1 .. b /\ i \in wake .. b
    BY <1>2, <2>2, <2>3, <2>4
  <2> QED BY <1>5, <2>1, <2>2, <2>5
<1> QED BY <1>8, <1>10, <1>11, <1>12, <1>13 DEF TrailInv

LEMMA RetryStep == ASSUME TrailInv, Retry PROVE TrailInv'
<1>1. TypeOK
  BY DEF TrailInv
<1>2. Len(choices) \in 0 .. Len(choices)
  BY <1>1 DEF TypeOK
<1>3. Unwind /\ choices' = choices
  BY DEF Retry
<1>4. choices' \in Seq(Headers)
  BY <1>1, <1>3 DEF TypeOK
<1> QED BY <1>2, <1>3, <1>4, UnwindStep

LEMMA HeadersPrefix ==
    ASSUME NEW s \in Seq(Headers), NEW k \in 0 .. Len(s)
    PROVE  /\ SubSeq(s, 1, k) \in Seq(Headers) /\ Len(SubSeq(s, 1, k)) = k
           /\ \A i \in 1 .. k : SubSeq(s, 1, k)[i] = s[i]
BY SubSeqProperties

LEMMA RetryLastStep == ASSUME TrailInv, RetryLast PROVE TrailInv'
<1>1. TypeOK /\ choices \in Seq(Headers) /\ Len(choices) \in Nat
  BY DEF TrailInv, TypeOK
<1>2. Unwind /\ choices' = SubSeq(choices, 1, Len(choices) - 1)
  BY DEF RetryLast, Front
<1> DEFINE K == Len(choices) - 1
<1>3. K \in 0 .. Len(choices)
  BY <1>1, <1>2 DEF Unwind
<1>4. choices' \in Seq(Headers) /\ Len(choices') = K /\ \A k \in 1 .. K : choices'[k] = choices[k]
  <2>1. choices' = SubSeq(choices, 1, K)
    BY <1>2
  <2> HIDE DEF K
  <2> QED BY <1>1, <1>3, <2>1, HeadersPrefix
<1> HIDE DEF K
<1> QED BY <1>2, <1>3, <1>4, UnwindStep

(* A commit back to choice k: what k and the older choices have to bring   *)
(* back is older than k, so the walk keeps every entry of it. The walk     *)
(* waits for a pending wakeup.                                             *)
LEMMA CommitStep == ASSUME TrailInv, NEW k \in 0 .. MaxChoices - 1, Commit(k) PROVE TrailInv'
<1>0. /\ TypeOK /\ ChoicesStand /\ ChoicesNest /\ BoundOnce /\ Restores /\ WakeupsAreFound
      /\ Len(trail) \in Nat /\ Len(choices) \in Nat /\ trail \in Seq(Entries)
      /\ choices \in Seq(Headers) /\ top \in Nat
  BY CellsAre DEF TrailInv, TypeOK
<1>1. UNCHANGED <<mem, top, depth, wake, boxed, due>> /\ k \in 0 .. Len(choices) /\ k \in Nat
  BY <1>0 DEF Commit
<1>2. choices' \in Seq(Headers) /\ Len(choices') = k /\ \A l \in 1 .. k : choices'[l] = choices[l]
  <2>1. choices' = SubSeq(choices, 1, k)
    BY DEF Commit
  <2> QED BY <1>0, <1>1, <2>1, HeadersPrefix
<1>3. \A l \in 1 .. k : l \in 1 .. Len(choices) /\ k \in l .. Len(choices) /\ k \in 1 .. Len(choices)
  BY <1>0, <1>1
<1>4. \A l \in 1 .. k : /\ choices[l].mark \in 1 .. Len(trail) /\ choices[l].hi <= depth
                        /\ choices[l].mark \in Nat
  BY <1>0, <1>3, HeadersAre DEF ChoicesStand
<1>5. CASE trail' = trail
  <2>1. TypeOK'
    BY <1>0, <1>1, <1>2, <1>5 DEF TypeOK
  <2>2. ChoicesStand' /\ ChoicesNest'
    BY <1>0, <1>1, <1>2, <1>4, <1>5, ChoicesKept
  <2>3. BoundOnce' /\ WakeupsAreFound'
    BY <1>0, <1>1, <1>5 DEF BoundOnce, WakeupsAreFound
  <2>4. Restores'
    BY <1>0, <1>1, <1>2, <1>3, <1>5 DEF Restores
  <2> QED BY <2>1, <2>2, <2>3, <2>4 DEF TrailInv
<1>6. CASE k # 0 /\ wake = 0
  <2> DEFINE c == choices[k]
             n == WalkFrom(c)
             w == Walked(c, n)
  <2>1. k \in 1 .. k /\ k \in 1 .. Len(choices)
    BY <1>1, <1>6
  <2>2. due = {}
    BY <1>0, <1>6 DEF WakeupsAreFound
  <2>3. n \in c.mark .. Len(trail) /\ n \in 0 .. Len(trail) /\ c.mark \in 1 .. n /\ n \in Nat
    <3>1. c.mark \in 1 .. Len(trail) /\ trail[c.mark].old \in Nat
      BY <1>0, <1>4, <2>1, EntriesAre
    <3> QED BY <1>0, <3>1 DEF WalkFrom
  <2>4. trail' = Tidied(c, w)
    BY <1>6 DEF Commit, Tidy
  <2>5. WalkedSoFar(w, Len(trail), n)
    BY <1>0, <2>3, WalkedIsApart
  <2> HIDE DEF c, n, w
  <2>6. /\ w \in Seq(Entries) /\ Len(w) \in Nat /\ n <= Len(w) /\ n <= Len(trail)
        /\ \A p \in 1 .. n : w[p] = trail[p]
        /\ \A p \in 1 .. Len(w) : \E q \in 1 .. Len(trail) : w[p] = trail[q]
        /\ \A p1, p2 \in 1 .. Len(w) :
               w[p1].cell \in Heap /\ w[p1].cell = w[p2].cell => p1 = p2
    BY <1>0, <2>3, <2>5 DEF WalkedSoFar
  <2>7. IsSentinel(w[c.mark]) /\ c.mark \in 1 .. Len(w)
    <3>1. IsSentinel(trail[c.mark])
      BY <1>0, <2>1 DEF ChoicesStand, c
    <3>2. w[c.mark] = trail[c.mark]
      BY <2>3, <2>6
    <3>3. c.mark \in 1 .. Len(w)
      BY <2>3, <2>6
    <3> QED BY <3>1, <3>2, <3>3
  <2>8. trail' = [w EXCEPT ![c.mark].old = Len(w)]
    BY <2>4, <2>7 DEF Tidied
  <2>9. /\ trail' \in Seq(Entries) /\ Len(trail') = Len(w)
        /\ \A p \in 1 .. Len(w) : trail'[p].cell = w[p].cell /\ trail'[p].hb = w[p].hb
        /\ \A p \in 1 .. Len(w) : w[p].cell # 0 => trail'[p].old = w[p].old
    <3>1. \A p \in 1 .. Len(w) : w[p] \in Entries
      BY <2>6
    <3> DEFINE e == [w[c.mark] EXCEPT !.old = Len(w)]
    <3>2. e \in Entries /\ e.cell = w[c.mark].cell /\ e.hb = w[c.mark].hb
      BY <2>6, <2>7, <3>1 DEF Entries
    <3>3. trail' = [w EXCEPT ![c.mark] = e]
      BY <2>8
    <3> HIDE DEF e
    <3>4. trail' \in Seq(Entries) /\ Len(trail') = Len(w)
      BY <2>6, <2>7, <3>2, <3>3, ExceptSeq
    <3>5. \A p \in 1 .. Len(w) : trail'[p] = IF p = c.mark THEN e ELSE w[p]
      BY <2>6, <3>3
    <3> QED BY <2>7, <3>2, <3>4, <3>5 DEF IsSentinel
  <2>10. TypeOK'
    BY <1>0, <1>1, <1>2, <2>9 DEF TypeOK
  <2>11. \A l \in 1 .. k : choices[l].mark \in 1 .. n
    <3> SUFFICES ASSUME NEW l \in 1 .. k PROVE choices[l].mark \in 1 .. n
      OBVIOUS
    <3>1. l = k \/ l < k
      OBVIOUS
    <3>2. choices[l].mark <= c.mark
      BY <1>0, <1>3, <1>4, <2>1, <3>1 DEF ChoicesNest, c
    <3> QED BY <1>4, <2>3, <3>2
  <2>12. ChoicesStand' /\ ChoicesNest'
    <3>1. Len(trail') \in Nat /\ top' \in Nat /\ top <= top'
      BY <1>0, <1>1, <2>6, <2>9
    <3>2. \A l \in 1 .. k :
              /\ choices[l].mark <= Len(trail') /\ choices[l].hi <= depth'
              /\ trail'[choices[l].mark].cell = trail[choices[l].mark].cell
              /\ trail'[choices[l].mark].hb = trail[choices[l].mark].hb
      <4> SUFFICES ASSUME NEW l \in 1 .. k
                   PROVE  /\ choices[l].mark <= Len(trail') /\ choices[l].hi <= depth'
                          /\ trail'[choices[l].mark].cell = trail[choices[l].mark].cell
                          /\ trail'[choices[l].mark].hb = trail[choices[l].mark].hb
        OBVIOUS
      <4>1. choices[l].mark \in 1 .. n /\ choices[l].mark \in 1 .. Len(w)
        BY <2>3, <2>6, <2>11
      <4> QED BY <1>1, <1>4, <2>6, <2>9, <4>1
    <3> QED BY <1>0, <1>1, <1>2, <3>1, <3>2, ChoicesKept
  <2>13. BoundOnce'
    <3> SUFFICES ASSUME NEW i \in 1 .. Len(w), w[i].cell \in Heap
                 PROVE  /\ w[i].cell <= top /\ mem[w[i].cell] = Bound
                        /\ \A j \in 1 .. Len(w) : w[j].cell = w[i].cell => j = i
      BY <1>1, <2>9 DEF BoundOnce
    <3>1. PICK q \in 1 .. Len(trail) : w[i] = trail[q]
      BY <2>6
    <3> QED BY <1>0, <2>6, <3>1 DEF BoundOnce
  <2>14. Restores'
    <3> SUFFICES ASSUME NEW l \in 1 .. k, NEW x \in DOMAIN choices[l].snap \ {Box}
                 PROVE  Restored(trail', mem, choices[l].mark, x) = choices[l].snap[x]
      BY <1>1, <1>2 DEF Restores
    <3> DEFINE m == choices[l].mark
    <3>1. m \in 0 .. n /\ m \in Nat
      BY <1>4, <2>3, <2>11
    <3>2. x # 0 /\ Older(trail, c, x)
      BY <1>0, <1>3, SavedIsOlder DEF c
    <3>3. \A i \in 1 .. Len(trail) : trail[i].cell = x => KeptUnder(c, trail[i])
      BY <3>2 DEF KeptUnder, IsSentinel
    <3>4. Restored(trail, mem, m, x) = choices[l].snap[x]
      BY <1>0, <1>3 DEF Restores
    <3> HIDE DEF m
    <3>5. Restored(w, mem, m, x) = Restored(trail, mem, m, x)
      BY <1>0, <2>3, <3>1, <3>3, WalkedRestores DEF w
    <3>6. SameEntries(w, trail', m, x, x)
      <4>1. \A i \in m + 1 .. Len(w) : i \in 1 .. Len(w)
        BY <2>6, <3>1
      <4>2. EntriesOf(w, m, x) = EntriesOf(trail', m, x)
        BY <2>9, <4>1 DEF EntriesOf
      <4>3. \A i \in EntriesOf(w, m, x) : w[i].old = trail'[i].old
        BY <2>9, <3>2, <4>1 DEF EntriesOf
      <4> QED BY <4>2, <4>3 DEF SameEntries
    <3>7. Restored(w, mem, m, x) = Restored(trail', mem, m, x)
      BY <2>6, <3>1, <3>6, SameRestored
    <3> QED BY <3>4, <3>5, <3>7 DEF m
  <2>15. WakeupsAreFound'
    BY <1>1, <2>2 DEF WakeupsAreFound
  <2> QED BY <2>10, <2>12, <2>13, <2>14, <2>15 DEF TrailInv
<1>7. trail' = trail \/ (k # 0 /\ wake = 0)
  BY DEF Commit, Tidy
<1> QED BY <1>5, <1>6, <1>7

(* A store in the global writes no entry and no cell but the global's.     *)
LEMMA BSetStep == ASSUME TrailInv, NEW v \in Values, BSet(v) PROVE TrailInv'
<1>0. /\ TypeOK /\ ChoicesStand /\ ChoicesNest /\ BoundOnce /\ Restores /\ WakeupsAreFound
      /\ Len(trail) \in Nat /\ Len(choices) \in Nat /\ trail \in Seq(Entries)
      /\ wake \in Nat /\ top \in Nat /\ v \in Nat
  BY CellsAre, Bounds DEF TrailInv, TypeOK
<1>1. UNCHANGED <<top, depth, choices, wake, due>> /\ boxed' = TRUE /\ trail' = BSetLogged
  BY DEF BSet
<1>2. choices # <<>> => B.mark \in Nat
  <2>1. choices # <<>> => Len(choices) \in 1 .. Len(choices)
    BY <1>0
  <2> QED BY <1>0, <2>1, HeadersAre DEF B
<1>3. /\ mem' \in [Cells -> Nat]
      /\ \A x \in Cells \ {Box, Stamp} : mem'[x] = mem[x]
  BY <1>0, <1>2, CellsAre DEF BSet, TypeOK
<1>4. \A z \in {Box, Stamp}, o \in Nat : Kept(z, o) \in Entries /\ Kept(z, o).cell = z
  BY CellsAre DEF Kept, Entry, Entries
<1>5. mem[Box] \in Nat /\ mem[Stamp] \in Nat
  BY <1>0, CellsAre DEF TypeOK
<1>6. \E s \in Seq(Entries) :
          /\ trail' = trail \o s
          /\ \A i \in 1 .. Len(s) : s[i].cell \in {Box, Stamp}
  <2>1. trail' = trail \o <<>> \/ (\E e \in Entries : trail' = Append(trail, e) /\ e.cell = Box)
        \/ trail' = trail \o <<Kept(Box, mem[Box]), Kept(Stamp, mem[Stamp])>>
    BY <1>0, <1>1, <1>4 DEF BSetLogged
  <2>2. CASE trail' = trail \o <<>>
    <3> DEFINE s == <<>>
    <3>1. s \in Seq(Entries) /\ Len(s) = 0 /\ trail' = trail \o s
      BY <2>2, EmptySeq
    <3>2. \A i \in 1 .. Len(s) : s[i].cell \in {Box, Stamp}
      BY <3>1
    <3> HIDE DEF s
    <3> QED BY <3>1, <3>2
  <2>3. CASE \E e \in Entries : trail' = Append(trail, e) /\ e.cell = Box
    <3>1. PICK e \in Entries : trail' = Append(trail, e) /\ e.cell = Box
      BY <2>3
    <3> DEFINE s == <<e>>
    <3>2. trail' = trail \o s
      BY <1>0, <3>1, AppendIsConcat
    <3>3. s \in Seq(Entries) /\ Len(s) = 1 /\ s[1] = e
      BY <3>1
    <3> HIDE DEF s
    <3>4. \A i \in 1 .. Len(s) : s[i].cell \in {Box, Stamp}
      BY <3>1, <3>3
    <3> QED BY <3>2, <3>3, <3>4
  <2>4. CASE trail' = trail \o <<Kept(Box, mem[Box]), Kept(Stamp, mem[Stamp])>>
    <3> DEFINE a == Kept(Box, mem[Box])
               d == Kept(Stamp, mem[Stamp])
    <3>1. a \in Entries /\ d \in Entries /\ a.cell = Box /\ d.cell = Stamp
      BY <1>4, <1>5
    <3>2. trail' = trail \o <<a, d>>
      BY <2>4
    <3> HIDE DEF a, d
    <3>3. <<a, d>> \in Seq(Entries) /\ Len(<<a, d>>) = 2 /\ <<a, d>>[1] = a /\ <<a, d>>[2] = d
      BY <3>1
    <3>4. \A i \in 1 .. 2 : i = 1 \/ i = 2
      OBVIOUS
    <3> QED BY <3>1, <3>2, <3>3, <3>4
  <2> QED BY <2>1, <2>2, <2>3, <2>4
<1>7. PICK s \in Seq(Entries) :
          /\ trail' = trail \o s
          /\ \A i \in 1 .. Len(s) : s[i].cell \in {Box, Stamp}
  BY <1>6
<1>8. /\ trail' \in Seq(Entries) /\ Len(trail') = Len(trail) + Len(s) /\ Len(s) \in Nat
      /\ \A i \in 1 .. Len(trail) : trail'[i] = trail[i]
      /\ \A i \in Len(trail) + 1 .. Len(trail') : trail'[i].cell \in {Box, Stamp}
  <2>1. /\ trail' \in Seq(Entries) /\ Len(trail') = Len(trail) + Len(s) /\ Len(s) \in Nat
        /\ \A i \in 1 .. Len(trail) + Len(s) :
               trail'[i] = IF i <= Len(trail) THEN trail[i] ELSE s[i - Len(trail)]
    BY <1>0, <1>7, ConcatProperties
  <2>2. \A i \in Len(trail) + 1 .. Len(trail') : trail'[i].cell \in {Box, Stamp}
    <3> SUFFICES ASSUME NEW i \in Len(trail) + 1 .. Len(trail') PROVE trail'[i].cell \in {Box, Stamp}
      OBVIOUS
    <3>1. i \in 1 .. Len(trail) + Len(s) /\ ~(i <= Len(trail)) /\ i - Len(trail) \in 1 .. Len(s)
      BY <1>0, <2>1
    <3> QED BY <1>7, <2>1, <3>1
  <2>3. \A i \in 1 .. Len(trail) : i \in 1 .. Len(trail) + Len(s) /\ i <= Len(trail)
    BY <1>0, <2>1
  <2> QED BY <2>1, <2>2, <2>3
<1>9. TypeOK'
  BY <1>0, <1>1, <1>3, <1>8 DEF TypeOK
<1>10. ChoicesStand' /\ ChoicesNest'
  <2>1. Len(choices) \in 0 .. Len(choices) /\ Len(trail') \in Nat /\ top' \in Nat /\ top <= top'
    BY <1>0, <1>1, <1>8
  <2>2. \A k \in 1 .. Len(choices) :
            /\ choices[k].mark <= Len(trail') /\ choices[k].hi <= depth'
            /\ trail'[choices[k].mark] = trail[choices[k].mark]
    BY <1>0, <1>1, <1>8, HeadersAre DEF ChoicesStand
  <2> QED BY <1>0, <1>1, <2>1, <2>2, ChoicesKept
<1>11. \A i \in 1 .. Len(trail') : i \in 1 .. Len(trail) \/ i \in Len(trail) + 1 .. Len(trail')
  BY <1>0, <1>8
<1>12. BoundOnce'
  <2> SUFFICES ASSUME NEW i \in 1 .. Len(trail'), trail'[i].cell \in Heap
               PROVE  /\ trail'[i].cell <= top /\ mem'[trail'[i].cell] = Bound
                      /\ \A j \in 1 .. Len(trail') : trail'[j].cell = trail'[i].cell => j = i
    BY <1>1 DEF BoundOnce
  <2>1. \A j \in Len(trail) + 1 .. Len(trail') : trail'[j].cell \notin Heap
    BY <1>8, CellsAre
  <2>2. i \in 1 .. Len(trail) /\ trail'[i] = trail[i]
    BY <1>8, <1>11, <2>1
  <2>3. /\ trail[i].cell <= top /\ mem[trail[i].cell] = Bound
        /\ \A j \in 1 .. Len(trail) : trail[j].cell = trail[i].cell => j = i
    BY <1>0, <2>2 DEF BoundOnce
  <2>4. mem'[trail[i].cell] = Bound
    BY <1>3, <2>2, <2>3, CellsAre
  <2> QED BY <1>8, <1>11, <2>1, <2>2, <2>3, <2>4
<1>13. Restores'
  <2> SUFFICES ASSUME NEW k \in 1 .. Len(choices), NEW x \in DOMAIN choices[k].snap \ {Box}
               PROVE  Restored(trail', mem', choices[k].mark, x) = choices[k].snap[x]
    BY <1>1 DEF Restores
  <2> DEFINE m == choices[k].mark
  <2>1. m \in Nat /\ x \in Cells /\ x # Box /\ x # Stamp
    <3>1. k \in k .. Len(choices)
      BY <1>0
    <3> QED BY <1>0, <3>1, HeadersAre, SavedIsOlder
  <2>2. mem[x] = mem'[x] /\ Restored(trail, mem, m, x) = choices[k].snap[x]
    BY <1>0, <1>3, <2>1 DEF Restores
  <2> HIDE DEF m
  <2>3. SameEntries(trail, trail', m, x, x)
    <3>1. \A i \in m + 1 .. Len(trail) : i \in 1 .. Len(trail) /\ i \in m + 1 .. Len(trail')
      BY <1>0, <1>8, <2>1
    <3>2. \A i \in m + 1 .. Len(trail') :
              trail'[i].cell = x => i \in 1 .. Len(trail) /\ i \in m + 1 .. Len(trail)
      <4> SUFFICES ASSUME NEW i \in m + 1 .. Len(trail'), trail'[i].cell = x
                   PROVE  i \in 1 .. Len(trail) /\ i \in m + 1 .. Len(trail)
        OBVIOUS
      <4>1. i \in 1 .. Len(trail')
        BY <1>0, <1>8, <2>1
      <4>2. i \in 1 .. Len(trail)
        BY <1>8, <1>11, <2>1, <4>1
      <4> QED BY <4>2
    <3>3. EntriesOf(trail, m, x) = EntriesOf(trail', m, x)
      BY <1>8, <3>1, <3>2 DEF EntriesOf
    <3>4. \A i \in EntriesOf(trail, m, x) : trail[i].old = trail'[i].old
      BY <1>8, <3>1 DEF EntriesOf
    <3> QED BY <3>3, <3>4 DEF SameEntries
  <2>4. Restored(trail, mem, m, x) = Restored(trail', mem', m, x)
    BY <1>0, <2>1, <2>2, <2>3, SameRestored
  <2> QED BY <2>2, <2>4 DEF m
<1>14. WakeupsAreFound'
  <2> SUFFICES ASSUME NEW x \in due
               PROVE  /\ wake # 0
                      /\ \E i \in wake .. Len(trail') : trail'[i].cell = x /\ trail'[i].old = AttVar
    BY <1>1 DEF WakeupsAreFound
  <2>1. wake # 0
    BY <1>0 DEF WakeupsAreFound
  <2>2. PICK i \in wake .. Len(trail) : trail[i].cell = x /\ trail[i].old = AttVar
    BY <1>0 DEF WakeupsAreFound
  <2>3. i \in 1 .. Len(trail) /\ i \in wake .. Len(trail')
    BY <1>0, <1>8, <2>1
  <2> QED BY <1>8, <2>1, <2>2, <2>3
<1> QED BY <1>9, <1>10, <1>12, <1>13, <1>14 DEF TrailInv

(* A store that no backtrack takes back raises HB over the new cell; it    *)
(* moves no entry.                                                         *)
LEMMA FrozenIs ==
    ASSUME TypeOK, NEW t \in Nat
    PROVE  /\ Frozen(trail, t) \in Seq(Entries) /\ Len(Frozen(trail, t)) = Len(trail)
           /\ \A i \in 1 .. Len(trail) :
                  /\ Frozen(trail, t)[i].cell = trail[i].cell
                  /\ Frozen(trail, t)[i].old = trail[i].old
                  /\ Frozen(trail, t)[i].hb =
                         IF IsSentinel(trail[i]) /\ trail[i].hb < t THEN t ELSE trail[i].hb
<1>0. Len(trail) \in Nat
  BY DEF TypeOK
<1> DEFINE g(i) == IF IsSentinel(trail[i]) /\ trail[i].hb < t THEN [trail[i] EXCEPT !.hb = t] ELSE trail[i]
<1>1. \A i \in 1 .. Len(trail) :
          /\ g(i) \in Entries /\ g(i).cell = trail[i].cell /\ g(i).old = trail[i].old
          /\ g(i).hb = IF IsSentinel(trail[i]) /\ trail[i].hb < t THEN t ELSE trail[i].hb
  <2>1. \A i \in 1 .. Len(trail) : trail[i] \in Entries
    BY EntriesAre
  <2> QED BY <2>1 DEF Entries
<1>2. Frozen(trail, t) = [i \in 1 .. Len(trail) |-> g(i)]
  BY DEF Frozen
<1> HIDE DEF g
<1>3. \A i \in 1 .. Len(trail) : Frozen(trail, t)[i] = g(i)
  BY <1>2
<1>4. Frozen(trail, t) \in Seq(Entries) /\ Len(Frozen(trail, t)) = Len(trail)
  BY <1>0, <1>1, <1>2, IsASeq
<1> QED BY <1>1, <1>3, <1>4

LEMMA NbSetStep == ASSUME TrailInv, NbSet PROVE TrailInv'
<1>0. /\ TypeOK /\ ChoicesStand /\ ChoicesNest /\ BoundOnce /\ Restores /\ WakeupsAreFound
      /\ Len(trail) \in Nat /\ Len(choices) \in Nat /\ trail \in Seq(Entries)
      /\ wake \in Nat /\ top \in Nat
  BY CellsAre DEF TrailInv, TypeOK
<1> DEFINE t == top + 1
<1>1. /\ t \in Heap /\ t \in Nat /\ t <= MaxHeap /\ top' = t /\ mem' = [mem EXCEPT ![t] = Var]
      /\ trail' = Frozen(trail, t) /\ UNCHANGED <<depth, wake, boxed, due>>
  BY <1>0, CellsAre DEF NbSet, Heap
<1>2. t \in Cells /\ t # Box
  BY <1>1, CellsAre
<1>3. choices' = [k \in 1 .. Len(choices) |->
                     [choices[k] EXCEPT !.snap = [x \in DOMAIN choices[k].snap \cup {t} |->
                                         IF x = t THEN Var ELSE choices[k].snap[x]]]]
  BY DEF NbSet
<1>a. top < t /\ ~(t <= top)
  BY <1>0
<1> HIDE DEF t
<1>4. /\ trail' \in Seq(Entries) /\ Len(trail') = Len(trail)
      /\ \A i \in 1 .. Len(trail) :
             /\ trail'[i].cell = trail[i].cell /\ trail'[i].old = trail[i].old
             /\ trail'[i].hb = IF IsSentinel(trail[i]) /\ trail[i].hb < t THEN t ELSE trail[i].hb
  BY <1>0, <1>1, FrozenIs
<1>5. /\ choices' \in Seq(Headers) /\ Len(choices') = Len(choices)
      /\ \A k \in 1 .. Len(choices) :
             /\ choices'[k].mark = choices[k].mark /\ choices'[k].hi = choices[k].hi
             /\ DOMAIN choices'[k].snap = DOMAIN choices[k].snap \cup {t}
             /\ \A x \in DOMAIN choices'[k].snap :
                    choices'[k].snap[x] = IF x = t THEN Var ELSE choices[k].snap[x]
  <2> DEFINE sn(k) == [x \in DOMAIN choices[k].snap \cup {t} |->
                           IF x = t THEN Var ELSE choices[k].snap[x]]
             h(k) == [choices[k] EXCEPT !.snap = sn(k)]
  <2>1. \A k \in 1 .. Len(choices) :
            /\ h(k) \in Headers /\ h(k).mark = choices[k].mark /\ h(k).hi = choices[k].hi
            /\ h(k).snap = sn(k)
    <3> SUFFICES ASSUME NEW k \in 1 .. Len(choices)
                 PROVE  /\ h(k) \in Headers /\ h(k).mark = choices[k].mark
                        /\ h(k).hi = choices[k].hi /\ h(k).snap = sn(k)
      OBVIOUS
    <3> DEFINE S == DOMAIN choices[k].snap \cup {t}
    <3>1. choices[k] \in Headers /\ S \subseteq Cells
      BY <1>0, <1>2, HeadersAre
    <3>2. sn(k) \in [S -> Nat]
      BY <1>0, HeadersAre DEF Var
    <3> HIDE DEF sn, S
    <3> QED BY <3>1, <3>2 DEF Headers
  <2>2. choices' = [k \in 1 .. Len(choices) |-> h(k)]
    BY <1>3
  <2>3. \A k \in 1 .. Len(choices) : h(k) \in Headers
    BY <2>1
  <2>4. Len(choices) \in Nat
    BY <1>0
  <2>5. \A k \in 1 .. Len(choices) :
            /\ DOMAIN sn(k) = DOMAIN choices[k].snap \cup {t}
            /\ \A x \in DOMAIN sn(k) : sn(k)[x] = IF x = t THEN Var ELSE choices[k].snap[x]
    OBVIOUS
  <2> HIDE DEF h, sn
  <2>6. choices' \in Seq(Headers) /\ Len(choices') = Len(choices)
    BY <2>2, <2>3, <2>4
  <2>7. \A k \in 1 .. Len(choices) : choices'[k] = h(k)
    BY <2>2
  <2>8. \A k \in 1 .. Len(choices) :
            /\ choices'[k].mark = choices[k].mark /\ choices'[k].hi = choices[k].hi
            /\ choices'[k].snap = sn(k)
    BY <2>1, <2>7
  <2>9. \A k \in 1 .. Len(choices) :
            /\ DOMAIN choices'[k].snap = DOMAIN choices[k].snap \cup {t}
            /\ \A x \in DOMAIN choices'[k].snap :
                   choices'[k].snap[x] = IF x = t THEN Var ELSE choices[k].snap[x]
    BY <2>5, <2>8
  <2> QED BY <2>6, <2>8, <2>9
<1>6. TypeOK'
  <2>1. mem' \in [Cells -> Nat]
    BY <1>0, <1>1 DEF TypeOK, Var
  <2>2. top' \in 0 .. MaxHeap /\ due' \subseteq 1 .. top'
    BY <1>0, <1>1, <1>a, CellsAre DEF TypeOK
  <2> QED BY <1>0, <1>1, <1>4, <1>5, <2>1, <2>2 DEF TypeOK
<1>7. \A k \in 1 .. Len(choices) :
          /\ choices[k].mark \in 1 .. Len(trail) /\ IsSentinel(trail[choices[k].mark])
          /\ HB(trail, choices[k]) \in Nat /\ HB(trail, choices[k]) <= top
          /\ HB(trail', choices'[k]) = t
          /\ DOMAIN choices[k].snap \subseteq Live \cup {Box}
  <2> SUFFICES ASSUME NEW k \in 1 .. Len(choices)
               PROVE  /\ choices[k].mark \in 1 .. Len(trail) /\ IsSentinel(trail[choices[k].mark])
                      /\ HB(trail, choices[k]) \in Nat /\ HB(trail, choices[k]) <= top
                      /\ HB(trail', choices'[k]) = t
                      /\ DOMAIN choices[k].snap \subseteq Live \cup {Box}
    OBVIOUS
  <2>1. /\ choices[k].mark \in 1 .. Len(trail) /\ IsSentinel(trail[choices[k].mark])
        /\ HB(trail, choices[k]) <= top
    BY <1>0 DEF ChoicesStand
  <2>2. HB(trail, choices[k]) \in Nat
    BY <1>0, <2>1, EntriesAre DEF HB
  <2>3. HB(trail', choices'[k]) = t
    <3>1. HB(trail', choices'[k]) = trail'[choices[k].mark].hb
      BY <1>5 DEF HB
    <3>2. trail[choices[k].mark].hb < t
      BY <1>0, <1>1, <1>a, <2>1, <2>2 DEF HB
    <3> QED BY <1>4, <2>1, <3>1, <3>2
  <2>4. k \in k .. Len(choices)
    BY <1>0
  <2>5. DOMAIN choices[k].snap \subseteq Live \cup {Box}
    BY <1>0, <2>4, SavedIsOlder
  <2> QED BY <2>1, <2>2, <2>3, <2>5
<1>8. ChoicesStand'
  <2> SUFFICES ASSUME NEW k \in 1 .. Len(choices)
               PROVE  /\ choices'[k].mark \in 1 .. Len(trail')
                      /\ IsSentinel(trail'[choices'[k].mark])
                      /\ choices'[k].hi <= depth' /\ HB(trail', choices'[k]) <= top'
                      /\ DOMAIN choices'[k].snap \subseteq
                             (-choices'[k].hi .. -1) \cup (1 .. HB(trail', choices'[k])) \cup {Box}
    BY <1>5 DEF ChoicesStand
  <2>1. choices'[k].mark \in 1 .. Len(trail') /\ IsSentinel(trail'[choices'[k].mark])
    BY <1>4, <1>5, <1>7 DEF IsSentinel
  <2>2. choices'[k].hi <= depth' /\ HB(trail', choices'[k]) <= top'
    <3>1. choices[k].hi <= depth
      BY <1>0 DEF ChoicesStand
    <3>2. choices'[k].hi = choices[k].hi /\ depth' = depth
      BY <1>1, <1>5
    <3>3. HB(trail', choices'[k]) = t /\ top' = t /\ t <= t
      BY <1>1, <1>7
    <3> QED BY <3>1, <3>2, <3>3
  <2>3. DOMAIN choices[k].snap \subseteq
            (-choices[k].hi .. -1) \cup (1 .. HB(trail, choices[k])) \cup {Box}
    BY <1>0 DEF ChoicesStand
  <2>4. 1 .. HB(trail, choices[k]) \subseteq 1 .. t /\ t \in 1 .. t
    BY <1>0, <1>1, <1>a, <1>7 DEF Heap
  <2> QED BY <1>5, <1>7, <2>1, <2>2, <2>3, <2>4
<1>9. ChoicesNest'
  <2> SUFFICES ASSUME NEW k \in 1 .. Len(choices), NEW l \in 1 .. Len(choices), k < l
               PROVE  /\ choices'[k].mark < choices'[l].mark /\ choices'[k].hi <= choices'[l].hi
                      /\ DOMAIN choices'[k].snap \subseteq DOMAIN choices'[l].snap
    BY <1>5 DEF ChoicesNest
  <2> QED BY <1>0, <1>5 DEF ChoicesNest
<1>10. \A i \in 1 .. Len(trail) : trail[i].cell # t
  BY <1>0, <1>1, <1>a DEF BoundOnce
<1>11. BoundOnce'
  <2> SUFFICES ASSUME NEW i \in 1 .. Len(trail), trail[i].cell \in Heap
               PROVE  /\ trail[i].cell <= top' /\ mem'[trail[i].cell] = Bound
                      /\ \A j \in 1 .. Len(trail) : trail[j].cell = trail[i].cell => j = i
    BY <1>4 DEF BoundOnce
  <2>1. /\ trail[i].cell <= top /\ mem[trail[i].cell] = Bound /\ trail[i].cell # t
        /\ \A j \in 1 .. Len(trail) : trail[j].cell = trail[i].cell => j = i
    BY <1>0, <1>10 DEF BoundOnce
  <2>2. trail[i].cell <= top'
    BY <1>0, <1>1, <1>a, <2>1, CellsAre DEF Heap
  <2>3. mem'[trail[i].cell] = Bound
    BY <1>0, <1>1, <2>1, CellsAre DEF TypeOK
  <2> QED BY <2>1, <2>2, <2>3
<1>12. Restores'
  <2> SUFFICES ASSUME NEW k \in 1 .. Len(choices), NEW x \in DOMAIN choices'[k].snap \ {Box}
               PROVE  Restored(trail', mem', choices'[k].mark, x) = choices'[k].snap[x]
    BY <1>5 DEF Restores
  <2> DEFINE m == choices[k].mark
  <2>1. m \in Nat /\ choices'[k].mark = m
    BY <1>0, <1>5, HeadersAre
  <2> HIDE DEF m
  <2>2. CASE x = t
    <3>1. EntriesOf(trail', m, t) = {}
      <4>1. \A i \in m + 1 .. Len(trail') : i \in 1 .. Len(trail)
        BY <1>0, <1>4, <2>1
      <4> QED BY <1>4, <1>10, <4>1 DEF EntriesOf
    <3>2. Restored(trail', mem', m, t) = mem'[t]
      BY <3>1, RestoredAsIs
    <3>3. mem'[t] = Var
      BY <1>0, <1>1, <1>2 DEF TypeOK
    <3> QED BY <1>5, <2>1, <2>2, <3>2, <3>3
  <2>3. CASE x # t
    <3>1. x \in DOMAIN choices[k].snap \ {Box}
      BY <1>5, <2>3
    <3>2. x \in Cells
      BY <1>0, <3>1, HeadersAre
    <3>3. mem[x] = mem'[x]
      BY <1>0, <1>1, <2>3, <3>2 DEF TypeOK
    <3>4. SameEntries(trail, trail', m, x, x)
      <4>1. \A i \in m + 1 .. Len(trail) : i \in 1 .. Len(trail)
        BY <1>0, <2>1
      <4>2. EntriesOf(trail, m, x) = EntriesOf(trail', m, x)
        BY <1>4, <4>1 DEF EntriesOf
      <4>3. \A i \in EntriesOf(trail, m, x) : trail[i].old = trail'[i].old
        BY <1>4, <4>1 DEF EntriesOf
      <4> QED BY <4>2, <4>3 DEF SameEntries
    <3>5. Restored(trail, mem, m, x) = Restored(trail', mem', m, x)
      BY <1>0, <2>1, <3>3, <3>4, SameRestored
    <3>6. Restored(trail, mem, m, x) = choices[k].snap[x]
      BY <1>0, <3>1 DEF Restores, m
    <3>7. choices'[k].snap[x] = choices[k].snap[x]
      BY <1>5, <2>3
    <3> QED BY <2>1, <3>5, <3>6, <3>7
  <2> QED BY <2>2, <2>3
<1>13. WakeupsAreFound'
  <2> SUFFICES ASSUME NEW x \in due
               PROVE  /\ wake # 0
                      /\ \E i \in wake .. Len(trail) : trail'[i].cell = x /\ trail'[i].old = AttVar
    BY <1>1, <1>4 DEF WakeupsAreFound
  <2>1. wake # 0
    BY <1>0 DEF WakeupsAreFound
  <2>2. PICK i \in wake .. Len(trail) : trail[i].cell = x /\ trail[i].old = AttVar
    BY <1>0 DEF WakeupsAreFound
  <2>3. i \in 1 .. Len(trail)
    BY <1>0, <2>1
  <2> QED BY <1>4, <2>1, <2>2, <2>3
<1> QED BY <1>6, <1>8, <1>9, <1>11, <1>12, <1>13 DEF TrailInv

(* The collector slides a live cell down by one or leaves it; no two cells *)
(* meet, and no entry names the reclaimed one.                             *)
LEMMA SlidIs ==
    ASSUME TypeOK, NEW j \in 1 .. top, NEW x \in Cells \cup {0}, x \in Heap => x <= top, x # j
    PROVE  /\ Slid(x, j) \in Cells \cup {0} /\ (Slid(x, j) \in Heap <=> x \in Heap)
           /\ x \in Heap => Slid(x, j) <= top - 1
           /\ x \notin Heap => Slid(x, j) = x
           /\ Unslid(Slid(x, j), j) = x
           /\ x \in Cells => Slid(x, j) \in Cells
<1>0. top \in Nat /\ top <= MaxHeap /\ MaxHeap \in Nat /\ j \in Nat /\ j \in Heap
  BY CellsAre DEF TypeOK, Heap
<1>1. CASE x \notin Heap
  BY <1>1 DEF Slid, Unslid
<1>2. CASE x \in Heap
  <2>1. x \in Nat /\ x >= 1 /\ x <= top
    BY <1>0, <1>2 DEF Heap
  <2>2. CASE x < j
    <3>1. Slid(x, j) = x
      BY <1>0, <2>1, <2>2 DEF Slid
    <3>2. Unslid(x, j) = x
      BY <1>0, <2>1, <2>2 DEF Unslid
    <3> QED BY <1>0, <1>2, <2>1, <2>2, <3>1, <3>2, CellsAre
  <2>3. CASE x > j
    <3>1. Slid(x, j) = x - 1 /\ x - 1 \in Heap
      BY <1>0, <1>2, <2>1, <2>3 DEF Slid, Heap
    <3>2. Unslid(x - 1, j) = x
      BY <1>0, <2>1, <2>3, <3>1 DEF Unslid
    <3> QED BY <1>0, <1>2, <2>1, <2>3, <3>1, <3>2, CellsAre
  <2> QED BY <1>0, <2>1, <2>2, <2>3
<1> QED BY <1>1, <1>2

LEMMA CollectedMem ==
    ASSUME TypeOK, NEW j \in 1 .. top, Collect(j)
    PROVE  /\ mem' \in [Cells -> Nat]
           /\ \A x \in Cells : (x \in Heap => x <= top) /\ x # j => mem'[Slid(x, j)] = mem[x]
<1>0. top \in Nat /\ top <= MaxHeap /\ MaxHeap \in Nat /\ j \in Nat /\ mem \in [Cells -> Nat]
  BY CellsAre DEF TypeOK
<1>1. mem' = [x \in Cells |-> IF x = top THEN Var
                              ELSE IF x \in 1 .. top THEN mem[Unslid(x, j)] ELSE mem[x]]
  BY DEF Collect
<1>2. \A x \in 1 .. top : x # top => Unslid(x, j) \in Cells
  <2>1. \A x \in 1 .. top : x # top => Unslid(x, j) \in Heap
    BY <1>0 DEF Unslid, Heap
  <2> QED BY <2>1, CellsAre
<1>3. mem' \in [Cells -> Nat]
  BY <1>0, <1>1, <1>2 DEF Var
<1>4. ASSUME NEW x \in Cells, x \in Heap => x <= top, x # j PROVE mem'[Slid(x, j)] = mem[x]
  <2>1. /\ Slid(x, j) \in Cells /\ (Slid(x, j) \in Heap <=> x \in Heap)
        /\ x \in Heap => Slid(x, j) <= top - 1
        /\ x \notin Heap => Slid(x, j) = x
        /\ Unslid(Slid(x, j), j) = x
    BY <1>4, SlidIs
  <2> DEFINE y == Slid(x, j)
  <2> HIDE DEF y
  <2>2. CASE x \in Heap
    <3>1. y \in 1 .. top /\ y # top
      BY <1>0, <2>1, <2>2 DEF y, Heap
    <3>2. mem'[y] = mem[Unslid(y, j)]
      BY <1>1, <2>1, <3>1 DEF y
    <3> QED BY <2>1, <3>2 DEF y
  <2>3. CASE x \notin Heap
    <3>1. y = x /\ x \notin 1 .. top
      BY <1>0, <2>1, <2>3 DEF y, Heap
    <3>2. x # top
      <4>1. top # 0 /\ top \in 1 .. top
        BY <1>0
      <4> QED BY <3>1, <4>1
    <3> QED BY <1>1, <3>1, <3>2 DEF y
  <2> QED BY <2>2, <2>3
<1> QED BY <1>3, <1>4

(* The entries and the headers after a collection.                         *)
LEMMA CollectedTrail ==
    ASSUME TypeOK, BoundOnce, NEW j \in 1 .. top, Collect(j)
    PROVE  /\ trail' \in Seq(Entries) /\ Len(trail') = Len(trail)
           /\ \A i \in 1 .. Len(trail) :
                  /\ trail'[i].cell = Slid(trail[i].cell, j) /\ trail'[i].old = trail[i].old
                  /\ trail'[i].hb = Rank(trail[i].hb, j)
                  /\ trail[i].cell # j /\ (trail[i].cell \in Heap => trail[i].cell <= top)
                  /\ trail[i].cell \in Cells \cup {0}
<1>0. Len(trail) \in Nat /\ top \in Nat
  BY CellsAre DEF TypeOK
<1> DEFINE g(i) == [trail[i] EXCEPT !.cell = Slid(trail[i].cell, j), !.hb = Rank(trail[i].hb, j)]
<1>1. trail' = [i \in 1 .. Len(trail) |-> g(i)]
  BY DEF Collect
<1>2. \A i \in 1 .. Len(trail) :
          /\ trail[i].cell # j /\ (trail[i].cell \in Heap => trail[i].cell <= top)
          /\ trail[i].cell \in Cells \cup {0}
  BY EntriesAre DEF Collect, BoundOnce
<1>3. \A i \in 1 .. Len(trail) :
          /\ g(i) \in Entries /\ g(i).cell = Slid(trail[i].cell, j) /\ g(i).old = trail[i].old
          /\ g(i).hb = Rank(trail[i].hb, j)
  <2> SUFFICES ASSUME NEW i \in 1 .. Len(trail)
               PROVE  /\ g(i) \in Entries /\ g(i).cell = Slid(trail[i].cell, j)
                      /\ g(i).old = trail[i].old /\ g(i).hb = Rank(trail[i].hb, j)
    OBVIOUS
  <2>1. Slid(trail[i].cell, j) \in Cells \cup {0}
    BY <1>2, SlidIs
  <2>2. Rank(trail[i].hb, j) \in Nat
    BY <1>0, EntriesAre DEF Rank
  <2>3. trail[i] \in Entries
    BY EntriesAre
  <2> DEFINE c == Slid(trail[i].cell, j)
             h == Rank(trail[i].hb, j)
  <2>4. g(i) = [trail[i] EXCEPT !.cell = c, !.hb = h]
    OBVIOUS
  <2>5. c \in Cells \cup {0} /\ h \in Nat
    BY <2>1, <2>2
  <2> HIDE DEF c, h, g
  <2>6. g(i) \in Entries /\ g(i).cell = c /\ g(i).old = trail[i].old /\ g(i).hb = h
    BY <2>3, <2>4, <2>5 DEF Entries
  <2> QED BY <2>6 DEF c, h
<1> HIDE DEF g
<1>4. \A i \in 1 .. Len(trail) : g(i) \in Entries
  BY <1>3
<1>5. trail' \in Seq(Entries) /\ Len(trail') = Len(trail)
  BY <1>0, <1>1, <1>4
<1>6. \A i \in 1 .. Len(trail) : trail'[i] = g(i)
  BY <1>1
<1> QED BY <1>2, <1>3, <1>5, <1>6

LEMMA CollectedChoices ==
    ASSUME TypeOK, ChoicesStand, ChoicesNest, NEW j \in 1 .. top, Collect(j)
    PROVE  /\ choices' \in Seq(Headers) /\ Len(choices') = Len(choices)
           /\ \A k \in 1 .. Len(choices) :
                  /\ choices'[k].mark = choices[k].mark /\ choices'[k].hi = choices[k].hi
                  /\ DOMAIN choices'[k].snap = {Slid(y, j) : y \in DOMAIN choices[k].snap \ {j}}
                  /\ \A y \in DOMAIN choices[k].snap \ {j} :
                         /\ y \in Cells /\ (y \in Heap => y <= top)
                         /\ choices'[k].snap[Slid(y, j)] = choices[k].snap[y]
<1>0. Len(choices) \in Nat
  BY DEF TypeOK
<1> DEFINE S(k) == {Slid(y, j) : y \in DOMAIN choices[k].snap \ {j}}
           sn(k) == [x \in S(k) |-> choices[k].snap[Unslid(x, j)]]
           h(k) == [choices[k] EXCEPT !.snap = sn(k)]
<1>1. choices' = [k \in 1 .. Len(choices) |-> h(k)]
  BY DEF Collect
<1>2. \A k \in 1 .. Len(choices) : \A y \in DOMAIN choices[k].snap \ {j} :
          /\ y \in Cells /\ (y \in Heap => y <= top) /\ Slid(y, j) \in Cells
          /\ choices[k].snap[y] \in Nat /\ Unslid(Slid(y, j), j) = y
  <2> SUFFICES ASSUME NEW k \in 1 .. Len(choices), NEW y \in DOMAIN choices[k].snap \ {j}
               PROVE  /\ y \in Cells /\ (y \in Heap => y <= top) /\ Slid(y, j) \in Cells
                      /\ choices[k].snap[y] \in Nat /\ Unslid(Slid(y, j), j) = y
    OBVIOUS
  <2>1. y \in Cells /\ choices[k].snap[y] \in Nat
    BY HeadersAre
  <2>2. y \in Heap => y <= top
    <3>1. CASE y = Box
      BY <3>1, CellsAre
    <3>2. CASE y # Box
      <4>1. k \in k .. Len(choices)
        BY <1>0
      <4>2. y \in Live
        BY <3>2, <4>1, SavedIsOlder
      <4> QED BY <4>2, CellsAre DEF Live, TypeOK, Heap
    <3> QED BY <3>1, <3>2
  <2>3. Slid(y, j) \in Cells /\ Unslid(Slid(y, j), j) = y
    BY <2>1, <2>2, SlidIs
  <2> QED BY <2>1, <2>2, <2>3
<1>3. \A k \in 1 .. Len(choices) :
          /\ DOMAIN sn(k) = S(k) /\ sn(k) \in [S(k) -> Nat] /\ S(k) \subseteq Cells
          /\ \A y \in DOMAIN choices[k].snap \ {j} : sn(k)[Slid(y, j)] = choices[k].snap[y]
  <2> SUFFICES ASSUME NEW k \in 1 .. Len(choices)
               PROVE  /\ DOMAIN sn(k) = S(k) /\ sn(k) \in [S(k) -> Nat] /\ S(k) \subseteq Cells
                      /\ \A y \in DOMAIN choices[k].snap \ {j} :
                             sn(k)[Slid(y, j)] = choices[k].snap[y]
    OBVIOUS
  <2>1. \A x \in S(k) : choices[k].snap[Unslid(x, j)] \in Nat /\ x \in Cells
    BY <1>2
  <2>2. \A y \in DOMAIN choices[k].snap \ {j} : Slid(y, j) \in S(k)
    OBVIOUS
  <2> HIDE DEF S
  <2>3. \A y \in DOMAIN choices[k].snap \ {j} : sn(k)[Slid(y, j)] = choices[k].snap[y]
    BY <1>2, <2>2
  <2> QED BY <2>1, <2>3
<1> HIDE DEF sn, S
<1>4. \A k \in 1 .. Len(choices) :
          /\ h(k) \in Headers /\ h(k).mark = choices[k].mark /\ h(k).hi = choices[k].hi
          /\ h(k).snap = sn(k)
  <2>1. \A k \in 1 .. Len(choices) : choices[k] \in Headers
    BY HeadersAre
  <2> QED BY <1>3, <2>1 DEF Headers
<1> HIDE DEF h
<1>5. \A k \in 1 .. Len(choices) : h(k) \in Headers
  BY <1>4
<1>6. choices' \in Seq(Headers) /\ Len(choices') = Len(choices)
  BY <1>0, <1>1, <1>5
<1>7. \A k \in 1 .. Len(choices) : choices'[k] = h(k)
  BY <1>1
<1>8. \A k \in 1 .. Len(choices) :
          /\ choices'[k].mark = choices[k].mark /\ choices'[k].hi = choices[k].hi
          /\ choices'[k].snap = sn(k)
  BY <1>4, <1>7
<1> QED BY <1>2, <1>3, <1>6, <1>8 DEF S

LEMMA CollectStep == ASSUME TrailInv, NEW j \in Heap, Collect(j) PROVE TrailInv'
<1>0. /\ TypeOK /\ ChoicesStand /\ ChoicesNest /\ BoundOnce /\ Restores /\ WakeupsAreFound
      /\ Len(trail) \in Nat /\ Len(choices) \in Nat /\ trail \in Seq(Entries)
      /\ wake \in Nat /\ top \in Nat /\ top <= MaxHeap /\ MaxHeap \in Nat
  BY CellsAre DEF TrailInv, TypeOK
<1>1. /\ j \in 1 .. top /\ j \in Nat /\ j \notin due /\ top' = top - 1 /\ top' \in 0 .. MaxHeap
      /\ due' = {Slid(x, j) : x \in due} /\ UNCHANGED <<depth, wake, boxed>>
  <2>1. j \in 1 .. top /\ j \notin due /\ top' = top - 1
    BY DEF Collect
  <2>2. j \in Nat /\ top - 1 \in 0 .. MaxHeap
    BY <1>0, <2>1
  <2>3. due' = {Slid(x, j) : x \in due} /\ UNCHANGED <<depth, wake, boxed>>
    BY DEF Collect
  <2> QED BY <2>1, <2>2, <2>3
<1>2. /\ mem' \in [Cells -> Nat]
      /\ \A x \in Cells : (x \in Heap => x <= top) /\ x # j => mem'[Slid(x, j)] = mem[x]
  BY <1>0, <1>1, CollectedMem
<1>3. /\ trail' \in Seq(Entries) /\ Len(trail') = Len(trail)
      /\ \A i \in 1 .. Len(trail) :
             /\ trail'[i].cell = Slid(trail[i].cell, j) /\ trail'[i].old = trail[i].old
             /\ trail'[i].hb = Rank(trail[i].hb, j)
             /\ trail[i].cell # j /\ (trail[i].cell \in Heap => trail[i].cell <= top)
             /\ trail[i].cell \in Cells \cup {0}
  BY <1>0, <1>1, CollectedTrail
<1>4. /\ choices' \in Seq(Headers) /\ Len(choices') = Len(choices)
      /\ \A k \in 1 .. Len(choices) :
             /\ choices'[k].mark = choices[k].mark /\ choices'[k].hi = choices[k].hi
             /\ DOMAIN choices'[k].snap = {Slid(y, j) : y \in DOMAIN choices[k].snap \ {j}}
             /\ \A y \in DOMAIN choices[k].snap \ {j} :
                    /\ y \in Cells /\ (y \in Heap => y <= top)
                    /\ choices'[k].snap[Slid(y, j)] = choices[k].snap[y]
  BY <1>0, <1>1, CollectedChoices
<1>5. \A x \in due : x \in Heap /\ x <= top /\ x # j /\ x \in Cells
  BY <1>0, <1>1, CellsAre DEF TypeOK, Heap
<1>6. TypeOK'
  <2>1. due' \subseteq 1 .. top'
    <3>1. \A x \in due : Slid(x, j) \in Heap /\ Slid(x, j) <= top - 1
      BY <1>0, <1>1, <1>5, SlidIs
    <3>2. \A x \in due : Slid(x, j) \in 1 .. top - 1
      BY <1>0, <3>1 DEF Heap
    <3> QED BY <1>1, <3>2
  <2> QED BY <1>0, <1>1, <1>2, <1>3, <1>4, <2>1 DEF TypeOK
<1>7. ChoicesStand'
  <2> SUFFICES ASSUME NEW k \in 1 .. Len(choices)
               PROVE  /\ choices'[k].mark \in 1 .. Len(trail')
                      /\ IsSentinel(trail'[choices'[k].mark])
                      /\ choices'[k].hi <= depth' /\ HB(trail', choices'[k]) <= top'
                      /\ DOMAIN choices'[k].snap \subseteq
                             (-choices'[k].hi .. -1) \cup (1 .. HB(trail', choices'[k])) \cup {Box}
    BY <1>4 DEF ChoicesStand
  <2> DEFINE hb == HB(trail, choices[k])
             hb2 == HB(trail', choices'[k])
  <2>1. /\ choices[k].mark \in 1 .. Len(trail) /\ trail[choices[k].mark].cell = 0
        /\ choices[k].hi <= depth /\ hb <= top /\ hb \in Nat /\ choices[k].hi \in Nat
        /\ DOMAIN choices[k].snap \subseteq (-choices[k].hi .. -1) \cup (1 .. hb) \cup {Box}
    <3>1. choices[k].mark \in 1 .. Len(trail)
      BY <1>0 DEF ChoicesStand
    <3>2. hb \in Nat
      BY <1>0, <3>1, EntriesAre DEF HB
    <3> QED BY <1>0, <3>1, <3>2, HeadersAre DEF ChoicesStand, IsSentinel
  <2>2. hb2 = Rank(hb, j)
    BY <1>3, <1>4, <2>1 DEF HB
  <2>3. IsSentinel(trail'[choices'[k].mark])
    <3>1. 0 \in Cells \cup {0} /\ 0 \notin Heap /\ 0 # j
      BY <1>1, CellsAre
    <3>2. Slid(0, j) = 0
      BY <3>1 DEF Slid
    <3> QED BY <1>3, <1>4, <2>1, <3>2 DEF IsSentinel
  <2> HIDE DEF hb, hb2
  <2>4. hb2 <= top - 1 /\ hb2 \in Nat
    BY <1>0, <1>1, <2>1, <2>2 DEF Rank
  <2>5. ASSUME NEW y \in DOMAIN choices[k].snap \ {j}
        PROVE  Slid(y, j) \in (-choices[k].hi .. -1) \cup (1 .. hb2) \cup {Box}
    <3>1. CASE y \in 1 .. hb
      <4>1. y \in Heap /\ y \in Nat /\ y >= 1 /\ y # j
        BY <1>0, <2>1, <3>1 DEF Heap
      <4>2. CASE y < j
        <5>1. Slid(y, j) = y
          BY <1>1, <4>1, <4>2 DEF Slid
        <5>2. y <= hb2
          BY <1>1, <2>1, <2>2, <3>1, <4>2 DEF Rank
        <5> QED BY <2>4, <4>1, <5>1, <5>2
      <4>3. CASE y > j
        <5>1. Slid(y, j) = y - 1
          BY <1>1, <4>1, <4>3 DEF Slid
        <5>2. y - 1 <= hb2 /\ y - 1 >= 1
          BY <1>1, <2>1, <2>2, <3>1, <4>3 DEF Rank
        <5> QED BY <2>4, <4>1, <5>1, <5>2
      <4> QED BY <1>1, <4>1, <4>2, <4>3
    <3>2. CASE y \in -choices[k].hi .. -1
      <4>1. y \notin Heap
        BY <1>0, <2>1, <3>2 DEF Heap
      <4> QED BY <3>2, <4>1 DEF Slid
    <3>3. CASE y = Box
      BY <3>3, CellsAre DEF Slid
    <3> QED BY <2>1, <3>1, <3>2, <3>3
  <2>6. choices'[k].mark = choices[k].mark /\ choices'[k].hi = choices[k].hi
    BY <1>4
  <2>7. DOMAIN choices'[k].snap \subseteq (-choices[k].hi .. -1) \cup (1 .. hb2) \cup {Box}
    BY <1>4, <2>5
  <2> QED BY <1>1, <1>3, <2>1, <2>3, <2>4, <2>6, <2>7 DEF hb2
<1>8. ChoicesNest'
  <2> SUFFICES ASSUME NEW k \in 1 .. Len(choices), NEW l \in 1 .. Len(choices), k < l
               PROVE  /\ choices'[k].mark < choices'[l].mark /\ choices'[k].hi <= choices'[l].hi
                      /\ DOMAIN choices'[k].snap \subseteq DOMAIN choices'[l].snap
    BY <1>4 DEF ChoicesNest
  <2>1. /\ choices[k].mark < choices[l].mark /\ choices[k].hi <= choices[l].hi
        /\ DOMAIN choices[k].snap \subseteq DOMAIN choices[l].snap
    BY <1>0 DEF ChoicesNest
  <2>2. DOMAIN choices'[k].snap \subseteq DOMAIN choices'[l].snap
    BY <1>4, <2>1
  <2> QED BY <1>4, <2>1, <2>2
<1>9. \A x \in Cells \cup {0}, y \in Cells \cup {0} :
          /\ x \in Heap => x <= top
          /\ y \in Heap => y <= top
          /\ x # j /\ y # j /\ Slid(x, j) = Slid(y, j)
          => x = y
  <2> SUFFICES ASSUME NEW x \in Cells \cup {0}, NEW y \in Cells \cup {0},
                      x \in Heap => x <= top, y \in Heap => y <= top,
                      x # j, y # j, Slid(x, j) = Slid(y, j)
               PROVE  x = y
    OBVIOUS
  <2>1. Unslid(Slid(x, j), j) = x
    BY <1>0, <1>1, SlidIs
  <2>2. Unslid(Slid(y, j), j) = y
    BY <1>0, <1>1, SlidIs
  <2> QED BY <2>1, <2>2
<1>10. BoundOnce'
  <2> SUFFICES ASSUME NEW i \in 1 .. Len(trail), trail'[i].cell \in Heap
               PROVE  /\ trail'[i].cell <= top' /\ mem'[trail'[i].cell] = Bound
                      /\ \A l \in 1 .. Len(trail) : trail'[l].cell = trail'[i].cell => l = i
    BY <1>3 DEF BoundOnce
  <2> DEFINE x == trail[i].cell
  <2>1. /\ x \in Cells \cup {0} /\ x # j /\ (x \in Heap => x <= top)
        /\ trail'[i].cell = Slid(x, j)
    BY <1>3
  <2>2. (Slid(x, j) \in Heap <=> x \in Heap) /\ (x \in Heap => Slid(x, j) <= top - 1)
    <3> HIDE DEF x
    <3> QED BY <1>0, <1>1, <2>1, SlidIs
  <2>3. x \in Heap /\ x \in Cells
    BY <2>1, <2>2, CellsAre
  <2>4. mem[x] = Bound /\ \A l \in 1 .. Len(trail) : trail[l].cell = x => l = i
    BY <1>0, <2>3 DEF BoundOnce
  <2> HIDE DEF x
  <2>5. mem'[Slid(x, j)] = Bound
    BY <1>2, <2>1, <2>3, <2>4
  <2>6. ASSUME NEW l \in 1 .. Len(trail), trail'[l].cell = trail'[i].cell PROVE l = i
    <3>1. trail[l].cell = x
      BY <1>3, <1>9, <2>1, <2>6
    <3> QED BY <2>4, <3>1
  <2> QED BY <1>1, <2>1, <2>2, <2>3, <2>5, <2>6
<1>11. Restores'
  <2> SUFFICES ASSUME NEW k \in 1 .. Len(choices), NEW z \in DOMAIN choices'[k].snap \ {Box}
               PROVE  Restored(trail', mem', choices'[k].mark, z) = choices'[k].snap[z]
    BY <1>4 DEF Restores
  <2> DEFINE m == choices[k].mark
  <2>1. PICK y \in DOMAIN choices[k].snap \ {j} : z = Slid(y, j)
    BY <1>4
  <2>2. /\ y \in Cells /\ (y \in Heap => y <= top) /\ y # j
        /\ choices'[k].snap[z] = choices[k].snap[y] /\ choices'[k].mark = m
    BY <1>4, <2>1
  <2>3. y # Box
    BY <2>1, CellsAre DEF Slid
  <2>4. m \in Nat /\ Restored(trail, mem, m, y) = choices[k].snap[y]
    BY <1>0, <2>3, HeadersAre DEF Restores
  <2> HIDE DEF m
  <2>5. mem[y] = mem'[z]
    BY <1>2, <2>1, <2>2
  <2>6. SameEntries(trail, trail', m, y, z)
    <3>1. \A i \in m + 1 .. Len(trail) : i \in 1 .. Len(trail)
      BY <1>0, <2>4
    <3>2. \A i \in 1 .. Len(trail) : trail'[i].cell = z <=> trail[i].cell = y
      BY <1>3, <1>9, <2>1, <2>2
    <3>3. EntriesOf(trail, m, y) = EntriesOf(trail', m, z)
      BY <1>3, <3>1, <3>2 DEF EntriesOf
    <3>4. \A i \in EntriesOf(trail, m, y) : trail[i].old = trail'[i].old
      BY <1>3, <3>1 DEF EntriesOf
    <3> QED BY <3>3, <3>4 DEF SameEntries
  <2>7. Restored(trail, mem, m, y) = Restored(trail', mem', m, z)
    BY <1>0, <2>4, <2>5, <2>6, SameRestored
  <2> QED BY <2>2, <2>4, <2>7
<1>12. WakeupsAreFound'
  <2> SUFFICES ASSUME NEW x \in due
               PROVE  /\ wake # 0
                      /\ \E i \in wake .. Len(trail) :
                             trail'[i].cell = Slid(x, j) /\ trail'[i].old = AttVar
    BY <1>1, <1>3 DEF WakeupsAreFound
  <2>1. wake # 0
    BY <1>0 DEF WakeupsAreFound
  <2>2. PICK i \in wake .. Len(trail) : trail[i].cell = x /\ trail[i].old = AttVar
    BY <1>0 DEF WakeupsAreFound
  <2>3. i \in 1 .. Len(trail)
    BY <1>0, <2>1
  <2> QED BY <1>3, <2>1, <2>2, <2>3
<1> QED BY <1>6, <1>7, <1>8, <1>10, <1>11, <1>12 DEF TrailInv

-----------------------------------------------------------------------------
LEMMA InitInv == ASSUME Init PROVE TrailInv
<1>1. TypeOK
  <2>1. 0 \in 0 .. MaxHeap /\ 0 \in 0 .. MaxFrames
    BY CellsAre
  <2>2. <<>> \in Seq(Entries) /\ <<>> \in Seq(Headers)
    OBVIOUS
  <2> QED BY <2>1, <2>2 DEF Init, TypeOK
<1>2. Len(trail) = 0 /\ Len(choices) = 0 /\ due = {} /\ 1 .. 0 = {}
  BY DEF Init
<1> QED BY <1>1, <1>2 DEF TrailInv, ChoicesStand, ChoicesNest, BoundOnce, Restores, WakeupsAreFound

LEMMA StepInv == ASSUME TrailInv, [Next]_vars PROVE TrailInv'
<1>1. CASE UNCHANGED vars
  <2>1. /\ mem' = mem /\ top' = top /\ depth' = depth /\ choices' = choices
        /\ trail' = trail /\ wake' = wake /\ boxed' = boxed /\ due' = due
    BY <1>1 DEF vars
  <2>2. TypeOK' = TypeOK
    BY <2>1 DEF TypeOK
  <2>3. ChoicesStand' = ChoicesStand
    BY <2>1 DEF ChoicesStand
  <2>4. ChoicesNest' = ChoicesNest /\ BoundOnce' = BoundOnce
    BY <2>1 DEF ChoicesNest, BoundOnce
  <2>5. Restores' = Restores
    BY <2>1 DEF Restores
  <2>6. WakeupsAreFound' = WakeupsAreFound
    BY <2>1 DEF WakeupsAreFound
  <2> QED BY <2>2, <2>3, <2>4, <2>5, <2>6 DEF TrailInv
<1>2. CASE Next
  BY <1>2, NewVarStep, CallStep, ReturnStep, BindStep, BindAttributedStep, AwakenStep,
     OpenChoiceStep, RetryStep, RetryLastStep, CommitStep, NbSetStep, BSetStep, CollectStep
     DEF Next
<1> QED BY <1>1, <1>2

(* The invariant of the trail holds in every reachable state.              *)
THEOREM Invariance == Spec => []TrailInv
BY InitInv, StepInv, PTL DEF Spec

(* Every variable of the trail has its type: the frontier, the depth, the  *)
(* entries, the headers and the wake word.                                 *)
THEOREM TypeCorrect == Spec => []TypeOK
<1>1. TrailInv => TypeOK
  BY DEF TrailInv
<1> QED BY <1>1, Invariance, PTL

(* Failing back to any open choice brings back every variable it saved,    *)
(* whatever was bound, committed, stored or collected since: the trail     *)
(* test and the tidying walk drop no entry a backtrack needs.              *)
THEOREM VariablesAreRestored == Spec => []RestoresVariables
<1>1. ASSUME TrailInv PROVE RestoresVariables
  <2> SUFFICES ASSUME NEW k \in 1 .. Len(choices), NEW x \in DOMAIN choices[k].snap \ {Box}
               PROVE  Unwound(choices[k].mark)[x] = choices[k].snap[x]
    BY DEF RestoresVariables
  <2>1. x \in Cells
    BY <1>1, HeadersAre DEF TrailInv
  <2>2. Unwound(choices[k].mark)[x] = Restored(trail, mem, choices[k].mark, x)
    BY <2>1 DEF Unwound, Restored
  <2> QED BY <1>1, <2>2 DEF TrailInv, Restores
<1>2. TrailInv => RestoresVariables
  BY <1>1
<1> QED BY <1>2, Invariance, PTL

(* Every open choice has a sentinel of its own under its mark, and its HB  *)
(* reaches every heap variable the choice has to bring back.               *)
THEOREM SentinelsStand == Spec => []MarksAreSentinels
<1>1. ASSUME TrailInv PROVE MarksAreSentinels
  <2>1. ASSUME NEW k \in 1 .. Len(choices), NEW x \in DOMAIN choices[k].snap \cap Heap
        PROVE  x <= HB(trail, choices[k])
    <3>1. x \in (-choices[k].hi .. -1) \cup (1 .. HB(trail, choices[k])) \cup {Box}
      BY <1>1, <2>1 DEF TrailInv, ChoicesStand
    <3>2. choices[k].hi \in Nat /\ x # Box /\ x >= 1 /\ HB(trail, choices[k]) \in Nat
      <4>1. choices[k].mark \in 1 .. Len(trail)
        BY <1>1 DEF TrailInv, ChoicesStand
      <4>2. HB(trail, choices[k]) \in Nat
        BY <1>1, <4>1, EntriesAre DEF TrailInv, HB
      <4> QED BY <1>1, <4>2, HeadersAre, CellsAre DEF TrailInv, Heap
    <3> QED BY <3>1, <3>2
  <2>2. \A k \in 1 .. Len(choices) : IsSentinel(trail[choices[k].mark])
    BY <1>1 DEF TrailInv, ChoicesStand
  <2>3. \A k, l \in 1 .. Len(choices) : k < l => choices[k].mark < choices[l].mark
    BY <1>1 DEF TrailInv, ChoicesNest
  <2> QED BY <2>1, <2>2, <2>3 DEF MarksAreSentinels
<1>2. TrailInv => MarksAreSentinels
  BY <1>1
<1> QED BY <1>2, Invariance, PTL

(* The next $wakeup finds every attributed binding that was not undone:    *)
(* no commit, failure, choice or collection moves one below the wake word. *)
THEOREM WakeupsAreNotLost == Spec => []WakeupsAreFound
<1>1. TrailInv => WakeupsAreFound
  BY DEF TrailInv
<1> QED BY <1>1, Invariance, PTL
-----------------------------------------------------------------------------
(* The unwind loops. *)

PopStep(f, i) ==
    IF i = Len(trail) THEN mem
    ELSE IF IsSentinel(trail[i + 1]) THEN f[i + 1]
    ELSE [f[i + 1] EXCEPT ![trail[i + 1].cell] = trail[i + 1].old]

(* Unwinding to just below an entry takes the entry off last. *)
LEMMA UnwoundOneMore ==
    ASSUME TypeOK, NEW i \in 0 .. Len(trail) - 1
    PROVE  Unwound(i) = IF IsSentinel(trail[i + 1]) THEN Unwound(i + 1)
                        ELSE [Unwound(i + 1) EXCEPT ![trail[i + 1].cell] = trail[i + 1].old]
<1> DEFINE e == trail[i + 1]
           W == IF IsSentinel(e) THEN Unwound(i + 1)
                ELSE [Unwound(i + 1) EXCEPT ![e.cell] = e.old]
<1>1. /\ trail \in Seq(Entries) /\ i \in Nat /\ i + 1 \in Nat /\ Len(trail) \in Nat
      /\ e \in Entries /\ i + 1 \in 1 .. Len(trail)
  BY DEF TypeOK
<1>2. 0 \notin Cells /\ (e.cell = 0 \/ e.cell \in Cells)
  BY <1>1, Bounds DEF Entries, Cells, Heap, Frame, Box, Stamp
<1>3. i + 1 .. Len(trail) = {i + 1} \cup (i + 2 .. Len(trail))
  BY <1>1
<1>4. \A x \in Cells : EntriesOf(trail, i, x) =
                          (IF e.cell = x THEN {i + 1} ELSE {}) \cup EntriesOf(trail, i + 1, x)
  BY <1>1, <1>3 DEF EntriesOf
<1>5. ASSUME NEW x \in Cells PROVE Restored(trail, mem, i, x) = W[x]
  <2>1. W[x] = IF e.cell = x THEN e.old ELSE Restored(trail, mem, i + 1, x)
    BY <1>2 DEF Unwound, Restored, IsSentinel
  <2>2. CASE e.cell = x
    <3>1. i + 1 \in EntriesOf(trail, i, x)
      BY <1>4, <2>2
    <3>2. \A j \in EntriesOf(trail, i, x) : i + 1 <= j
      BY <1>1 DEF EntriesOf
    <3>3. Restored(trail, mem, i, x) = trail[i + 1].old
      BY <1>1, <3>1, <3>2, RestoredFromOldest
    <3> QED BY <2>1, <2>2, <3>3
  <2>3. CASE e.cell # x
    <3>1. EntriesOf(trail, i, x) = EntriesOf(trail, i + 1, x)
      BY <1>4, <2>3
    <3>2. Restored(trail, mem, i, x) = Restored(trail, mem, i + 1, x)
      BY <3>1 DEF Restored
    <3> QED BY <2>1, <2>3, <3>2
  <2> QED BY <2>2, <2>3
<1>6. W = [x \in Cells |-> W[x]]
  BY DEF Unwound
<1> HIDE DEF W
<1>7. Unwound(i) = [x \in Cells |-> W[x]]
  BY <1>5 DEF Unwound, Restored
<1> QED BY <1>6, <1>7 DEF W

LEMMA UnwoundNothing ==
    ASSUME TypeOK
    PROVE  Unwound(Len(trail)) = mem
<1>1. \A x \in Cells : EntriesOf(trail, Len(trail), x) = {}
  BY DEF EntriesOf, TypeOK
<1> QED BY <1>1 DEF Unwound, TypeOK

(* Taking the entries off one by one, youngest first, leaves in every cell *)
(* what its oldest entry saved.                                            *)
LEMMA LoopUnwinds ==
    ASSUME TypeOK, NEW m \in 0 .. Len(trail)
    PROVE  Popped(m) = Unwound(m)
<1> DEFINE l == Len(trail)
           IsLoop(f) == f = [i \in m .. l |-> PopStep(f, i)]
           w == CHOOSE f : IsLoop(f)
           u == [i \in m .. l |-> Unwound(i)]
<1>1. l \in Nat /\ m \in Nat /\ m <= l
  BY DEF TypeOK
<1>2. \A i \in m .. l : Unwound(i) = PopStep(u, i)
  <2> SUFFICES ASSUME NEW i \in m .. l PROVE Unwound(i) = PopStep(u, i)
    OBVIOUS
  <2>1. CASE i = l
    BY <2>1, UnwoundNothing DEF PopStep
  <2>2. CASE i # l
    <3>1. i \in 0 .. l - 1 /\ i + 1 \in m .. l
      BY <1>1, <2>2
    <3>2. u[i + 1] = Unwound(i + 1)
      BY <3>1
    <3> HIDE DEF u
    <3> QED BY <2>2, <3>1, <3>2, UnwoundOneMore DEF PopStep
  <2> QED BY <2>1, <2>2
<1>3. IsLoop(u)
  BY <1>2
<1>4. Popped(m) = w[m]
  BY DEF Popped, PopStep
<1>5. IsLoop(w)
  <2> HIDE DEF u, IsLoop
  <2> QED BY <1>3
<1> HIDE DEF w, u
<1> DEFINE T == {n \in Nat : n <= l - m => w[l - n] = Unwound(l - n)}
<1>6. 0 \in T
  <2>1. w[l] = mem
    BY <1>1, <1>5 DEF PopStep
  <2> QED BY <1>1, <2>1, UnwoundNothing
<1>7. ASSUME NEW n \in Nat, n \in T PROVE n + 1 \in T
  <2> SUFFICES ASSUME n + 1 <= l - m
               PROVE  w[l - (n + 1)] = Unwound(l - (n + 1))
    OBVIOUS
  <2> DEFINE i == l - (n + 1)
  <2>1. i \in m .. l /\ i # l /\ i + 1 = l - n /\ i \in 0 .. l - 1
    BY <1>1
  <2>2. w[i + 1] = Unwound(i + 1)
    <3>1. w[l - n] = Unwound(l - n)
      BY <1>1, <1>7
    <3> HIDE DEF i
    <3> QED BY <2>1, <3>1
  <2>3. w[i] = PopStep(w, i)
    BY <1>5, <2>1
  <2> HIDE DEF i, l
  <2>4. w[i] = Unwound(i)
    BY <2>1, <2>2, <2>3, UnwoundOneMore DEF PopStep, l
  <2> QED BY <2>4 DEF i
<1>8. Nat \subseteq T
  <2> HIDE DEF T
  <2> QED BY <1>6, <1>7, SetInduction
<1>9. l - m \in Nat /\ l - (l - m) = m
  BY <1>1
<1>10. w[l - (l - m)] = Unwound(l - (l - m))
  BY <1>8, <1>9
<1> QED BY <1>4, <1>9, <1>10

(* The unwind loops, which pop one entry after the other, leave what the   *)
(* invariants of the trail read off the oldest entries.                    *)
THEOREM LoopsUnwind == Spec => []UnwoundIsTheLoop
<1>1. ASSUME TrailInv PROVE UnwoundIsTheLoop
  <2> SUFFICES ASSUME NEW k \in 1 .. Len(choices)
               PROVE  Popped(choices[k].mark) = Unwound(choices[k].mark)
    BY DEF UnwoundIsTheLoop
  <2>1. choices[k].mark \in 0 .. Len(trail)
    BY <1>1 DEF TrailInv, ChoicesStand, TypeOK
  <2> QED BY <1>1, <2>1, LoopUnwinds DEF TrailInv
<1>2. TrailInv => UnwoundIsTheLoop
  BY <1>1
<1> QED BY <1>2, Invariance, PTL
=============================================================================
