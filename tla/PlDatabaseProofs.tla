-------------------------- MODULE PlDatabaseProofs --------------------------
(***************************************************************************)
(* Reclaiming the code of erased clauses takes none a goal will come to,   *)
(* and forgets none; the slots implement LogicalView; and a call finds all *)
(* clauses: for any number of clauses, goals and transactions.             *)
(*                                                                         *)
(* A goal sees the clauses of the generation it began in. The clause it is *)
(* at is one of them, and was asserted before the goal began; so a clause  *)
(* erased no later than that was asserted is not one the goal will come    *)
(* to. A transaction may bring back what it erased: its log pins the code. *)
(*                                                                         *)
(* For the refinement, what a packet lists is what lies ahead of its head  *)
(* (TraceOf), and a goal, whichever way it walks, goes to the next of the  *)
(* slots it sees (First): what is left to it is what lies ahead of the     *)
(* slot it is at. A step then shows as what it does to marks and links.    *)
(***************************************************************************)
EXTENDS PlDatabase, InductionLemmas, FiniteSetTheorems, SequenceTheorems

-----------------------------------------------------------------------------
(* The invariant. *)

Codes == {"none", "live", "late", "gone"}
SlotRecs == [key : Keys \cup {Var}, ref : Nat, erased : Nat, next : Nat, code : Codes]
Indexes == {NoIx} \cup [cap : Nat, of : [Keys -> Seq(Nat)]]
Stores == [slots : Seq(SlotRecs), cap : Nat, head : Nat, tail : Nat, nextRef : Nat,
           ix : Indexes, ixOff : BOOLEAN, mode : {"fresh", "data", "code"},
           way : {"none", "data", "code", "absent"}, entry : Nat,
           since : Nat, lo : Nat, pins : Nat]

(* The slots are chained without a cycle. *)
Ranks(d, rank) ==
    /\ rank \in [0..Len(d.slots) -> 0..Len(d.slots)]
    /\ \A i \in Slots(d) : /\ d.slots[i].next \in 0..Len(d.slots)
                           /\ rank[d.slots[i].next] < rank[i]
Chained(d) ==
    /\ d.head \in 0..Len(d.slots) /\ d.tail \in 0..Len(d.slots)
    /\ d.head = None <=> d.tail = None
    /\ \E rank : Ranks(d, rank)

(* What happened lies behind, and only what is erased is reclaimed. *)
Dated(d) ==
    \A i \in Slots(d) : /\ d.slots[i].ref < d.nextRef /\ d.slots[i].erased < d.nextRef
                        /\ d.slots[i].code = "gone" => Erased(d, i)

(* Compiled code is entered at the head of the chain, which has code. *)
EntersAtHead(d) ==
    IF d.mode = "code" THEN d.entry = d.head /\ d.head # None /\ HasCode(d, d.head)
    ELSE /\ d.way # "code" /\ d.entry = None
         /\ \A i \in Slots(d) : d.slots[i].code = "none"

ScanSees(d) == \A i \in Slots(d) : Candidate(d, i) /\ d.slots[i].code = "live" => i >= d.lo

StoreInv(d) == d \in Stores /\ Chained(d) /\ Dated(d) /\ EntersAtHead(d) /\ ScanSees(d)

(* Every goal that runs code began no later than m, is at a clause it      *)
(* sees, and sees none whose code is gone.                                 *)
Spares(d, gen) == \A i \in Slots(d) : Visible(d.slots[i], gen) => d.slots[i].code # "gone"
GoalIsServed(d, g, m) ==
    g.code => /\ d.mode = "code" /\ g.gen \in Nat /\ g.gen <= m
              /\ g.at \in Slots(d) /\ Visible(d.slots[g.at], g.gen) /\ Spares(d, g.gen)
GoalsServed(d, gs, m) == \A n \in 1..Len(gs) : GoalIsServed(d, gs[n], m)

(* What a transaction may bring back still has its code, and is pinned. *)
Recs == [kind : {"erase", "asserta", "assertz"}, slot : Nat]
Txs == [log : Seq(Recs), goals : Nat]
LogSpares(d, log) ==
    \A m \in 1..Len(log) : /\ log[m].slot \in Slots(d)
                           /\ log[m].kind = "erase" => d.slots[log[m].slot].code # "gone"
LogsSpare(d, ts) == \A n \in 1..Len(ts) : LogSpares(d, ts[n].log)
ErasesIn(log) == {m \in 1..Len(log) : log[m].kind = "erase"}
Sums(ts, sum) ==
    /\ sum \in [0..Len(ts) -> Nat] /\ sum[0] = 0
    /\ \A n \in 1..Len(ts) : sum[n] = sum[n - 1] + Cardinality(ErasesIn(ts[n].log))
Pinned(d, ts) == \E sum : Sums(ts, sum) /\ d.pins >= sum[Len(ts)]

GoalRecs(S) == [key : Keys \cup {AnyKey}, gen : Nat, code : BOOLEAN, at : S]
GoalStack(gs) == \E S : gs \in Seq(GoalRecs(S))
Nested(ts, gs) ==
    /\ \A n \in 1..Len(ts) : ts[n].goals <= Len(gs)
    /\ \A n, m \in 1..Len(ts) : n <= m => ts[n].goals <= ts[m].goals

DbInv ==
    /\ StoreInv(db)
    /\ GoalStack(goals) /\ GoalsServed(db, goals, db.nextRef)
    /\ txs \in Seq(Txs) /\ Nested(txs, goals)
    /\ LogsSpare(db, txs) /\ Pinned(db, txs)

-----------------------------------------------------------------------------
(* Following a chain. *)

(* A step along nx: to the first member of Z, or listing the members of Z. *)
Follow(f, j, nx, Z, listing) ==
    IF listing THEN IF j = None THEN <<>>
                    ELSE (IF j \in Z THEN <<j>> ELSE <<>>) \o f[nx[j]]
    ELSE IF j = None \/ j \in Z THEN j ELSE f[nx[j]]
Follows(f, n, nx, Z, listing) == f = [j \in 0..n |-> Follow(f, j, nx, Z, listing)]
Falls(nx, rank, n) ==
    /\ nx \in [1..n -> 0..n] /\ rank \in [0..n -> 0..n]
    /\ \A j \in 1..n : rank[nx[j]] < rank[j]

(* A function that follows falling links to the end exists.                *)
LEMMA FollowExists ==
    ASSUME NEW n \in Nat, NEW nx, NEW rank, Falls(nx, rank, n), NEW Z, NEW listing
    PROVE  \E f : Follows(f, n, nx, Z, listing)
<1> DEFINE Low(k) == {j \in 0..n : rank[j] < k}
           Good(f, k) == f = [j \in Low(k) |-> Follow(f, j, nx, Z, listing)]
           T == {k \in Nat : \E f : Good(f, k)}
<1>1. 0 \in T
  <2>1. Low(0) = {}
    BY DEF Falls
  <2> DEFINE f == [j \in {} |-> 0]
  <2>2. Good(f, 0)
    BY <2>1
  <2> QED BY <2>2
<1>2. ASSUME NEW k \in Nat, k \in T PROVE k + 1 \in T
  <2>1. PICK f : Good(f, k)
    BY <1>2
  <2> DEFINE g == [j \in Low(k + 1) |-> IF rank[j] < k THEN f[j]
                                        ELSE Follow(f, j, nx, Z, listing)]
  <2>2. \A j \in Low(k + 1) : g[j] = Follow(g, j, nx, Z, listing)
    <3> SUFFICES ASSUME NEW j \in Low(k + 1)
                 PROVE  g[j] = Follow(g, j, nx, Z, listing)
      OBVIOUS
    <3>1. g[j] = Follow(f, j, nx, Z, listing)
      BY <2>1
    <3>2. j # None => g[nx[j]] = f[nx[j]]
      <4> SUFFICES ASSUME j # None PROVE g[nx[j]] = f[nx[j]]
        OBVIOUS
      <4>1. j \in 1..n /\ nx[j] \in 0..n /\ rank[nx[j]] < rank[j] /\ rank[j] < k + 1
            /\ rank[j] \in Nat /\ rank[nx[j]] \in Nat
        BY DEF Falls, None
      <4>2. nx[j] \in Low(k + 1) /\ rank[nx[j]] < k
        BY <4>1
      <4> QED BY <4>2
    <3> HIDE DEF g
    <3> QED BY <3>1, <3>2 DEF Follow
  <2>3. Good(g, k + 1)
    BY <2>2
  <2> HIDE DEF g, Good
  <2> QED BY <2>3
<1>3. Nat \subseteq T
  <2> HIDE DEF T
  <2> QED BY <1>1, <1>2, SetInduction
<1>4. PICK f : Good(f, n + 1)
  <2> HIDE DEF T, Good
  <2>1. n + 1 \in T
    BY <1>3
  <2> QED BY <2>1 DEF T
<1>5. Low(n + 1) = 0..n
  BY DEF Falls
<1> QED BY <1>4, <1>5 DEF Follows

(* What holds at the end, and one link earlier wherever it holds, holds of *)
(* the whole chain.                                                        *)
LEMMA AlongTheChain ==
    ASSUME NEW n \in Nat, NEW nx, NEW rank, Falls(nx, rank, n), NEW P,
           None \in P, \A j \in 1..n : nx[j] \in P => j \in P
    PROVE  0..n \subseteq P
<1> DEFINE T == {k \in Nat : \A j \in 0..n : rank[j] < k => j \in P}
<1>1. 0 \in T
  BY DEF Falls
<1>2. ASSUME NEW k \in Nat, k \in T PROVE k + 1 \in T
  <2> SUFFICES ASSUME NEW j \in 0..n, rank[j] < k + 1, j # None PROVE j \in P
    OBVIOUS
  <2>1. j \in 1..n /\ nx[j] \in 0..n /\ rank[nx[j]] < rank[j]
        /\ rank[j] \in Nat /\ rank[nx[j]] \in Nat
    BY DEF Falls, None
  <2> QED BY <1>2, <2>1
<1>3. Nat \subseteq T
  <2> HIDE DEF T
  <2> QED BY <1>1, <1>2, SetInduction
<1>4. \A j \in 0..n : rank[j] \in Nat /\ rank[j] + 1 \in T
  <2>1. \A j \in 0..n : rank[j] \in Nat
    BY DEF Falls
  <2> HIDE DEF T
  <2> QED BY ONLY <1>3, <2>1
<1> QED BY <1>4

-----------------------------------------------------------------------------
(* Walks over the slots of a store. *)

NextOf(d) == [i \in Slots(d) |-> d.slots[i].next]

(* The links of a chained store fall by the rank.                          *)
LEMMA NextFalls ==
    ASSUME NEW d \in Stores, NEW rank, Ranks(d, rank)
    PROVE  Len(d.slots) \in Nat /\ Falls(NextOf(d), rank, Len(d.slots))
BY DEF Stores, Ranks, Falls, NextOf, Slots

(* A goal that runs code stops only at a clause it sees, and not before    *)
(* the one it was at.                                                      *)
LEMMA StopIs ==
    ASSUME NEW d \in Stores, NEW rank, Ranks(d, rank), NEW g, g.code = TRUE,
           NEW i \in 0..Len(d.slots)
    PROVE  /\ Stop(d, g, i) \in 0..Len(d.slots)
           /\ Stop(d, g, i) # None => Visible(d.slots[Stop(d, g, i)], g.gen)
           /\ rank[Stop(d, g, i)] <= rank[i]
<1> DEFINE n == Len(d.slots)
           nx == NextOf(d)
           Z == {j \in Slots(d) : Visible(d.slots[j], g.gen)}
           IsWalk(f) == f = [j \in 0..n |-> IF j = None \/ Visible(d.slots[j], g.gen) THEN j
                                            ELSE f[StepOf(d, g, j)]]
           w == CHOOSE f : IsWalk(f)
<1>1. n \in Nat /\ Falls(nx, rank, n)
  BY NextFalls
<1>2. Stop(d, g, i) = w[i]
  BY DEF Stop
<1>3. Follows(w, n, nx, Z, FALSE)
  <2>1. ASSUME NEW f, NEW j \in 0..n
        PROVE  Follow(f, j, nx, Z, FALSE) =
                   IF j = None \/ Visible(d.slots[j], g.gen) THEN j ELSE f[StepOf(d, g, j)]
    <3>1. j # None => j \in Slots(d)
      BY <1>1 DEF Slots, None
    <3>2. j # None => nx[j] = StepOf(d, g, j)
      BY <3>1 DEF NextOf, StepOf
    <3> HIDE DEF n, nx
    <3> QED BY <3>1, <3>2 DEF Follow
  <2>2. ASSUME NEW f PROVE Follows(f, n, nx, Z, FALSE) <=> IsWalk(f)
    <3> HIDE DEF nx, Z, n
    <3>1. [j \in 0..n |-> Follow(f, j, nx, Z, FALSE)] =
          [j \in 0..n |-> IF j = None \/ Visible(d.slots[j], g.gen) THEN j ELSE f[StepOf(d, g, j)]]
      BY <2>1
    <3> QED BY <3>1 DEF Follows
  <2> HIDE DEF n, nx, Z, IsWalk
  <2>3. \E f : Follows(f, n, nx, Z, FALSE)
    BY <1>1, FollowExists
  <2>4. IsWalk(w)
    BY <2>2, <2>3
  <2> QED BY <2>2, <2>4
<1> HIDE DEF w
<1> DEFINE P == {j \in 0..n : /\ w[j] \in 0..n /\ (w[j] # None => w[j] \in Z)
                              /\ rank[w[j]] <= rank[j]}
<1>4. \A j \in 0..n : w[j] = IF j = None \/ j \in Z THEN j ELSE w[nx[j]]
  BY <1>3 DEF Follow, Follows
<1> HIDE DEF nx, n, Z
<1>5. \A j \in 0..n : rank[j] \in Nat
  BY <1>1 DEF Falls
<1>6. None \in P
  BY <1>1, <1>4, <1>5 DEF None
<1>7. ASSUME NEW j \in 1..n, nx[j] \in P PROVE j \in P
  <2>1. CASE j \in Z
    BY <1>1, <1>4, <1>5, <2>1
  <2>2. CASE j \notin Z
    <3>1. w[j] = w[nx[j]] /\ j \in 0..n
      BY <1>1, <1>4, <2>2 DEF None
    <3>2. rank[nx[j]] < rank[j] /\ nx[j] \in 0..n
      BY <1>1 DEF Falls
    <3>3. rank[w[j]] <= rank[nx[j]]
      BY <1>7, <3>1
    <3>4. w[j] \in 0..n /\ (w[j] # None => w[j] \in Z)
      BY <1>7, <3>1
    <3>5. rank[w[j]] \in Nat /\ rank[nx[j]] \in Nat /\ rank[j] \in Nat
      BY <1>5, <3>1, <3>2, <3>4
    <3> QED BY <3>1, <3>2, <3>3, <3>4, <3>5
  <2> QED BY <2>1, <2>2
<1>8. 0..n \subseteq P
  <2> HIDE DEF P
  <2> QED BY <1>1, <1>6, <1>7, AlongTheChain
<1>9. i \in P
  BY <1>8 DEF n
<1> QED BY <1>2, <1>9 DEF n, Z

(* The slots of the packet that lie in S; the head comes first.            *)
LEMMA PacketIs ==
    ASSUME NEW d \in Stores, NEW rank, Ranks(d, rank), d.head \in 0..Len(d.slots), NEW S
    PROVE  /\ Packet(d, S) \in Seq(S \cap Slots(d))
           /\ d.head # None /\ d.head \in S => Packet(d, S) # <<>> /\ Packet(d, S)[1] = d.head
<1> DEFINE n == Len(d.slots)
           nx == NextOf(d)
           IsTrace(f) == f = [i \in 0..n |->
                                  IF i = None THEN <<>>
                                  ELSE (IF i \in S THEN <<i>> ELSE <<>>) \o f[d.slots[i].next]]
           w == CHOOSE f : IsTrace(f)
<1>1. n \in Nat /\ Falls(nx, rank, n)
  BY NextFalls
<1>2. Packet(d, S) = w[d.head]
  BY DEF Packet
<1>3. Follows(w, n, nx, S, TRUE)
  <2>1. ASSUME NEW f, NEW j \in 0..n
        PROVE  Follow(f, j, nx, S, TRUE) =
                   IF j = None THEN <<>>
                   ELSE (IF j \in S THEN <<j>> ELSE <<>>) \o f[d.slots[j].next]
    <3>1. j # None => nx[j] = d.slots[j].next
      BY <1>1 DEF NextOf, Slots, None
    <3> HIDE DEF n, nx
    <3> QED BY <3>1 DEF Follow
  <2>2. ASSUME NEW f PROVE Follows(f, n, nx, S, TRUE) <=> IsTrace(f)
    <3> HIDE DEF nx, n
    <3>1. [j \in 0..n |-> Follow(f, j, nx, S, TRUE)] =
          [i \in 0..n |-> IF i = None THEN <<>>
                          ELSE (IF i \in S THEN <<i>> ELSE <<>>) \o f[d.slots[i].next]]
      BY <2>1
    <3> QED BY <3>1 DEF Follows
  <2> HIDE DEF n, nx, IsTrace
  <2>3. \E f : Follows(f, n, nx, S, TRUE)
    BY <1>1, FollowExists
  <2>4. IsTrace(w)
    BY <2>2, <2>3
  <2> QED BY <2>2, <2>4
<1> HIDE DEF w
<1>4. \A j \in 0..n : w[j] = IF j = None THEN <<>>
                             ELSE (IF j \in S THEN <<j>> ELSE <<>>) \o w[nx[j]]
  BY <1>3 DEF Follow, Follows
<1> DEFINE V == S \cap Slots(d)
           P == {j \in 0..n : w[j] \in Seq(V)}
<1> HIDE DEF nx
<1>5. \A j \in 1..n : nx[j] \in 0..n
  BY <1>1 DEF Falls
<1>6. \A j \in 0..n : j # None => j \in 1..n
  BY <1>1 DEF None
<1>7. 0..n \subseteq P
  <2>0. None \in 0..n /\ \A j \in 1..n : j \in 0..n /\ j # None /\ j \in Slots(d)
    BY <1>1 DEF None, Slots
  <2>1. None \in P
    <3> HIDE DEF n, V
    <3>1. w[None] = <<>>
      BY <1>4, <2>0
    <3>2. <<>> \in Seq(V)
      OBVIOUS
    <3> QED BY <2>0, <3>1, <3>2
  <2>2. ASSUME NEW j \in 1..n, nx[j] \in P PROVE j \in P
    <3> HIDE DEF n
    <3>1. w[j] = (IF j \in S THEN <<j>> ELSE <<>>) \o w[nx[j]]
      BY <1>4, <2>0
    <3>2. (IF j \in S THEN <<j>> ELSE <<>>) \in Seq(V) /\ j \in 0..n
      <4>1. j \in S => j \in V
        BY <2>0
      <4> HIDE DEF V
      <4> QED BY <2>0, <4>1
    <3> HIDE DEF V
    <3>3. w[j] \in Seq(V)
      BY <2>2, <3>1, <3>2, ConcatProperties
    <3> QED BY <3>2, <3>3
  <2> HIDE DEF P, n
  <2> QED BY <1>1, <2>1, <2>2, AlongTheChain
<1>8. d.head # None /\ d.head \in S => w[d.head] # <<>> /\ w[d.head][1] = d.head
  <2> SUFFICES ASSUME d.head # None, d.head \in S
               PROVE  w[d.head] # <<>> /\ w[d.head][1] = d.head
    OBVIOUS
  <2>1. w[d.head] = <<d.head>> \o w[nx[d.head]]
    BY <1>4
  <2>2. w[nx[d.head]] \in Seq(V) /\ <<d.head>> \in Seq(V)
    BY <1>5, <1>6, <1>7 DEF Slots
  <2> HIDE DEF V
  <2> QED BY <2>1, <2>2, ConcatProperties
<1> QED BY <1>2, <1>7, <1>8

(* What a goal that runs code has yet to come to: clauses it sees.         *)
LEMMA RemainingIs ==
    ASSUME NEW d \in Stores, NEW rank, Ranks(d, rank), NEW g, g.code = TRUE,
           g.at \in Slots(d)
    PROVE  \A i \in ToSet(Remaining(d, g)) :
               i \in Slots(d) /\ (i = g.at \/ Visible(d.slots[i], g.gen))
<1> DEFINE n == Len(d.slots)
           nx == [i \in Slots(d) |-> Stop(d, g, d.slots[i].next)]
           IsTrace(f) == f = [i \in 0..n |->
                                  IF i = None THEN <<>>
                                  ELSE <<i>> \o f[Stop(d, g, StepOf(d, g, i))]]
           w == CHOOSE f : IsTrace(f)
           Z == {i \in Slots(d) : Visible(d.slots[i], g.gen)}
<1>1. n \in Nat /\ Slots(d) = 1..n /\ rank \in [0..n -> 0..n]
      /\ \A i \in 1..n : d.slots[i].next \in 0..n /\ rank[d.slots[i].next] < rank[i]
  BY DEF Stores, Slots, Ranks
<1>2. ASSUME NEW i \in 1..n
      PROVE  /\ nx[i] \in 0..n /\ rank[nx[i]] < rank[i]
             /\ nx[i] # None => nx[i] \in Z
  <2>1. d.slots[i].next \in 0..n /\ rank[d.slots[i].next] < rank[i]
    BY <1>1
  <2>2. /\ nx[i] \in 0..n /\ rank[nx[i]] <= rank[d.slots[i].next]
        /\ nx[i] # None => Visible(d.slots[nx[i]], g.gen)
    BY <1>1, <2>1, StopIs
  <2> HIDE DEF nx, n
  <2>3. rank[nx[i]] \in Nat /\ rank[d.slots[i].next] \in Nat /\ rank[i] \in Nat
    <3>1. \A j \in 0..n : rank[j] \in Nat
      BY <1>1
    <3>2. i \in 0..n
      BY <1>1
    <3> QED BY <2>1, <2>2, <3>1, <3>2
  <2>4. nx[i] # None => nx[i] \in Slots(d)
    BY <1>1, <2>2 DEF None, n
  <2> QED BY <2>1, <2>2, <2>3, <2>4
<1>3. Falls(nx, rank, n)
  <2>1. nx \in [1..n -> 0..n]
    <3>1. \A i \in 1..n : Stop(d, g, d.slots[i].next) \in 0..n
      BY <1>1, <1>2
    <3> QED BY <1>1, <3>1
  <2> HIDE DEF nx, Z
  <2> QED BY <1>1, <1>2, <2>1 DEF Falls
<1>4. Remaining(d, g) = w[g.at]
  BY DEF Remaining
<1>5. Follows(w, n, nx, 0..n, TRUE)
  <2>1. ASSUME NEW f, NEW j \in 0..n
        PROVE  Follow(f, j, nx, 0..n, TRUE) =
                   IF j = None THEN <<>> ELSE <<j>> \o f[Stop(d, g, StepOf(d, g, j))]
    <3>1. j # None => j \in Slots(d)
      BY <1>1 DEF None
    <3>2. j # None => nx[j] = Stop(d, g, StepOf(d, g, j))
      BY <3>1 DEF StepOf
    <3> HIDE DEF n, nx
    <3> QED BY <3>2 DEF Follow
  <2>2. ASSUME NEW f PROVE Follows(f, n, nx, 0..n, TRUE) <=> IsTrace(f)
    <3> HIDE DEF nx, n
    <3>1. [j \in 0..n |-> Follow(f, j, nx, 0..n, TRUE)] =
          [i \in 0..n |-> IF i = None THEN <<>> ELSE <<i>> \o f[Stop(d, g, StepOf(d, g, i))]]
      BY <2>1
    <3> QED BY <3>1 DEF Follows
  <2> HIDE DEF n, nx, IsTrace
  <2>3. \E f : Follows(f, n, nx, 0..n, TRUE)
    BY <1>1, <1>3, FollowExists
  <2>4. IsTrace(w)
    BY <2>2, <2>3
  <2> QED BY <2>2, <2>4
<1> HIDE DEF w, nx
<1>6. \A j \in 0..n : w[j] = IF j = None THEN <<>> ELSE <<j>> \o w[nx[j]]
  BY <1>5 DEF Follow, Follows
<1> DEFINE P == {j \in 0..n : w[j] \in Seq({j} \cup Z) /\ (j = None => w[j] = <<>>)}
<1>7. 0..n \subseteq P
  <2>0. None \in 0..n /\ \A j \in 1..n : j \in 0..n /\ j # None
    BY <1>1 DEF None
  <2>1. None \in P
    <3> HIDE DEF n, Z
    <3>1. w[None] = <<>>
      BY <1>6, <2>0
    <3>2. <<>> \in Seq({None} \cup Z)
      OBVIOUS
    <3> QED BY <2>0, <3>1, <3>2
  <2>2. ASSUME NEW j \in 1..n, nx[j] \in P PROVE j \in P
    <3> HIDE DEF Z, n
    <3>1. w[j] = <<j>> \o w[nx[j]] /\ j \in 0..n /\ j # None
      BY <1>6, <2>0
    <3>2. w[nx[j]] \in Seq({j} \cup Z)
      <4>1. CASE nx[j] = None
        BY <2>2, <4>1
      <4>2. CASE nx[j] # None
        <5>1. {nx[j]} \cup Z \subseteq {j} \cup Z
          BY <1>2, <4>2
        <5> QED BY <2>2, <5>1
      <4> QED BY <4>1, <4>2
    <3>3. <<j>> \in Seq({j} \cup Z)
      OBVIOUS
    <3>4. w[j] \in Seq({j} \cup Z)
      BY <3>1, <3>2, <3>3, ConcatProperties
    <3> QED BY <3>1, <3>4
  <2> HIDE DEF P, n
  <2> QED BY <1>1, <1>3, <2>1, <2>2, AlongTheChain
<1>8. w[g.at] \in Seq({g.at} \cup Z)
  <2>1. g.at \in 0..n
    BY <1>1
  <2> HIDE DEF Z, n
  <2> QED BY <1>7, <2>1
<1>9. \A i \in ToSet(w[g.at]) : i \in {g.at} \cup Z
  <2> HIDE DEF Z
  <2> QED BY <1>8 DEF ToSet
<1> QED BY <1>4, <1>9

-----------------------------------------------------------------------------
(* Steps that leave the clauses and their times as they are. *)

(* Only codes and the way in differ. *)
Recoded(d, e) ==
    /\ e \in Stores /\ Len(e.slots) = Len(d.slots)
    /\ \A j \in Slots(d) : /\ e.slots[j].ref = d.slots[j].ref /\ e.slots[j].next = d.slots[j].next
                           /\ e.slots[j].erased = d.slots[j].erased /\ e.slots[j].key = d.slots[j].key
    /\ e.head = d.head /\ e.tail = d.tail /\ e.nextRef = d.nextRef
    /\ e.pins = d.pins /\ e.ix = d.ix /\ e.ixOff = d.ixOff

(* Nothing a goal sees or a log names is lost. *)
Grows(d, e) ==
    /\ d.mode = "code" => e.mode = "code"
    /\ Slots(d) \subseteq Slots(e)
    /\ \A i \in Slots(d) : /\ e.slots[i].ref = d.slots[i].ref
                           /\ e.slots[i].erased = d.slots[i].erased
                           /\ e.slots[i].code = "gone" => d.slots[i].code = "gone"
    /\ \A i \in Slots(e) \ Slots(d) : e.slots[i].code # "gone"

(* The types of what a slot holds.                                         *)
LEMMA SlotIs ==
    ASSUME NEW d \in Stores, NEW i \in Slots(d)
    PROVE  /\ d.slots[i] \in SlotRecs
           /\ d.slots[i].ref \in Nat /\ d.slots[i].erased \in Nat /\ d.slots[i].next \in Nat
           /\ d.slots[i].code \in Codes
<1>1. d.slots \in Seq(SlotRecs) /\ i \in 1..Len(d.slots)
  BY DEF Stores, Slots
<1>2. d.slots[i] \in SlotRecs
  BY <1>1
<1> QED BY <1>2 DEF SlotRecs

(* Losing nothing twice loses nothing.                                     *)
LEMMA GrowsOn ==
    ASSUME NEW a, NEW b, NEW c, Grows(a, b), Grows(b, c)
    PROVE  Grows(a, c)
<1>1. Slots(a) \subseteq Slots(c)
  BY DEF Grows
<1>2. ASSUME NEW i \in Slots(a)
      PROVE  /\ c.slots[i].ref = a.slots[i].ref /\ c.slots[i].erased = a.slots[i].erased
             /\ c.slots[i].code = "gone" => a.slots[i].code = "gone"
  BY DEF Grows
<1>3. ASSUME NEW i \in Slots(c) \ Slots(a) PROVE c.slots[i].code # "gone"
  <2>1. CASE i \in Slots(b)
    BY <1>3, <2>1 DEF Grows
  <2>2. CASE i \notin Slots(b)
    BY <1>3, <2>2 DEF Grows
  <2> QED BY <2>1, <2>2
<1> QED BY <1>1, <1>2, <1>3 DEF Grows

(* Goals that are served stay served when nothing is lost.                 *)
LEMMA GoalsCarry ==
    ASSUME NEW d, NEW e, Grows(d, e), NEW gs, NEW m \in Nat, NEW k \in Nat, m <= k,
           GoalsServed(d, gs, m)
    PROVE  GoalsServed(e, gs, k)
<1> SUFFICES ASSUME NEW n \in 1..Len(gs), gs[n].code PROVE GoalIsServed(e, gs[n], k)
  BY DEF GoalsServed, GoalIsServed
<1> DEFINE g == gs[n]
<1>1. /\ d.mode = "code" /\ g.gen \in Nat /\ g.gen <= m
      /\ g.at \in Slots(d) /\ Visible(d.slots[g.at], g.gen) /\ Spares(d, g.gen)
  BY DEF GoalsServed, GoalIsServed
<1> HIDE DEF g
<1>2. \A i \in Slots(d) : Visible(e.slots[i], g.gen) <=> Visible(d.slots[i], g.gen)
  BY DEF Grows, Visible
<1>3. Spares(e, g.gen)
  BY <1>1, <1>2 DEF Spares, Grows
<1>4. g.gen <= k
  BY <1>1
<1>5. e.mode = "code" /\ g.at \in Slots(e) /\ Visible(e.slots[g.at], g.gen)
  BY <1>1, <1>2 DEF Grows
<1> QED BY <1>1, <1>3, <1>4, <1>5 DEF GoalIsServed, g

(* What the logs name keeps its code when nothing is lost.                 *)
LEMMA LogsCarry ==
    ASSUME NEW d, NEW e, Grows(d, e), NEW ts, LogsSpare(d, ts)
    PROVE  LogsSpare(e, ts)
BY DEF Grows, LogsSpare, LogSpares

(* When codes alone change, the slots, the chain and the marks stay.       *)
LEMMA RecodedKeeps ==
    ASSUME NEW d \in Stores, NEW e, Recoded(d, e)
    PROVE  /\ Slots(e) = Slots(d)
           /\ Chained(d) => Chained(e)
           /\ \A i \in Slots(d) : Erased(e, i) <=> Erased(d, i)
<1>1. Slots(e) = Slots(d) /\ Len(e.slots) = Len(d.slots)
  BY DEF Recoded, Slots
<1>2. \A rank : Ranks(d, rank) => Ranks(e, rank)
  BY <1>1 DEF Recoded, Ranks
<1>3. Chained(d) => Chained(e)
  BY <1>1, <1>2 DEF Chained, Recoded
<1> QED BY <1>1, <1>3 DEF Recoded, Erased

(* Four changes of codes in a row are one.                                 *)
LEMMA RecodedOn ==
    ASSUME NEW a, NEW b, NEW c, NEW d, NEW e,
           Recoded(a, b), Recoded(b, c), Recoded(c, d), Recoded(d, e)
    PROVE  Recoded(a, e)
<1>1. Slots(b) = Slots(a) /\ Slots(c) = Slots(a) /\ Slots(d) = Slots(a)
  BY DEF Recoded, Slots
<1> QED BY <1>1 DEF Recoded

(* Only codes, the way in and the times of erasure differ: the chain and   *)
(* the index are as they were.                                             *)
Kin(d, e) ==
    /\ e \in Stores /\ Len(e.slots) = Len(d.slots)
    /\ \A j \in Slots(d) : /\ e.slots[j].key = d.slots[j].key /\ e.slots[j].ref = d.slots[j].ref
                           /\ e.slots[j].next = d.slots[j].next
    /\ e.head = d.head /\ e.tail = d.tail /\ e.ix = d.ix /\ e.ixOff = d.ixOff

(* Leaving the slots and their links twice leaves them.                    *)
LEMMA KinOn ==
    ASSUME NEW a, NEW b, NEW c, Kin(a, b), Kin(b, c)
    PROVE  Kin(a, c)
<1>1. Slots(b) = Slots(a)
  BY DEF Kin, Slots
<1> QED BY <1>1 DEF Kin

(* A change of codes leaves the links, the marks and the generation.       *)
LEMMA RecodedKin ==
    ASSUME NEW d, NEW e, Recoded(d, e)
    PROVE  Kin(d, e) /\ (\A i \in Slots(d) : e.slots[i].erased = d.slots[i].erased) /\ e.nextRef = d.nextRef
BY DEF Recoded, Kin

(* A change of codes that takes none away keeps the dates in order.        *)
LEMMA DatedAgain ==
    ASSUME NEW d \in Stores, Dated(d), NEW e, Recoded(d, e),
           \A i \in Slots(d) : e.slots[i].code = "gone" => d.slots[i].code = "gone"
    PROVE  Dated(e)
BY RecodedKeeps DEF Dated, Recoded, Erased

-----------------------------------------------------------------------------
(* Giving a clause code. *)

LEMMA FragmentIs ==
    ASSUME NEW d \in Stores, NEW i \in Slots(d)
    PROVE  LET e == Fragment(d, i)
           IN  /\ Recoded(d, e) /\ e.mode = d.mode /\ e.lo = d.lo
               /\ \A j \in Slots(d) \ {i} : e.slots[j].code = d.slots[j].code
               /\ e.slots[i].code = IF Erased(d, i) THEN "late" ELSE "live"
               /\ IF e.slots[d.head].code # "none" THEN e.way = "code" /\ e.entry = d.head
                  ELSE e.way = d.way /\ e.entry = d.entry
<1> DEFINE x == IF Erased(d, i) THEN "late" ELSE "live"
           c == [d EXCEPT !.slots[i].code = x]
           f == [c EXCEPT !.way = "code", !.entry = c.head]
<1>1. d.slots \in Seq(SlotRecs) /\ i \in 1..Len(d.slots) /\ x \in Codes
  BY DEF Stores, Slots, Codes
<1>2. c.slots = [d.slots EXCEPT ![i] = [d.slots[i] EXCEPT !.code = x]]
  BY DEF Stores
<1> HIDE DEF x
<1>3. /\ [d.slots[i] EXCEPT !.code = x] \in SlotRecs
      /\ \A s \in SlotRecs : LET t == [s EXCEPT !.code = x]
                            IN  /\ t.code = x /\ t.ref = s.ref /\ t.erased = s.erased
                                /\ t.next = s.next /\ t.key = s.key
  BY <1>1, SlotIs DEF SlotRecs
<1>4. c.slots \in Seq(SlotRecs) /\ Len(c.slots) = Len(d.slots)
  BY <1>1, <1>2, <1>3
<1>5. c \in Stores
  BY <1>4 DEF Stores
<1>6. /\ \A j \in Slots(d) \ {i} : c.slots[j] = d.slots[j]
      /\ c.slots[i] = [d.slots[i] EXCEPT !.code = x]
  BY <1>1, <1>2 DEF Slots
<1>7. /\ c.head = d.head /\ c.tail = d.tail /\ c.nextRef = d.nextRef /\ c.lo = d.lo
      /\ c.pins = d.pins /\ c.mode = d.mode /\ c.way = d.way /\ c.entry = d.entry
      /\ c.ix = d.ix /\ c.ixOff = d.ixOff
  BY DEF Stores
<1>8. Recoded(d, c) /\ c.slots[i].code = x
      /\ \A j \in Slots(d) \ {i} : c.slots[j].code = d.slots[j].code
  <2>1. d.slots[i] \in SlotRecs
    BY SlotIs
  <2> HIDE DEF c
  <2>2. /\ c.slots[i].ref = d.slots[i].ref /\ c.slots[i].erased = d.slots[i].erased
        /\ c.slots[i].next = d.slots[i].next /\ c.slots[i].key = d.slots[i].key
        /\ c.slots[i].code = x
    BY <1>3, <1>6, <2>1
  <2> QED BY <1>4, <1>5, <1>6, <1>7, <2>2 DEF Recoded
<1> HIDE DEF c
<1>9. /\ f \in Stores /\ f.slots = c.slots /\ f.head = c.head /\ f.tail = c.tail
      /\ f.nextRef = c.nextRef /\ f.lo = c.lo /\ f.pins = c.pins /\ f.mode = c.mode
      /\ f.way = "code" /\ f.entry = c.head /\ f.ix = c.ix /\ f.ixOff = c.ixOff
  BY <1>5 DEF Stores
<1>10. Fragment(d, i) = IF c.slots[c.head].code # "none" THEN f ELSE c
  BY DEF Fragment, c, x
<1> HIDE DEF f, x
<1> QED BY <1>7, <1>8, <1>9, <1>10 DEF Recoded, x

(* A goal that comes to a clause without code gives it code. *)
LEMMA EnsureKeeps ==
    ASSUME NEW d, StoreInv(d), d.mode = "code", NEW i \in 0..Len(d.slots)
    PROVE  StoreInv(Ensure(d, i)) /\ Grows(d, Ensure(d, i)) /\ Recoded(d, Ensure(d, i))
           /\ (i # None /\ d.slots[i].code # "gone" => HasCode(Ensure(d, i), i))
           /\ Ensure(d, i).mode = d.mode /\ Ensure(d, i).way \in {d.way, "code"}
<1> DEFINE e == Fragment(d, i)
<1>0. d \in Stores /\ (i # None => i \in Slots(d))
  BY DEF StoreInv, Stores, Slots, None
<1>1. CASE ~(i # None /\ d.slots[i].code = "none")
  <2>1. Ensure(d, i) = d
    BY <1>1 DEF Ensure
  <2>2. i # None => d.slots[i].code \in Codes
    BY <1>0, SlotIs
  <2> QED BY <1>0, <1>1, <2>1, <2>2 DEF Grows, Recoded, HasCode, Codes
<1>2. CASE i # None /\ d.slots[i].code = "none"
  <2>1. /\ Recoded(d, e) /\ e.mode = d.mode /\ e.lo = d.lo
        /\ \A j \in Slots(d) \ {i} : e.slots[j].code = d.slots[j].code
        /\ e.slots[i].code = IF Erased(d, i) THEN "late" ELSE "live"
        /\ IF e.slots[d.head].code # "none" THEN e.way = "code" /\ e.entry = d.head
           ELSE e.way = d.way /\ e.entry = d.entry
    BY <1>0, <1>2, FragmentIs
  <2> HIDE DEF e
  <2>2. /\ Slots(e) = Slots(d) /\ Chained(e) /\ \A j \in Slots(d) : Erased(e, j) <=> Erased(d, j)
    BY <1>0, <2>1, RecodedKeeps DEF StoreInv
  <2>3. d.entry = d.head /\ d.head \in Slots(d) /\ HasCode(d, d.head)
    BY <1>0 DEF StoreInv, EntersAtHead, Chained, Slots, None
  <2>4. d.head # i /\ HasCode(e, d.head) /\ e.entry = d.head
    BY <1>2, <2>1, <2>3 DEF HasCode
  <2>5. Dated(e)
    BY <1>0, <2>1, DatedAgain DEF StoreInv
  <2>6. EntersAtHead(e)
    BY <2>1, <2>3, <2>4 DEF EntersAtHead, Recoded, StoreInv
  <2>7. ScanSees(e)
    <3> SUFFICES ASSUME NEW j \in Slots(d), Candidate(e, j), e.slots[j].code = "live"
                 PROVE  j >= d.lo
      BY <2>1, <2>2 DEF ScanSees, Recoded
    <3>1. j # i
      BY <2>1, <2>2 DEF Candidate
    <3>2. Candidate(d, j) /\ d.slots[j].code = "live"
      BY <2>1, <2>2, <2>3, <2>4, <3>1 DEF Candidate, HasCode, Recoded
    <3> QED BY <3>2 DEF StoreInv, ScanSees
  <2>8. Grows(d, e)
    BY <1>2, <2>1, <2>2 DEF Grows, Recoded
  <2>9. Ensure(d, i) = e
    BY <1>2 DEF Ensure, e
  <2>10. HasCode(e, i)
    BY <2>1 DEF HasCode
  <2>11. StoreInv(e)
    BY <2>1, <2>2, <2>5, <2>6, <2>7 DEF StoreInv, Recoded
  <2> QED BY <2>1, <2>8, <2>9, <2>10, <2>11
<1> QED BY <1>1, <1>2

-----------------------------------------------------------------------------
(* Reclaiming. *)

(* No code goes that a goal is at or comes to, or that is not erased; what *)
(* a log names keeps its code, because it is pinned.                       *)
NoErasures(ts) == \A n \in 1..Len(ts) : ErasesIn(ts[n].log) = {}

(* Without a pin no open log has an erasure.                               *)
LEMMA UnpinnedLogs ==
    ASSUME NEW ts \in Seq(Txs), NEW d \in Stores, Pinned(d, ts), d.pins = 0
    PROVE  NoErasures(ts)
<1>1. PICK sum : Sums(ts, sum) /\ d.pins >= sum[Len(ts)]
  BY DEF Pinned
<1>2. \A n \in 1..Len(ts) : IsFiniteSet(ErasesIn(ts[n].log))
                            /\ Cardinality(ErasesIn(ts[n].log)) \in Nat
  <2> SUFFICES ASSUME NEW n \in 1..Len(ts)
               PROVE  /\ IsFiniteSet(ErasesIn(ts[n].log))
                      /\ Cardinality(ErasesIn(ts[n].log)) \in Nat
    OBVIOUS
  <2>1. Len(ts[n].log) \in Nat
    BY DEF Txs
  <2>2. IsFiniteSet(1..Len(ts[n].log))
    <3> DEFINE k == Len(ts[n].log)
    <3>1. 1 \in Int /\ k \in Int
      BY <2>1
    <3> HIDE DEF k
    <3>2. IsFiniteSet(1..k)
      BY <3>1, FS_Interval
    <3> QED BY <3>2 DEF k
  <2>3. ErasesIn(ts[n].log) \subseteq 1..Len(ts[n].log)
    BY DEF ErasesIn
  <2> QED BY <2>2, <2>3, FS_Subset, FS_CardinalityType
<1> DEFINE l == Len(ts)
           P(k) == sum[k] = 0 /\ \A n \in k + 1..l : ErasesIn(ts[n].log) = {}
           T == {k \in Nat : k <= l => P(l - k)}
<1>3. l \in Nat /\ \A n \in 0..l : sum[n] \in Nat
  BY <1>1 DEF Sums
<1>4. 0 \in T
  BY <1>1, <1>3
<1>5. ASSUME NEW k \in Nat, k \in T PROVE k + 1 \in T
  <2> SUFFICES ASSUME k + 1 <= l PROVE P(l - (k + 1))
    <3> HIDE DEF P, l
    <3> QED OBVIOUS
  <2> DEFINE n == l - k
  <2>1. n \in 1..l /\ n - 1 = l - (k + 1) /\ n - 1 \in 0..l /\ n \in 0..l
    BY <1>3
  <2>2. P(n)
    <3> HIDE DEF P, l
    <3> QED BY <1>3, <1>5
  <2> HIDE DEF n
  <2>3. sum[n] = sum[n - 1] + Cardinality(ErasesIn(ts[n].log))
    BY <1>1, <2>1 DEF Sums
  <2>4. sum[n - 1] \in Nat /\ Cardinality(ErasesIn(ts[n].log)) \in Nat
    BY <1>2, <1>3, <2>1
  <2>5. sum[n - 1] = 0 /\ Cardinality(ErasesIn(ts[n].log)) = 0
    BY <2>2, <2>3, <2>4
  <2>6. ErasesIn(ts[n].log) = {}
    BY <1>2, <2>1, <2>5, FS_EmptySet
  <2>7. \A m \in n - 1 + 1..l : m = n \/ m \in n + 1..l
    BY <1>3, <2>1
  <2>8. P(n - 1)
    BY <2>2, <2>5, <2>6, <2>7
  <2> QED BY <2>1, <2>8
<1>6. Nat \subseteq T
  <2> HIDE DEF T
  <2> QED BY <1>4, <1>5, SetInduction
<1>7. P(l - l)
  <2> HIDE DEF P, l
  <2> QED BY <1>3, <1>6
<1>8. \A n \in 1..l : n \in l - l + 1..l
  BY <1>3
<1> QED BY <1>7, <1>8 DEF NoErasures

(* The clauses erased before any goal that holds code began are those      *)
(* erased no later than all the goals' clauses were asserted.              *)
LEMMA OldestIs ==
    ASSUME NEW d \in Stores, NEW m \in Nat, GoalsServed(d, goals, m)
    PROVE  \A n \in 1..Len(goals) : goals[n].code =>
               Oldest(d) \in Nat /\ Oldest(d) <= goals[n].gen
<1> SUFFICES ASSUME NEW n \in 1..Len(goals), goals[n].code
             PROVE  Oldest(d) \in Nat /\ Oldest(d) <= goals[n].gen
  OBVIOUS
<1> DEFINE S == {d.slots[i].ref + 1 : i \in Held}
<1>1. \A k \in 1..Len(goals) : goals[k].code =>
          /\ goals[k].at \in Slots(d) /\ goals[k].gen \in Nat
          /\ Visible(d.slots[goals[k].at], goals[k].gen)
  BY DEF GoalsServed, GoalIsServed
<1>2. Held \subseteq Slots(d) /\ goals[n].at \in Held
  BY <1>1 DEF Held
<1>3. S \subseteq Nat /\ d.slots[goals[n].at].ref + 1 \in S
  BY <1>2, SlotIs
<1> HIDE DEF S
<1>4. PICK s \in S : \A t \in S : s <= t
  BY <1>3, NatHasLeast
<1>5. Oldest(d) = Min(S)
  BY <1>2 DEF Oldest, S
<1>6. Min(S) \in S /\ \A t \in S : Min(S) <= t
  BY <1>4 DEF Min
<1>7. Oldest(d) \in Nat /\ Oldest(d) <= d.slots[goals[n].at].ref + 1
  BY <1>3, <1>5, <1>6
<1>8. d.slots[goals[n].at].ref < goals[n].gen /\ d.slots[goals[n].at].ref \in Nat
      /\ goals[n].gen \in Nat
  BY <1>1, SlotIs DEF Visible
<1> HIDE DEF S
<1>9. \A o, r, x \in Nat : o <= r + 1 /\ r < x => o <= x
  OBVIOUS
<1> QED BY <1>7, <1>8, <1>9

(* A reclaim takes no code that a goal or an open log still needs.         *)
LEMMA ReclaimKeeps ==
    ASSUME NEW d, StoreInv(d), NEW m \in Nat, GoalsServed(d, goals, m),
           NEW ok \in BOOLEAN
    PROVE  LET e == Reclaim(d, ok)
           IN  /\ StoreInv(e) /\ Recoded(d, e) /\ e.mode = d.mode /\ e.way = d.way
               /\ GoalsServed(e, goals, m)
               /\ \A ts \in Seq(Txs) : LogsSpare(d, ts) /\ Pinned(d, ts) => LogsSpare(e, ts)
<1> DEFINE cands == {i \in d.lo..Len(d.slots) : Candidate(d, i)}
           gone == IF ok THEN {i \in cands : Reclaimable(d, i)} ELSE {}
           kept == cands \ gone
           after(i) == IF i \in gone THEN [d.slots[i] EXCEPT !.code = "gone"] ELSE d.slots[i]
           lo == IF kept = {} THEN Len(d.slots) + 1 ELSE Min(kept)
           e == [d EXCEPT !.since = 0, !.slots = [i \in Slots(d) |-> after(i)], !.lo = lo]
<1>0. d \in Stores /\ Len(d.slots) \in Nat /\ d.lo \in Nat /\ Slots(d) = 1..Len(d.slots)
      /\ \A i \in Slots(d) : i \in Nat
  BY DEF StoreInv, Stores, Slots
<1>1. CASE ~ReclaimDue(d)
  <2>1. Reclaim(d, ok) = d
    BY <1>1 DEF Reclaim
  <2> QED BY <1>0, <2>1 DEF Recoded
<1>2. CASE ReclaimDue(d)
  <2>1. Reclaim(d, ok) = e
    BY <1>2 DEF Reclaim
  <2>2. \A i \in gone : /\ Erased(d, i) /\ HasCode(d, i) /\ i # d.head /\ i # d.entry
                        /\ i \notin Held /\ d.slots[i].erased < Oldest(d)
    BY DEF Reclaimable, Candidate
  <2>3. kept \subseteq d.lo..Len(d.slots) /\ kept \subseteq Nat
    BY <1>0
  <2>4. \A i \in Slots(d) : Candidate(d, i) /\ i >= d.lo => i \in kept \/ i \in gone
    BY <1>0
  <2> HIDE DEF gone, kept
  <2>5. lo \in Nat /\ \A i \in kept : i >= lo
    <3>1. CASE kept = {}
      BY <1>0, <3>1
    <3>2. CASE kept # {}
      <4>1. PICK k \in kept : \A j \in kept : k <= j
        BY <2>3, <3>2, NatHasLeast
      <4>2. Min(kept) \in kept /\ \A j \in kept : Min(kept) <= j
        BY <4>1 DEF Min
      <4> QED BY <2>3, <3>2, <4>2
    <3> QED BY <3>1, <3>2
  <2> HIDE DEF lo
  <2>6. \A i \in Slots(d) : /\ after(i) \in SlotRecs /\ after(i).ref = d.slots[i].ref
                            /\ after(i).erased = d.slots[i].erased
                            /\ after(i).next = d.slots[i].next /\ after(i).key = d.slots[i].key
                            /\ after(i).code = IF i \in gone THEN "gone" ELSE d.slots[i].code
    <3>1. \A s \in SlotRecs : LET t == [s EXCEPT !.code = "gone"]
                             IN  /\ t \in SlotRecs /\ t.code = "gone" /\ t.ref = s.ref
                                 /\ t.erased = s.erased /\ t.next = s.next /\ t.key = s.key
      BY DEF SlotRecs, Codes
    <3>2. \A i \in Slots(d) : d.slots[i] \in SlotRecs
      BY <1>0, SlotIs
    <3> QED BY <3>1, <3>2
  <2> HIDE DEF after
  <2>7. /\ e.slots = [i \in Slots(d) |-> after(i)] /\ e.lo = lo
        /\ e.head = d.head /\ e.tail = d.tail /\ e.nextRef = d.nextRef /\ e.pins = d.pins
        /\ e.mode = d.mode /\ e.way = d.way /\ e.entry = d.entry
        /\ e.ix = d.ix /\ e.ixOff = d.ixOff
    BY <1>0 DEF Stores
  <2>8. [i \in Slots(d) |-> after(i)] \in Seq(SlotRecs)
    BY <1>0, <2>6
  <2>9. e \in Stores
    BY <1>0, <2>5, <2>8 DEF Stores
  <2> HIDE DEF e
  <2>10. /\ Recoded(d, e)
         /\ \A i \in Slots(d) : e.slots[i].code = IF i \in gone THEN "gone" ELSE d.slots[i].code
    <3>1. Len(e.slots) = Len(d.slots) /\ \A i \in Slots(d) : e.slots[i] = after(i)
      BY <1>0, <2>7
    <3> QED BY <2>6, <2>7, <2>9, <3>1 DEF Recoded
  <2>11. /\ Slots(e) = Slots(d) /\ Chained(e)
         /\ \A i \in Slots(d) : Erased(e, i) <=> Erased(d, i)
    BY <1>0, <2>10, RecodedKeeps DEF StoreInv
  <2>12. Dated(e)
    BY <2>2, <2>10, <2>11 DEF Dated, StoreInv, Recoded
  <2>13. EntersAtHead(e)
    <3>1. CASE d.mode = "code"
      <4>1. d.entry = d.head /\ d.head # None /\ HasCode(d, d.head) /\ d.head \in Slots(d)
        BY <1>0, <3>1 DEF StoreInv, EntersAtHead, Chained, None
      <4>2. HasCode(e, d.head)
        BY <2>2, <2>10, <4>1 DEF HasCode
      <4> QED BY <2>7, <3>1, <4>1, <4>2 DEF EntersAtHead
    <3>2. CASE d.mode # "code"
      <4>1. \A i \in Slots(d) : d.slots[i].code = "none" /\ i \notin gone
        BY <2>2, <3>2 DEF StoreInv, EntersAtHead, HasCode
      <4> QED BY <2>7, <2>10, <2>11, <3>2, <4>1 DEF EntersAtHead, StoreInv
    <3> QED BY <3>1, <3>2
  <2>14. ScanSees(e)
    <3> SUFFICES ASSUME NEW i \in Slots(d), Candidate(e, i), e.slots[i].code = "live"
                 PROVE  i >= lo
      BY <2>7, <2>11 DEF ScanSees
    <3>1. i \notin gone /\ Candidate(d, i) /\ d.slots[i].code = "live"
      BY <2>7, <2>10, <2>11 DEF Candidate, HasCode
    <3>2. i >= d.lo
      BY <3>1 DEF StoreInv, ScanSees
    <3> QED BY <2>4, <2>5, <3>1, <3>2
  <2>15. GoalsServed(e, goals, m)
    <3> SUFFICES ASSUME NEW n \in 1..Len(goals), goals[n].code
                 PROVE  GoalIsServed(e, goals[n], m)
      BY DEF GoalsServed, GoalIsServed
    <3> DEFINE g == goals[n]
    <3>1. /\ d.mode = "code" /\ g.gen \in Nat /\ g.gen <= m
          /\ g.at \in Slots(d) /\ Visible(d.slots[g.at], g.gen) /\ Spares(d, g.gen)
      BY DEF GoalsServed, GoalIsServed
    <3>2. Oldest(d) \in Nat /\ Oldest(d) <= g.gen
      BY <1>0, OldestIs
    <3> HIDE DEF g
    <3>3. \A i \in Slots(d) : Visible(e.slots[i], g.gen) <=> Visible(d.slots[i], g.gen)
      BY <2>10 DEF Recoded, Visible
    <3>4. Spares(e, g.gen)
      <4> SUFFICES ASSUME NEW i \in Slots(d), Visible(d.slots[i], g.gen), e.slots[i].code = "gone"
                   PROVE  FALSE
        BY <2>11, <3>3 DEF Spares
      <4>1. i \in gone
        BY <2>10, <3>1 DEF Spares
      <4>2. d.slots[i].erased # 0 /\ d.slots[i].erased < Oldest(d) /\ d.slots[i].erased \in Nat
        BY <1>0, <2>2, <4>1, SlotIs DEF Erased
      <4>3. d.slots[i].erased >= g.gen
        BY <4>2 DEF Visible
      <4> QED BY <3>1, <3>2, <4>2, <4>3
    <3> QED BY <2>7, <2>11, <3>1, <3>3, <3>4 DEF GoalIsServed, g
  <2>16. ASSUME NEW ts \in Seq(Txs), LogsSpare(d, ts), Pinned(d, ts) PROVE LogsSpare(e, ts)
    <3>1. NoErasures(ts)
      BY <1>0, <1>2, <2>16, UnpinnedLogs DEF ReclaimDue
    <3>2. ASSUME NEW n \in 1..Len(ts), NEW k \in 1..Len(ts[n].log)
          PROVE  ts[n].log[k].kind # "erase" /\ ts[n].log[k].slot \in Slots(d)
      BY <2>16, <3>1 DEF NoErasures, ErasesIn, LogsSpare, LogSpares
    <3> QED BY <2>11, <3>2 DEF LogsSpare, LogSpares
  <2>17. StoreInv(e)
    BY <2>9, <2>11, <2>12, <2>13, <2>14 DEF StoreInv
  <2> QED BY <2>1, <2>7, <2>10, <2>15, <2>16, <2>17
<1> QED BY <1>1, <1>2

-----------------------------------------------------------------------------
(* Storing a clause. *)

NewSlot(d) == Len(d.slots) + 1
Appended(d, c) == [key |-> c.key, ref |-> d.nextRef, erased |-> 0, next |-> None, code |-> "none"]

(* What storing a clause changes: one slot more, one generation on.        *)
LEMMA StoredIs ==
    ASSUME NEW d \in Stores, NEW c \in Clauses
    PROVE  LET t == Stored(d, c)
           IN  /\ t \in Stores /\ t.slots = Append(d.slots, Appended(d, c))
               /\ Appended(d, c) \in SlotRecs
               /\ t.nextRef = d.nextRef + 1 /\ t.head = d.head /\ t.tail = d.tail
               /\ t.lo = d.lo /\ t.pins = d.pins /\ t.mode = d.mode /\ t.way = d.way
               /\ t.entry = d.entry /\ t.ix = d.ix /\ t.ixOff = d.ixOff
<1> DEFINE r == Appended(d, c)
           k == IF Len(d.slots) >= d.cap THEN 2 * d.cap ELSE d.cap
           t == [d EXCEPT !.slots = Append(@, r), !.cap = k, !.nextRef = @ + 1]
<1>1. r \in SlotRecs
  <2>1. c.key \in Keys \cup {Var} /\ d.nextRef \in Nat
    BY Parameters DEF Stores
  <2> QED BY <2>1 DEF SlotRecs, Codes, Appended, None
<1>2. k \in Nat
  BY DEF Stores
<1>3. Stored(d, c) = t
  BY DEF Stored, Appended
<1> HIDE DEF k, r
<1>4. Append(d.slots, r) \in Seq(SlotRecs) /\ d.nextRef + 1 \in Nat
  BY <1>1, AppendProperties DEF Stores
<1>5. t \in Stores
  BY <1>2, <1>4 DEF Stores
<1>6. /\ t.slots = Append(d.slots, r)
      /\ t.nextRef = d.nextRef + 1 /\ t.head = d.head /\ t.tail = d.tail
      /\ t.lo = d.lo /\ t.pins = d.pins /\ t.mode = d.mode /\ t.way = d.way
      /\ t.entry = d.entry /\ t.ix = d.ix /\ t.ixOff = d.ixOff
  BY DEF Stores
<1> HIDE DEF t
<1> QED BY <1>1, <1>3, <1>5, <1>6 DEF r

(* The new clause is at one end of the chain; nothing else moves.          *)
Joins(d, e, c, front) ==
    /\ \A j \in Slots(d) : /\ e.slots[j].key = d.slots[j].key
                           /\ ~front /\ j = d.tail => e.slots[j].next = NewSlot(d)
                           /\ front \/ j # d.tail => e.slots[j].next = d.slots[j].next
    /\ e.slots[NewSlot(d)].key = c.key
    /\ e.slots[NewSlot(d)].next = IF front THEN d.head ELSE None
    /\ e.tail = IF ~front \/ d.tail = None THEN NewSlot(d) ELSE d.tail

(* What linking the new slot changes: it is the head or the tail.          *)
LEMMA LinkedIs ==
    ASSUME NEW d, StoreInv(d), NEW c \in Clauses, NEW front \in BOOLEAN
    PROVE  LET i == NewSlot(d)
               e == Linked(Stored(d, c), i, front)
           IN  /\ e \in Stores /\ Len(e.slots) = i /\ Chained(e)
               /\ \A j \in Slots(d) : /\ e.slots[j].ref = d.slots[j].ref
                                      /\ e.slots[j].erased = d.slots[j].erased
                                      /\ e.slots[j].code = d.slots[j].code
               /\ e.slots[i].ref = d.nextRef /\ e.slots[i].erased = 0 /\ e.slots[i].code = "none"
               /\ e.nextRef = d.nextRef + 1 /\ e.pins = d.pins
               /\ e.mode = d.mode /\ e.way = d.way /\ e.entry = d.entry
               /\ e.head = IF front \/ d.head = None THEN i ELSE d.head
               /\ e.lo = IF front THEN LoAtOldHead(d) ELSE d.lo
               /\ Joins(d, e, c, front) /\ e.ix = d.ix /\ e.ixOff = d.ixOff
<1> DEFINE n == Len(d.slots)
           i == NewSlot(d)
           r == Appended(d, c)
           t == Stored(d, c)
           e == Linked(t, i, front)
           nextOf(j) == IF j = i THEN (IF front THEN d.head ELSE None)
                        ELSE IF ~front /\ j = d.tail THEN i ELSE d.slots[j].next
<1>1. /\ d \in Stores /\ n \in Nat /\ i = n + 1 /\ Slots(d) = 1..n
      /\ d.head \in 0..n /\ d.tail \in 0..n /\ (d.head = None <=> d.tail = None)
  BY DEF StoreInv, Stores, Slots, Chained, NewSlot
<1>2. /\ t \in Stores /\ t.slots = Append(d.slots, r)
      /\ r \in SlotRecs
      /\ t.nextRef = d.nextRef + 1 /\ t.head = d.head /\ t.tail = d.tail
      /\ t.lo = d.lo /\ t.pins = d.pins /\ t.mode = d.mode /\ t.way = d.way
      /\ t.entry = d.entry /\ t.ix = d.ix /\ t.ixOff = d.ixOff
  BY <1>1, StoredIs
<1>3. /\ r.ref = d.nextRef /\ r.erased = 0 /\ r.next = None /\ r.code = "none" /\ r.key = c.key
  BY DEF Appended
<1>4. d.slots \in Seq(SlotRecs) /\ \A j \in 1..n : d.slots[j] \in SlotRecs
  BY <1>1, SlotIs DEF Stores
<1> HIDE DEF t, r, i
<1>5. /\ Len(t.slots) = i /\ t.slots \in Seq(SlotRecs) /\ t.slots[i] = r
      /\ \A j \in 1..n : t.slots[j] = d.slots[j]
  BY <1>1, <1>2, <1>4, AppendProperties
<1>6. LoAtOldHead(t) = LoAtOldHead(d) /\ LoAtOldHead(d) \in Nat
  BY <1>1, <1>2 DEF LoAtOldHead, Stores
<1>7. \A s \in SlotRecs : \A x \in Nat :
          LET u == [s EXCEPT !.next = x]
          IN  /\ u \in SlotRecs /\ u.ref = s.ref /\ u.erased = s.erased /\ u.code = s.code
              /\ u.next = x /\ u.key = s.key
  BY DEF SlotRecs
<1>8. /\ e \in Stores /\ Len(e.slots) = i
      /\ \A j \in 1..i : /\ e.slots[j].ref = t.slots[j].ref
                         /\ e.slots[j].erased = t.slots[j].erased
                         /\ e.slots[j].code = t.slots[j].code
                         /\ e.slots[j].next = nextOf(j) /\ e.slots[j].key = t.slots[j].key
      /\ e.nextRef = t.nextRef /\ e.pins = t.pins /\ e.ix = t.ix /\ e.ixOff = t.ixOff
      /\ e.mode = t.mode /\ e.way = t.way /\ e.entry = t.entry
      /\ e.head = IF front \/ d.head = None THEN i ELSE d.head
      /\ e.tail = IF ~front \/ d.tail = None THEN i ELSE d.tail
      /\ e.lo = IF front THEN LoAtOldHead(d) ELSE d.lo
  <2>0. t.slots[i] \in SlotRecs /\ i \in 1..i /\ i \in Nat /\ d.head \in Nat /\ i \notin 1..n
    BY <1>1, <1>2, <1>5
  <2>1. CASE front
    <3> DEFINE u == [t.slots EXCEPT ![i] = [t.slots[i] EXCEPT !.next = d.head]]
               b == IF t.tail = None THEN i ELSE t.tail
               lo == LoAtOldHead(t)
    <3>1. e = [t EXCEPT !.slots = u, !.head = i, !.tail = b, !.lo = lo]
      BY <1>2, <2>1 DEF Linked, Stores
    <3>2. u \in Seq(SlotRecs) /\ Len(u) = i /\ u[i] = [t.slots[i] EXCEPT !.next = d.head]
          /\ \A j \in 1..n : u[j] = t.slots[j]
      BY <1>1, <1>5, <1>7, <2>0
    <3>3. b \in Nat /\ lo \in Nat
      BY <1>1, <1>2, <1>6, <2>0
    <3> HIDE DEF u, b, lo, e
    <3>4. /\ e \in Stores /\ e.slots = u /\ e.head = i /\ e.tail = b /\ e.lo = lo
          /\ e.nextRef = t.nextRef /\ e.pins = t.pins
          /\ e.mode = t.mode /\ e.way = t.way /\ e.entry = t.entry
          /\ e.ix = t.ix /\ e.ixOff = t.ixOff
      BY <1>2, <2>0, <3>1, <3>2, <3>3 DEF Stores
    <3>5. \A j \in 1..i : /\ u[j].ref = t.slots[j].ref /\ u[j].erased = t.slots[j].erased
                          /\ u[j].code = t.slots[j].code /\ u[j].next = nextOf(j)
                          /\ u[j].key = t.slots[j].key
      <4> SUFFICES ASSUME NEW j \in 1..i
                   PROVE  /\ u[j].ref = t.slots[j].ref /\ u[j].erased = t.slots[j].erased
                          /\ u[j].code = t.slots[j].code /\ u[j].next = nextOf(j)
                          /\ u[j].key = t.slots[j].key
        OBVIOUS
      <4>1. CASE j = i
        <5>1. nextOf(j) = d.head
          BY <2>1, <4>1
        <5> HIDE DEF nextOf
        <5>2. LET x == [t.slots[i] EXCEPT !.next = d.head]
              IN  /\ x.ref = t.slots[i].ref /\ x.erased = t.slots[i].erased
                  /\ x.code = t.slots[i].code /\ x.next = d.head /\ x.key = t.slots[i].key
          BY <2>0 DEF SlotRecs
        <5> QED BY <3>2, <4>1, <5>1, <5>2
      <4>2. CASE j # i
        <5>1. j \in 1..n
          BY <1>1, <4>2
        <5>2. nextOf(j) = d.slots[j].next
          BY <2>1, <4>2
        <5> HIDE DEF nextOf, n
        <5> QED BY <1>5, <3>2, <5>1, <5>2
      <4> QED BY <4>1, <4>2
    <3> QED BY <1>2, <1>6, <2>1, <3>2, <3>4, <3>5 DEF b, lo
  <2>2. CASE ~front /\ t.tail = None
    <3>1. e = [t EXCEPT !.head = i, !.tail = i]
      BY <2>2 DEF Linked
    <3>2. /\ e \in Stores /\ e.slots = t.slots /\ e.head = i /\ e.tail = i /\ e.lo = t.lo
          /\ e.nextRef = t.nextRef /\ e.pins = t.pins
          /\ e.mode = t.mode /\ e.way = t.way /\ e.entry = t.entry
          /\ e.ix = t.ix /\ e.ixOff = t.ixOff
      BY <1>2, <2>0, <3>1 DEF Stores
    <3>3. \A j \in 1..i : t.slots[j].next = nextOf(j)
      BY <1>1, <1>2, <1>3, <1>5, <2>2 DEF None
    <3> HIDE DEF e
    <3> QED BY <1>1, <1>2, <1>5, <2>2, <3>2, <3>3
  <2>3. CASE ~front /\ t.tail # None
    <3> DEFINE k == d.tail
               u == [t.slots EXCEPT ![k] = [t.slots[k] EXCEPT !.next = i]]
    <3>1. e = [t EXCEPT !.slots = u, !.tail = i]
      BY <1>2, <2>3 DEF Linked, Stores
    <3>2. k \in 1..n /\ k # i /\ t.slots[k] \in SlotRecs
      BY <1>1, <1>2, <1>4, <1>5, <2>0, <2>3 DEF None
    <3> HIDE DEF k
    <3>3. u \in Seq(SlotRecs) /\ Len(u) = i /\ u[k] = [t.slots[k] EXCEPT !.next = i]
          /\ \A j \in 1..i : j # k => u[j] = t.slots[j]
      <4>1. [t.slots[k] EXCEPT !.next = i] \in SlotRecs
        BY <1>7, <2>0, <3>2
      <4> DEFINE x == [t.slots[k] EXCEPT !.next = i]
      <4>2. k \in 1..i
        BY <1>1, <3>2
      <4> HIDE DEF x
      <4>3. [t.slots EXCEPT ![k] = x] \in Seq(SlotRecs) /\ Len([t.slots EXCEPT ![k] = x]) = i
            /\ [t.slots EXCEPT ![k] = x][k] = x
            /\ \A j \in 1..i : j # k => [t.slots EXCEPT ![k] = x][j] = t.slots[j]
        BY <1>5, <4>1, <4>2 DEF x
      <4> QED BY <4>3 DEF x
    <3> HIDE DEF u, e
    <3>4. /\ e \in Stores /\ e.slots = u /\ e.head = t.head /\ e.tail = i /\ e.lo = t.lo
          /\ e.nextRef = t.nextRef /\ e.pins = t.pins
          /\ e.mode = t.mode /\ e.way = t.way /\ e.entry = t.entry
          /\ e.ix = t.ix /\ e.ixOff = t.ixOff
      BY <1>2, <2>0, <3>1, <3>3 DEF Stores
    <3>5. \A j \in 1..i : /\ u[j].ref = t.slots[j].ref /\ u[j].erased = t.slots[j].erased
                          /\ u[j].code = t.slots[j].code /\ u[j].next = nextOf(j)
                          /\ u[j].key = t.slots[j].key
      <4> SUFFICES ASSUME NEW j \in 1..i
                   PROVE  /\ u[j].ref = t.slots[j].ref /\ u[j].erased = t.slots[j].erased
                          /\ u[j].code = t.slots[j].code /\ u[j].next = nextOf(j)
                          /\ u[j].key = t.slots[j].key
        OBVIOUS
      <4>1. CASE j = k
        <5>1. nextOf(j) = i
          BY <2>3, <3>2, <4>1 DEF k
        <5> HIDE DEF nextOf
        <5>2. LET x == [t.slots[k] EXCEPT !.next = i]
              IN  /\ x.ref = t.slots[k].ref /\ x.erased = t.slots[k].erased
                  /\ x.code = t.slots[k].code /\ x.next = i /\ x.key = t.slots[k].key
          BY <3>2 DEF SlotRecs
        <5> QED BY <3>3, <4>1, <5>1, <5>2
      <4>2. CASE j # k
        <5>1. u[j] = t.slots[j] /\ (j = i \/ j \in 1..n)
          BY <1>1, <3>3, <4>2
        <5> QED BY <1>3, <1>5, <2>0, <2>3, <4>2, <5>1 DEF k
      <4> QED BY <4>1, <4>2
    <3> QED BY <1>1, <1>2, <2>3, <3>3, <3>4, <3>5
  <2> QED BY <2>1, <2>2, <2>3
<1> HIDE DEF e
<1>9. \E rank : Ranks(e, rank)
  <2>1. PICK rank : Ranks(d, rank)
    BY DEF StoreInv, Chained
  <2>2. /\ rank \in [0..n -> 0..n]
        /\ \A j \in 1..n : d.slots[j].next \in 0..n /\ rank[d.slots[j].next] < rank[j]
    BY <2>1 DEF Ranks, Slots
  <2>3. \A j \in 0..n : rank[j] \in 0..n
    BY <2>2
  <2> HIDE DEF n
  <2>4. CASE front
    <3> DEFINE up == [j \in 0..i |-> IF j = i THEN i ELSE rank[j]]
    <3>1. up \in [0..i -> 0..i]
      BY <1>1, <2>3
    <3>2. \A j \in 1..i : nextOf(j) \in 0..i /\ up[nextOf(j)] < up[j]
      <4> SUFFICES ASSUME NEW j \in 1..i
                   PROVE  nextOf(j) \in 0..i /\ up[nextOf(j)] < up[j]
        OBVIOUS
      <4>1. CASE j = i
        <5>1. nextOf(j) = d.head /\ d.head \in 0..i /\ d.head # i
          BY <1>1, <2>4, <4>1
        <5>2. rank[d.head] \in 0..n
          BY <1>1, <2>3
        <5>3. up[d.head] = rank[d.head] /\ up[i] = i
          BY <1>1, <5>1
        <5> HIDE DEF up, nextOf
        <5> QED BY <1>1, <4>1, <5>1, <5>2, <5>3
      <4>2. CASE j # i
        <5>1. j \in 1..n /\ nextOf(j) = d.slots[j].next
          BY <1>1, <2>4, <4>2
        <5>2. d.slots[j].next \in 0..n /\ rank[d.slots[j].next] < rank[j]
          BY <2>2, <5>1
        <5>3. up[d.slots[j].next] = rank[d.slots[j].next] /\ up[j] = rank[j]
              /\ d.slots[j].next \in 0..i
          BY <1>1, <5>1, <5>2
        <5> HIDE DEF up, nextOf
        <5> QED BY <5>1, <5>2, <5>3
      <4> QED BY <4>1, <4>2
    <3> HIDE DEF up
    <3>3. Ranks(e, up)
      BY <1>8, <3>1, <3>2 DEF Ranks, Slots
    <3> QED BY <3>3
  <2>5. CASE ~front
    <3> DEFINE up == [j \in 0..i |-> IF j = i THEN 1 ELSE IF j = None THEN 0 ELSE rank[j] + 1]
    <3>1. up \in [0..i -> 0..i]
      BY <1>1, <2>3
    <3>2. ASSUME NEW j \in 1..i PROVE nextOf(j) \in 0..i /\ up[nextOf(j)] < up[j]
      <4>1. CASE j = i
        BY <1>1, <2>5, <4>1 DEF None
      <4>2. CASE j # i /\ j = d.tail
        <5>1. j \in 1..n /\ nextOf(j) = i /\ up[i] = 1
          BY <1>1, <2>5, <4>2
        <5>2. d.slots[j].next \in 0..n /\ rank[d.slots[j].next] < rank[j]
              /\ rank[j] \in Nat /\ rank[d.slots[j].next] \in Nat
          <6>1. d.slots[j].next \in 0..n /\ rank[d.slots[j].next] < rank[j] /\ j \in 0..n
            BY <1>1, <2>2, <5>1
          <6> QED BY <1>1, <2>3, <6>1
        <5>3. up[j] = rank[j] + 1
          BY <1>1, <5>1 DEF None
        <5>4. i \in 0..i
          BY <1>1
        <5> HIDE DEF up, nextOf
        <5>5. up[nextOf(j)] = 1 /\ rank[j] > 0
          BY <5>1, <5>2
        <5> QED BY <5>1, <5>2, <5>3, <5>4, <5>5
      <4>3. CASE j # i /\ j # d.tail
        <5>1. j \in 1..n /\ nextOf(j) = d.slots[j].next
          BY <1>1, <2>5, <4>3
        <5>2. d.slots[j].next \in 0..n /\ rank[d.slots[j].next] < rank[j]
              /\ rank[j] \in Nat /\ rank[d.slots[j].next] \in Nat
          <6>1. d.slots[j].next \in 0..n /\ rank[d.slots[j].next] < rank[j] /\ j \in 0..n
            BY <1>1, <2>2, <5>1
          <6> QED BY <1>1, <2>3, <6>1
        <5>3. up[j] = rank[j] + 1
          BY <1>1, <5>1 DEF None
        <5>4. up[d.slots[j].next] = IF d.slots[j].next = None THEN 0 ELSE rank[d.slots[j].next] + 1
          BY <1>1, <5>2 DEF None
        <5>5. d.slots[j].next \in 0..i
          BY <1>1, <5>2
        <5> HIDE DEF up, nextOf
        <5> QED BY <5>1, <5>2, <5>3, <5>4, <5>5
      <4> QED BY <4>1, <4>2, <4>3
    <3> HIDE DEF up, nextOf
    <3>3. Ranks(e, up)
      BY <1>8, <3>1, <3>2 DEF Ranks, Slots
    <3> QED BY <3>3
  <2> QED BY <2>4, <2>5
<1>10. Chained(e)
  BY <1>1, <1>8, <1>9 DEF Chained, None
<1>11. \A j \in Slots(d) : t.slots[j] = d.slots[j] /\ j \in 1..i
  BY <1>1, <1>5
<1>12. Joins(d, e, c, front)
  <2>1. i \in 1..i /\ i \notin Slots(d)
    BY <1>1
  <2>2. \A j \in Slots(d) : e.slots[j].key = d.slots[j].key /\ e.slots[j].next = nextOf(j) /\ j # i
    BY <1>8, <1>11, <2>1
  <2>3. e.slots[i].key = c.key /\ e.slots[i].next = IF front THEN d.head ELSE None
    BY <1>3, <1>5, <1>8, <2>1
  <2>4. e.tail = IF ~front \/ d.tail = None THEN i ELSE d.tail
    BY <1>8
  <2> QED BY <2>2, <2>3, <2>4 DEF Joins, i
<1> QED BY <1>1, <1>2, <1>3, <1>5, <1>8, <1>10, <1>11, <1>12 DEF e, t, i

-----------------------------------------------------------------------------
(* The index, and the way in. *)

(* All but the index is as it was. *)
Reindexed(d, e) ==
    /\ e \in Stores /\ e.slots = d.slots /\ e.head = d.head /\ e.tail = d.tail
    /\ e.nextRef = d.nextRef /\ e.pins = d.pins /\ e.lo = d.lo
    /\ e.mode = d.mode /\ e.way = d.way /\ e.entry = d.entry

(* The index is all that the note of a new clause changes.                 *)
LEMMA IndexedIs ==
    ASSUME NEW d \in Stores, Chained(d), NEW i \in Slots(d), NEW front \in BOOLEAN
    PROVE  Reindexed(d, IxNote(d, i, front))
<1>2. Reindexed(d, d)
  BY DEF Reindexed
<1>3. NoIx \in Indexes
  BY DEF Indexes
<1>4. Reindexed(d, IxBuild(d))
  <2> DEFINE of == [key \in Keys |-> ChainOf(d, key)]
             x == [cap |-> d.cap, of |-> of]
  <2>1. \A key \in Keys : ChainOf(d, key) \in Seq(Nat)
    <3> SUFFICES ASSUME NEW key \in Keys PROVE ChainOf(d, key) \in Seq(Nat)
      OBVIOUS
    <3> DEFINE S == {j \in Slots(d) : d.slots[j].key = key}
    <3>1. PICK rank : Ranks(d, rank)
      BY DEF Chained
    <3>2. Packet(d, S) \in Seq(S \cap Slots(d))
      <4> HIDE DEF S
      <4> QED BY <3>1, PacketIs DEF Chained
    <3>3. S \cap Slots(d) \subseteq Nat
      BY DEF Slots, Stores
    <3> HIDE DEF S
    <3>4. Packet(d, S) \in Seq(Nat)
      BY <3>2, <3>3
    <3> QED BY <3>4 DEF ChainOf, S
  <2>2. of \in [Keys -> Seq(Nat)]
    BY <2>1
  <2> HIDE DEF of
  <2>3. x \in Indexes
    BY <2>2 DEF Indexes, Stores
  <2> HIDE DEF x
  <2>4. Reindexed(d, [d EXCEPT !.ix = x])
    BY <2>3 DEF Reindexed, Stores
  <2>5. Reindexed(d, [d EXCEPT !.ix = NoIx, !.ixOff = TRUE])
    BY <1>3 DEF Reindexed, Stores
  <2> QED BY <2>4, <2>5 DEF IxBuild, of, x
<1>5. ASSUME d.slots[i].key # Var, d.ix # NoIx
      PROVE  Reindexed(d, IxLink(d, i, front))
  <2> DEFINE k == d.slots[i].key
             c == IF front THEN <<i>> \o d.ix.of[k] ELSE Append(d.ix.of[k], i)
             x == [d.ix EXCEPT !.of = [d.ix.of EXCEPT ![k] = c]]
  <2>1. k \in Keys
    BY <1>5, SlotIs DEF SlotRecs
  <2>2. d.ix \in [cap : Nat, of : [Keys -> Seq(Nat)]]
    BY <1>5 DEF Stores, Indexes
  <2>3. d.ix.of[k] \in Seq(Nat) /\ i \in Nat
    BY <2>1, <2>2 DEF Slots, Stores
  <2> HIDE DEF k
  <2>4. c \in Seq(Nat)
    <3>1. <<i>> \in Seq(Nat)
      BY <2>3
    <3> QED BY <2>3, <3>1, ConcatProperties, AppendProperties
  <2>5. IxLink(d, i, front) = [d EXCEPT !.ix = x]
    BY <2>1, <2>2 DEF IxLink, k, Stores
  <2> HIDE DEF c
  <2>6. x \in Indexes
    BY <2>1, <2>2, <2>4 DEF Indexes
  <2> HIDE DEF x
  <2> QED BY <2>5, <2>6 DEF Reindexed, Stores
<1>6. Reindexed(d, [d EXCEPT !.ix = NoIx, !.ixOff = TRUE])
  BY <1>3 DEF Reindexed, Stores
<1> QED BY <1>2, <1>4, <1>5, <1>6 DEF IxNote

(* The clause is stored, linked and indexed, and has no code yet. *)
Bound(d, c, front) == IxNote(Linked(Stored(d, c), NewSlot(d), front), NewSlot(d), front)

(* What storing, linking and indexing a clause amount to.                  *)
LEMMA BoundIs ==
    ASSUME NEW d, StoreInv(d), NEW c \in Clauses, NEW front \in BOOLEAN
    PROVE  LET i == NewSlot(d)
               e == Bound(d, c, front)
           IN  /\ e \in Stores /\ Chained(e) /\ Dated(e)
               /\ Slots(e) = Slots(d) \cup {i} /\ i \notin Slots(d)
               /\ \A j \in Slots(d) : /\ e.slots[j].ref = d.slots[j].ref
                                      /\ e.slots[j].erased = d.slots[j].erased
                                      /\ e.slots[j].code = d.slots[j].code
               /\ e.slots[i].erased = 0 /\ e.slots[i].code = "none"
               /\ e.nextRef = d.nextRef + 1 /\ e.pins = d.pins
               /\ e.mode = d.mode /\ e.way = d.way /\ e.entry = d.entry
               /\ e.head = IF front \/ d.head = None THEN i ELSE d.head
               /\ e.lo = IF front THEN LoAtOldHead(d) ELSE d.lo
<1> DEFINE i == NewSlot(d)
           l == Linked(Stored(d, c), i, front)
           e == Bound(d, c, front)
<1>1. /\ l \in Stores /\ Len(l.slots) = i /\ Chained(l)
      /\ \A j \in Slots(d) : /\ l.slots[j].ref = d.slots[j].ref
                             /\ l.slots[j].erased = d.slots[j].erased
                             /\ l.slots[j].code = d.slots[j].code
      /\ l.slots[i].ref = d.nextRef /\ l.slots[i].erased = 0 /\ l.slots[i].code = "none"
      /\ l.nextRef = d.nextRef + 1 /\ l.pins = d.pins
      /\ l.mode = d.mode /\ l.way = d.way /\ l.entry = d.entry
      /\ l.head = IF front \/ d.head = None THEN i ELSE d.head
      /\ l.lo = IF front THEN LoAtOldHead(d) ELSE d.lo
  BY LinkedIs
<1>2. d \in Stores /\ Len(d.slots) \in Nat /\ i = Len(d.slots) + 1 /\ d.nextRef \in Nat
  BY DEF StoreInv, Stores, NewSlot
<1> HIDE DEF i
<1>3. Slots(l) = Slots(d) \cup {i} /\ i \notin Slots(d) /\ i \in Slots(l)
  BY <1>1, <1>2 DEF Slots
<1> HIDE DEF l
<1>4. Reindexed(l, e)
  BY <1>1, <1>3, IndexedIs DEF Bound, i, l
<1> HIDE DEF e
<1>5. Slots(e) = Slots(l) /\ Chained(e)
  BY <1>1, <1>4 DEF Reindexed, Slots, Chained, Ranks
<1>6. Dated(e)
  <2> SUFFICES ASSUME NEW j \in Slots(e)
               PROVE  /\ e.slots[j].ref < e.nextRef /\ e.slots[j].erased < e.nextRef
                      /\ e.slots[j].code = "gone" => Erased(e, j)
    BY DEF Dated
  <2>1. CASE j = i
    BY <1>1, <1>2, <1>4, <2>1 DEF Reindexed
  <2>2. CASE j # i
    <3>1. j \in Slots(d) /\ d.slots[j].ref \in Nat /\ d.slots[j].erased \in Nat
      BY <1>2, <1>3, <1>5, <2>2, SlotIs
    <3>2. /\ d.slots[j].ref < d.nextRef /\ d.slots[j].erased < d.nextRef
          /\ d.slots[j].code = "gone" => d.slots[j].erased # 0
      BY <3>1 DEF Dated, StoreInv, Erased
    <3>3. /\ e.slots[j].ref = d.slots[j].ref /\ e.slots[j].erased = d.slots[j].erased
          /\ e.slots[j].code = d.slots[j].code /\ e.nextRef = d.nextRef + 1
      BY <1>1, <1>4, <3>1 DEF Reindexed
    <3> QED BY <1>2, <3>1, <3>2, <3>3 DEF Erased
  <2> QED BY <2>1, <2>2
<1> QED BY <1>1, <1>3, <1>4, <1>5, <1>6 DEF Reindexed, i, e

(* A clause that comes leaves the store in order, and takes nothing. (The  *)
(* first rule is not asserted behind an erased head: with it the code is   *)
(* entered at a clause that is not the head.)                              *)
LEMMA PlacedKeeps ==
    ASSUME NEW d, StoreInv(d), NEW c \in Clauses, NEW front \in BOOLEAN,
           ~(c.rule /\ d.mode # "code" /\ HeadDead(d) /\ ~front)
    PROVE  LET e == Place(Bound(d, c, front), NewSlot(d), c.rule)
           IN  /\ StoreInv(e) /\ Grows(d, e) /\ NewSlot(d) \in Slots(e)
               /\ e.nextRef = d.nextRef + 1 /\ e.pins = d.pins
               /\ Recoded(Bound(d, c, front), e)
               /\ \/ e.mode = "code" /\ e.way = "code"
                  \/ e.mode = "data" /\ (IF d.mode = "data" THEN e.way = d.way ELSE e.way = "data")
<1> DEFINE i == NewSlot(d)
           s == Bound(d, c, front)
           e == Place(s, i, c.rule)
<1>1. /\ s \in Stores /\ Chained(s) /\ Dated(s)
      /\ Slots(s) = Slots(d) \cup {i} /\ i \notin Slots(d)
      /\ \A j \in Slots(d) : /\ s.slots[j].ref = d.slots[j].ref
                             /\ s.slots[j].erased = d.slots[j].erased
                             /\ s.slots[j].code = d.slots[j].code
      /\ s.slots[i].erased = 0 /\ s.slots[i].code = "none"
      /\ s.nextRef = d.nextRef + 1 /\ s.pins = d.pins
      /\ s.mode = d.mode /\ s.way = d.way /\ s.entry = d.entry
      /\ s.head = IF front \/ d.head = None THEN i ELSE d.head
      /\ s.lo = IF front THEN LoAtOldHead(d) ELSE d.lo
  BY BoundIs
<1>2. d \in Stores /\ d.lo \in Nat /\ d.head \in Nat /\ EntersAtHead(d)
      /\ (d.head # None => d.head \in Slots(d))
  BY DEF StoreInv, Stores, Chained, Slots, None
<1> HIDE DEF i, s
<1>3. s.head # None /\ s.head \in Slots(s) /\ (s.head = i \/ (s.head = d.head /\ ~front))
  <2>1. i # None
    BY <1>2 DEF NewSlot, None, Stores, i
  <2>2. CASE front \/ d.head = None
    <3>1. s.head = i /\ i \in Slots(s)
      BY <1>1, <2>2
    <3> QED BY <2>1, <3>1
  <2>3. CASE ~(front \/ d.head = None)
    BY <1>1, <1>2, <2>3
  <2> QED BY <2>2, <2>3
<1>4. CASE d.mode # "code" /\ ~c.rule
  <2> DEFINE w == IF s.mode = "data" THEN s.way ELSE "data"
  <2>1. e = [s EXCEPT !.mode = "data", !.way = w]
    BY <1>1, <1>4 DEF Place, Stores
  <2>2. w \in {"none", "data", "code", "absent"} /\ w # "code"
    BY <1>1, <1>2, <1>4 DEF EntersAtHead, Stores
  <2> HIDE DEF w, e
  <2>3. e \in Stores /\ e.slots = s.slots /\ e.head = s.head /\ e.tail = s.tail
        /\ e.nextRef = s.nextRef /\ e.pins = s.pins /\ e.mode = "data" /\ e.way = w
        /\ e.entry = s.entry /\ e.ix = s.ix /\ e.ixOff = s.ixOff
    BY <1>1, <2>1, <2>2 DEF Stores
  <2>4. Slots(e) = Slots(s) /\ Chained(e) /\ Dated(e)
    <3>1. Slots(e) = Slots(s)
      BY ONLY <1>1, <2>3 DEF Slots
    <3>2. Chained(e)
      BY ONLY <1>1, <2>3 DEF Slots, Chained, Ranks
    <3>3. Dated(e)
      BY ONLY <1>1, <2>3 DEF Slots, Dated, Erased
    <3> QED BY ONLY <3>1, <3>2, <3>3
  <2>5. d.entry = None /\ \A j \in Slots(e) : e.slots[j].code = "none"
    BY <1>1, <1>2, <1>4, <2>3, <2>4 DEF EntersAtHead
  <2>6. EntersAtHead(e) /\ ScanSees(e)
    BY <1>1, <2>2, <2>3, <2>5 DEF EntersAtHead, ScanSees
  <2>7. Grows(d, e)
    BY <1>1, <1>4, <2>3, <2>4, <2>5 DEF Grows
  <2>8. Recoded(s, e)
    BY <2>3 DEF Recoded
  <2>9. IF d.mode = "data" THEN e.way = d.way ELSE e.way = "data"
    BY <1>1, <2>3 DEF w
  <2> QED BY <1>1, <2>3, <2>4, <2>6, <2>7, <2>8, <2>9 DEF StoreInv, e, s, i
<1>5. CASE d.mode # "code" /\ c.rule
  <2> DEFINE t == [s EXCEPT !.mode = "code"]
             f == Fragment(t, i)
             k == s.head
             h == Ensure(f, k)
  <2>1. t \in Stores /\ t.slots = s.slots /\ t.head = k /\ t.tail = s.tail
        /\ t.nextRef = s.nextRef /\ t.pins = s.pins /\ t.mode = "code"
        /\ t.ix = s.ix /\ t.ixOff = s.ixOff
    BY <1>1 DEF Stores
  <2> HIDE DEF t
  <2>2. Slots(t) = Slots(s) /\ Chained(t) /\ Dated(t)
        /\ \A j \in Slots(s) : Erased(t, j) <=> Erased(s, j)
    <3>1. Slots(t) = Slots(s)
      BY ONLY <1>1, <2>1 DEF Slots
    <3>2. Chained(t)
      BY ONLY <1>1, <2>1 DEF Slots, Chained, Ranks
    <3>3. Dated(t) /\ \A j \in Slots(s) : Erased(t, j) <=> Erased(s, j)
      BY ONLY <1>1, <2>1 DEF Slots, Dated, Erased
    <3> QED BY ONLY <3>1, <3>2, <3>3
  <2>3. /\ ~Erased(s, i) /\ ~Erased(s, k) /\ k \in Slots(s) /\ k # None
        /\ \A j \in Slots(s) : s.slots[j].code = "none"
    BY <1>1, <1>2, <1>3, <1>5 DEF Erased, HeadDead, EntersAtHead
  <2>4. /\ Recoded(t, f) /\ f.mode = "code"
        /\ \A j \in Slots(t) \ {i} : f.slots[j].code = t.slots[j].code
        /\ f.slots[i].code = "live"
    BY <1>1, <2>1, <2>2, <2>3, FragmentIs
  <2> HIDE DEF f, k
  <2>5. /\ f \in Stores /\ Slots(f) = Slots(s) /\ Chained(f) /\ f.head = k
        /\ \A j \in Slots(s) : Erased(f, j) <=> Erased(s, j)
    BY <2>1, <2>2, <2>4, RecodedKeeps DEF Recoded
  <2>6. Live(f)[1] = k
    <3> DEFINE S == {j \in Slots(f) : ~Erased(f, j)}
    <3>1. PICK rank : Ranks(f, rank)
      BY <2>5 DEF Chained
    <3>2. k \in S /\ f.head \in 0..Len(f.slots)
      BY <2>3, <2>5 DEF Chained
    <3> HIDE DEF S
    <3>3. Packet(f, S)[1] = k
      BY <2>3, <2>5, <3>1, <3>2, PacketIs
    <3> QED BY <3>3 DEF Live, S
  <2>7. /\ Recoded(f, h) /\ h.mode = "code" /\ h.slots[k].code = "live"
        /\ \A j \in Slots(s) \ {k} : h.slots[j].code = f.slots[j].code
    <3>1. CASE k = i
      <4>1. h = f
        BY <2>4, <3>1 DEF Ensure
      <4> HIDE DEF h
      <4> QED BY <2>4, <2>5, <3>1, <4>1 DEF Recoded
    <3>2. CASE k # i
      <4>1. f.slots[k].code = "none"
        BY <2>1, <2>2, <2>3, <2>4, <3>2
      <4>2. h = Fragment(f, k)
        BY <2>3, <4>1 DEF Ensure
      <4> HIDE DEF h
      <4> QED BY <2>3, <2>4, <2>5, <4>2, FragmentIs
    <3> QED BY <3>1, <3>2
  <2> HIDE DEF h
  <2>8. e = [h EXCEPT !.way = "code", !.entry = k]
    BY <1>1, <1>5, <2>6 DEF Place, InstallFirst, h, f, t
  <2> HIDE DEF e
  <2>9. /\ h \in Stores /\ Slots(h) = Slots(s) /\ Chained(h) /\ h.head = k
        /\ \A j \in Slots(s) : Erased(h, j) <=> Erased(s, j)
    BY <2>5, <2>7, RecodedKeeps DEF Recoded
  <2>10. /\ e \in Stores /\ e.slots = h.slots /\ e.head = h.head /\ e.tail = h.tail
         /\ e.nextRef = h.nextRef /\ e.pins = h.pins /\ e.mode = "code" /\ e.way = "code"
         /\ e.entry = k /\ e.ix = h.ix /\ e.ixOff = h.ixOff
    <3>1. k \in Nat
      BY <1>1 DEF k, Stores
    <3> QED BY <2>7, <2>8, <2>9, <3>1 DEF Stores
  <2>11. Slots(e) = Slots(s) /\ Chained(e) /\ \A j \in Slots(s) : Erased(e, j) <=> Erased(s, j)
    BY <2>9, <2>10 DEF Slots, Chained, Ranks, Erased
  <2>12. \A j \in Slots(s) : e.slots[j].code = IF j \in {i, k} THEN "live" ELSE "none"
    BY <1>1, <2>1, <2>2, <2>3, <2>4, <2>7, <2>10
  <2>13. e.nextRef = s.nextRef /\ e.pins = s.pins
         /\ \A j \in Slots(s) : e.slots[j].ref = s.slots[j].ref /\ e.slots[j].erased = s.slots[j].erased
    BY <2>1, <2>2, <2>4, <2>5, <2>7, <2>10 DEF Recoded
  <2>14. Dated(e)
    BY <1>1, <2>11, <2>12, <2>13 DEF Dated
  <2>15. EntersAtHead(e)
    BY <2>3, <2>9, <2>10, <2>12 DEF EntersAtHead, HasCode
  <2>16. ScanSees(e)
    BY <2>3, <2>10, <2>11, <2>12 DEF ScanSees, Candidate, HasCode
  <2>17. Grows(d, e)
    BY <1>1, <2>10, <2>11, <2>12, <2>13 DEF Grows
  <2>18. Recoded(s, e)
    <3>1. Recoded(s, t)
      BY <2>1 DEF Recoded, k
    <3>2. Recoded(h, e)
      BY <2>10 DEF Recoded
    <3> QED BY <2>4, <2>7, <3>1, <3>2, RecodedOn
  <2> QED BY <1>1, <2>10, <2>11, <2>13, <2>14, <2>15, <2>16, <2>17, <2>18 DEF StoreInv, e, s, i
<1>6. CASE d.mode = "code"
  <2>1. e = Fragment(s, i)
    BY <1>1, <1>6 DEF Place
  <2>2. /\ Recoded(s, e) /\ e.mode = s.mode /\ e.lo = s.lo
        /\ \A j \in Slots(s) \ {i} : e.slots[j].code = s.slots[j].code
        /\ e.slots[i].code = "live"
        /\ IF e.slots[s.head].code # "none" THEN e.way = "code" /\ e.entry = s.head
           ELSE e.way = s.way /\ e.entry = s.entry
    BY <1>1, <2>1, FragmentIs DEF Erased
  <2> HIDE DEF e
  <2>3. Slots(e) = Slots(s) /\ Chained(e) /\ \A j \in Slots(s) : Erased(e, j) <=> Erased(s, j)
    BY <1>1, <2>2, RecodedKeeps
  <2>4. d.entry = d.head /\ d.head # None /\ HasCode(d, d.head) /\ d.head \in Slots(d)
    BY <1>2, <1>6 DEF EntersAtHead
  <2>5. HasCode(e, s.head) /\ e.entry = s.head /\ e.way = "code"
    BY <1>1, <1>3, <2>2, <2>4 DEF HasCode
  <2>6. EntersAtHead(e)
    BY <1>1, <1>3, <1>6, <2>2, <2>5 DEF EntersAtHead, Recoded
  <2>7. Dated(e)
    <3>1. \A j \in Slots(s) : e.slots[j].code = "gone" => s.slots[j].code = "gone"
      BY <1>1, <2>2
    <3> QED BY <1>1, <2>2, <3>1, DatedAgain
  <2>8. ScanSees(e)
    <3> SUFFICES ASSUME NEW j \in Slots(e), Candidate(e, j), e.slots[j].code = "live"
                 PROVE  j >= e.lo
      BY DEF ScanSees
    <3>1. j \in Slots(d) /\ Erased(d, j) /\ d.slots[j].code = "live" /\ j # s.head
      BY <1>1, <2>2, <2>3 DEF Candidate, Erased, Recoded
    <3>2. j \in Nat /\ e.lo = IF front THEN LoAtOldHead(d) ELSE d.lo
      BY <1>1, <1>2, <2>2, <3>1 DEF Slots, Stores
    <3>3. CASE j = d.head
      BY <1>1, <1>2, <2>4, <3>1, <3>2, <3>3 DEF LoAtOldHead
    <3>4. CASE j # d.head
      <4>1. j >= d.lo
        BY <2>4, <3>1, <3>4 DEF StoreInv, ScanSees, Candidate, HasCode
      <4> QED BY <1>2, <3>2, <4>1 DEF LoAtOldHead
    <3> QED BY <3>3, <3>4
  <2>9. Grows(d, e)
    BY <1>1, <2>2, <2>3 DEF Grows, Recoded
  <2> QED BY <1>1, <1>6, <2>2, <2>3, <2>5, <2>6, <2>7, <2>8, <2>9 DEF StoreInv, Recoded, e, s, i
<1> QED BY <1>4, <1>5, <1>6

-----------------------------------------------------------------------------
(* Erasing. *)

(* The times of the clause at slot i are as any goal that began no later   *)
(* than m has them, if it is erased now.                                   *)
Stays(d, i, m) == d.slots[i].erased = 0 \/ d.slots[i].erased >= m

(* Only the times of erasure, and what counts them, differ; no goal that   *)
(* began by m sees it.                                                     *)
Unseen(d, e, m) ==
    /\ StoreInv(e) /\ Len(e.slots) = Len(d.slots) /\ e.nextRef = d.nextRef
    /\ e.mode = d.mode /\ e.way = d.way
    /\ \A j \in Slots(d) : /\ e.slots[j].code = d.slots[j].code
                           /\ e.slots[j].ref = d.slots[j].ref
                           /\ e.slots[j].erased = d.slots[j].erased
                              \/ (Stays(d, j, m) /\ Stays(e, j, m))

(* An erasure no goal sees leaves goals and logs with their code.          *)
LEMMA UnseenServes ==
    ASSUME NEW d, NEW m \in Nat, NEW e, d \in Stores, Unseen(d, e, m)
    PROVE  /\ \A gs : GoalsServed(d, gs, m) => GoalsServed(e, gs, m)
           /\ \A log : LogSpares(d, log) => LogSpares(e, log)
<1>1. Slots(e) = Slots(d) /\ e \in Stores
  BY DEF Unseen, Slots, StoreInv
<1>2. ASSUME NEW gs, GoalsServed(d, gs, m) PROVE GoalsServed(e, gs, m)
  <2> SUFFICES ASSUME NEW n \in 1..Len(gs), gs[n].code PROVE GoalIsServed(e, gs[n], m)
    BY DEF GoalsServed, GoalIsServed
  <2> DEFINE g == gs[n]
  <2>1. /\ d.mode = "code" /\ g.gen \in Nat /\ g.gen <= m
        /\ g.at \in Slots(d) /\ Visible(d.slots[g.at], g.gen) /\ Spares(d, g.gen)
    BY <1>2 DEF GoalsServed, GoalIsServed
  <2> HIDE DEF g
  <2>2. ASSUME NEW j \in Slots(d)
        PROVE  Visible(e.slots[j], g.gen) <=> Visible(d.slots[j], g.gen)
    <3>1. /\ e.slots[j].ref = d.slots[j].ref
          /\ d.slots[j].erased \in Nat /\ e.slots[j].erased \in Nat
          /\ e.slots[j].erased = d.slots[j].erased \/ (Stays(d, j, m) /\ Stays(e, j, m))
      BY <1>1, SlotIs DEF Unseen
    <3>2. Stays(d, j, m) => d.slots[j].erased = 0 \/ d.slots[j].erased >= g.gen
      BY <2>1, <3>1 DEF Stays
    <3>3. Stays(e, j, m) => e.slots[j].erased = 0 \/ e.slots[j].erased >= g.gen
      BY <2>1, <3>1 DEF Stays
    <3> QED BY <3>1, <3>2, <3>3 DEF Visible
  <2>3. Spares(e, g.gen)
    BY <1>1, <2>1, <2>2 DEF Spares, Unseen
  <2> QED BY <1>1, <2>1, <2>2, <2>3 DEF GoalIsServed, g, Unseen
<1>3. ASSUME NEW log, LogSpares(d, log) PROVE LogSpares(e, log)
  BY <1>1, <1>3 DEF LogSpares, Unseen
<1> QED BY <1>2, <1>3

(* Two steps no goal sees are one.                                         *)
LEMMA UnseenOn ==
    ASSUME NEW a \in Stores, NEW b \in Stores, NEW c \in Stores, NEW m \in Nat,
           Unseen(a, b, m), Unseen(b, c, m)
    PROVE  Unseen(a, c, m)
<1>1. Slots(b) = Slots(a)
  BY DEF Unseen, Slots
<1>2. ASSUME NEW j \in Slots(a)
      PROVE  /\ c.slots[j].code = a.slots[j].code
             /\ c.slots[j].ref = a.slots[j].ref
             /\ c.slots[j].erased = a.slots[j].erased \/ (Stays(a, j, m) /\ Stays(c, j, m))
  BY <1>1 DEF Unseen, Stays
<1> QED BY <1>2 DEF Unseen

(* A clause erased now, at a time no goal began after. *)
Noted(d, i, gen, p) == [NoteErase(d, i, gen) EXCEPT !.pins = p]

(* What the note of an erasure changes.                                    *)
LEMMA NotedIs ==
    ASSUME NEW d \in Stores, NEW i \in Slots(d), NEW gen \in Nat, NEW p \in Nat
    PROVE  LET e == Noted(d, i, gen, p)
           IN  /\ e \in Stores /\ Len(e.slots) = Len(d.slots)
               /\ \A j \in Slots(d) : /\ e.slots[j].ref = d.slots[j].ref
                                      /\ e.slots[j].next = d.slots[j].next
                                      /\ e.slots[j].code = d.slots[j].code
                                      /\ e.slots[j].key = d.slots[j].key
                                      /\ e.slots[j].erased = IF j = i THEN gen ELSE d.slots[j].erased
               /\ e.head = d.head /\ e.tail = d.tail /\ e.nextRef = d.nextRef /\ e.mode = d.mode
               /\ e.way = d.way /\ e.entry = d.entry /\ e.pins = p
               /\ e.lo = IF i < d.lo THEN i ELSE d.lo
               /\ e.ix = d.ix /\ e.ixOff = d.ixOff
<1> DEFINE r == [d.slots[i] EXCEPT !.erased = gen]
           u == [d.slots EXCEPT ![i] = r]
           lo == IF i < d.lo THEN i ELSE d.lo
           c == d.since + 1
           e == [d EXCEPT !.slots = u, !.since = c, !.lo = lo, !.pins = p]
<1>1. Noted(d, i, gen, p) = e
  BY DEF Noted, NoteErase, Stores
<1>2. d.slots \in Seq(SlotRecs) /\ i \in 1..Len(d.slots) /\ i \in Nat /\ d.slots[i] \in SlotRecs
  BY SlotIs DEF Stores, Slots
<1>3. /\ r \in SlotRecs /\ r.erased = gen /\ r.ref = d.slots[i].ref
      /\ r.next = d.slots[i].next /\ r.code = d.slots[i].code /\ r.key = d.slots[i].key
  BY <1>2 DEF SlotRecs
<1> HIDE DEF r
<1>4. u \in Seq(SlotRecs) /\ Len(u) = Len(d.slots) /\ u[i] = r
      /\ \A j \in 1..Len(d.slots) : j # i => u[j] = d.slots[j]
  BY <1>2, <1>3
<1>5. lo \in Nat /\ c \in Nat
  BY <1>2 DEF Stores
<1> HIDE DEF u, lo, c
<1>6. /\ e \in Stores /\ e.slots = u
      /\ e.head = d.head /\ e.tail = d.tail /\ e.nextRef = d.nextRef /\ e.mode = d.mode
      /\ e.way = d.way /\ e.entry = d.entry /\ e.pins = p /\ e.lo = lo
      /\ e.ix = d.ix /\ e.ixOff = d.ixOff
  BY <1>4, <1>5 DEF Stores
<1> HIDE DEF e
<1>7. ASSUME NEW j \in Slots(d)
      PROVE  /\ u[j].ref = d.slots[j].ref /\ u[j].next = d.slots[j].next
             /\ u[j].code = d.slots[j].code /\ u[j].key = d.slots[j].key
             /\ u[j].erased = IF j = i THEN gen ELSE d.slots[j].erased
  <2>1. CASE j = i
    BY <1>3, <1>4, <2>1
  <2>2. CASE j # i
    BY <1>4, <2>2 DEF Slots
  <2> QED BY <2>1, <2>2
<1> QED BY <1>1, <1>4, <1>6, <1>7 DEF lo

(* An erasure dated at or after m is not seen by goals begun before m.     *)
LEMMA NotedKeeps ==
    ASSUME NEW d, StoreInv(d), NEW i \in Slots(d), NEW m \in Nat,
           Stays(d, i, m), NEW gen \in Nat, gen # 0, m <= gen, gen < d.nextRef, NEW p \in Nat
    PROVE  LET e == Noted(d, i, gen, p)
           IN  Unseen(d, e, m) /\ e.pins = p
<1> DEFINE e == Noted(d, i, gen, p)
<1>1. d \in Stores /\ i \in Nat /\ d.lo \in Nat /\ Slots(d) \subseteq Nat
  BY DEF StoreInv, Stores, Slots
<1>2. /\ e \in Stores /\ Len(e.slots) = Len(d.slots)
      /\ \A j \in Slots(d) : /\ e.slots[j].ref = d.slots[j].ref
                             /\ e.slots[j].next = d.slots[j].next
                             /\ e.slots[j].code = d.slots[j].code
                             /\ e.slots[j].key = d.slots[j].key
                             /\ e.slots[j].erased = IF j = i THEN gen ELSE d.slots[j].erased
      /\ e.head = d.head /\ e.tail = d.tail /\ e.nextRef = d.nextRef /\ e.mode = d.mode
      /\ e.way = d.way /\ e.entry = d.entry /\ e.pins = p
      /\ e.lo = IF i < d.lo THEN i ELSE d.lo
      /\ e.ix = d.ix /\ e.ixOff = d.ixOff
  BY <1>1, NotedIs
<1> HIDE DEF e
<1>3. Slots(e) = Slots(d) /\ Chained(e)
  BY <1>2 DEF StoreInv, Slots, Chained, Ranks
<1>4. Dated(e)
  BY <1>2, <1>3 DEF Dated, StoreInv, Erased
<1>5. EntersAtHead(e)
  <2>1. \A j \in Slots(d) : e.slots[j].code = d.slots[j].code /\ (HasCode(e, j) <=> HasCode(d, j))
    BY ONLY <1>2 DEF HasCode
  <2>2. d.head # None => d.head \in Slots(d)
    BY DEF StoreInv, Chained, Slots, None
  <2>3. EntersAtHead(d)
    BY DEF StoreInv
  <2>4. CASE d.mode = "code"
    BY ONLY <1>2, <2>1, <2>2, <2>3, <2>4 DEF EntersAtHead
  <2>5. CASE d.mode # "code"
    BY ONLY <1>2, <1>3, <2>1, <2>3, <2>5 DEF EntersAtHead
  <2> QED BY ONLY <2>4, <2>5
<1>6. ScanSees(e)
  <2> SUFFICES ASSUME NEW j \in Slots(d), Candidate(e, j), e.slots[j].code = "live"
               PROVE  j >= e.lo
    BY <1>3 DEF ScanSees
  <2>1. CASE j = i
    BY <1>1, <1>2, <2>1
  <2>2. CASE j # i
    <3>1. j >= d.lo
      BY <1>2, <2>2 DEF StoreInv, ScanSees, Candidate, Erased, HasCode
    <3> QED BY <1>1, <1>2, <3>1
  <2> QED BY <2>1, <2>2
<1>7. \A j \in Slots(d) : e.slots[j].erased = d.slots[j].erased \/ (Stays(d, j, m) /\ Stays(e, j, m))
  BY <1>2 DEF Stays
<1>8. StoreInv(e)
  BY <1>2, <1>3, <1>4, <1>5, <1>6 DEF StoreInv
<1> QED BY <1>2, <1>7, <1>8 DEF Unseen, e

(* To erase a slot notes it and, in a transaction, pins the code.          *)
LEMMA EraseSlotIs ==
    ASSUME NEW d \in Stores, NEW i \in Slots(d), NEW gen \in Nat
    PROVE  EraseSlot(d, i, gen) = Noted(d, i, gen, IF txs = <<>> THEN d.pins ELSE d.pins + 1)
           /\ (IF txs = <<>> THEN d.pins ELSE d.pins + 1) \in Nat
<1>1. NoteErase(d, i, gen).pins = d.pins
  BY DEF NoteErase, Stores
<1>2. d.pins \in Nat
  BY DEF Stores
<1> QED BY <1>1, <1>2 DEF EraseSlot, Noted

(* The clauses in J were erased, m or later; the others are as they were.  *)
Marked(d, e, J, m) ==
    /\ Kin(d, e)
    /\ \A j \in Slots(d) : /\ j \in J => e.slots[j].erased # 0 /\ e.slots[j].erased >= m
                           /\ j \notin J => e.slots[j].erased = d.slots[j].erased

(* One more erasure, one more slot marked.                                 *)
LEMMA MarkedOn ==
    ASSUME NEW d, NEW x \in Stores, NEW J, NEW m, Marked(d, x, J, m),
           NEW i \in Slots(x), NEW gen \in Nat, gen # 0, m <= gen, m \in Nat, NEW p \in Nat
    PROVE  Marked(d, Noted(x, i, gen, p), J \cup {i}, m)
<1> DEFINE e == Noted(x, i, gen, p)
<1>1. /\ e \in Stores /\ Len(e.slots) = Len(x.slots)
      /\ \A j \in Slots(x) : /\ e.slots[j].ref = x.slots[j].ref
                             /\ e.slots[j].next = x.slots[j].next
                             /\ e.slots[j].key = x.slots[j].key
                             /\ e.slots[j].erased = IF j = i THEN gen ELSE x.slots[j].erased
      /\ e.head = x.head /\ e.tail = x.tail /\ e.ix = x.ix /\ e.ixOff = x.ixOff
  BY NotedIs
<1> HIDE DEF e
<1>2. Kin(x, e) /\ Slots(x) = Slots(d)
  BY <1>1 DEF Kin, Marked, Slots
<1>3. Kin(d, e)
  BY <1>2, KinOn DEF Marked
<1>4. gen >= m
  OBVIOUS
<1> QED BY <1>1, <1>2, <1>3, <1>4 DEF Marked, e

(* A row of erasures marks its slots, pins each, and no goal sees it.      *)
LEMMA EraseEachKeeps ==
    ASSUME NEW d, StoreInv(d), NEW m \in Nat, NEW seq \in Seq(Slots(d)), NEW gens,
           \A n \in 1..Len(seq) : Stays(d, seq[n], m),
           \A n \in 1..Len(seq) : gens[n] \in Nat /\ gens[n] # 0 /\ m <= gens[n] /\ gens[n] < d.nextRef
    PROVE  LET e == EraseEach(d, seq, gens)
           IN  /\ Unseen(d, e, m) /\ Marked(d, e, {seq[n] : n \in 1..Len(seq)}, m)
               /\ e.pins = IF txs = <<>> THEN d.pins ELSE d.pins + Len(seq)
<1> DEFINE l == Len(seq)
           J(k) == {seq[n] : n \in 1..k}
           S == [k \in 0..l |-> {e \in Stores : Unseen(d, e, m) /\ Marked(d, e, J(k), m)
                                    /\ e.pins = IF txs = <<>> THEN d.pins ELSE d.pins + k}]
           step == [k \in 1..l |-> [x \in Stores |-> EraseSlot(x, seq[k], gens[k])]]
           IsTrace(f) == f = [n \in 0..l |-> IF n = 0 THEN d ELSE EraseSlot(f[n - 1], seq[n], gens[n])]
           w == CHOOSE f : IsTrace(f)
<1>1. l \in Nat /\ d \in Stores /\ d.pins \in Nat
  BY DEF StoreInv, Stores
<1>2. d \in S[0]
  <2>1. Unseen(d, d, m)
    BY DEF Unseen
  <2>2. J(0) = {}
    OBVIOUS
  <2> HIDE DEF J
  <2>3. Marked(d, d, J(0), m)
    BY <1>1, <2>2 DEF Marked, Kin
  <2> QED BY <1>1, <2>1, <2>3
<1>3. ASSUME NEW k \in 1..l, NEW x \in S[k - 1]
      PROVE  x \in Stores /\ EraseSlot(x, seq[k], gens[k]) \in S[k]
  <2> DEFINE i == seq[k]
             p == IF txs = <<>> THEN x.pins ELSE x.pins + 1
             e == Noted(x, i, gens[k], p)
  <2> HIDE DEF J
  <2>1. x \in Stores /\ Unseen(d, x, m) /\ Marked(d, x, J(k - 1), m)
        /\ x.pins = IF txs = <<>> THEN d.pins ELSE d.pins + (k - 1)
    BY <1>1
  <2>2. i \in Slots(d) /\ Slots(x) = Slots(d) /\ StoreInv(x)
    BY <2>1 DEF Unseen, Slots
  <2>3. Stays(x, i, m)
    <3>1. Stays(d, i, m)
      OBVIOUS
    <3> QED BY <2>1, <2>2, <3>1 DEF Unseen, Stays
  <2>4. gens[k] \in Nat /\ gens[k] # 0 /\ m <= gens[k] /\ gens[k] < x.nextRef
    BY <2>1 DEF Unseen
  <2>5. EraseSlot(x, i, gens[k]) = e /\ p \in Nat
    BY <2>1, <2>2, <2>4, EraseSlotIs
  <2> HIDE DEF i, p
  <2>6. Unseen(x, e, m) /\ e.pins = p
    BY <2>2, <2>3, <2>4, <2>5, NotedKeeps
  <2>11. Marked(d, e, J(k), m)
    <3>1. Marked(d, e, J(k - 1) \cup {i}, m)
      BY <2>1, <2>2, <2>4, <2>5, MarkedOn
    <3>2. J(k) = J(k - 1) \cup {i}
      BY <1>1 DEF J, i
    <3> QED BY <3>1, <3>2
  <2> HIDE DEF e
  <2>7. e \in Stores
    BY <2>6 DEF Unseen, StoreInv
  <2>8. Unseen(d, e, m)
    BY <1>1, <2>1, <2>6, <2>7, UnseenOn
  <2>9. p = IF txs = <<>> THEN d.pins ELSE d.pins + k
    BY <1>1, <2>1 DEF p
  <2>10. e \in S[k]
    BY <1>1, <2>6, <2>7, <2>8, <2>9, <2>11
  <2> QED BY <2>1, <2>5, <2>10 DEF i
<1>4. Leads(step, l, S)
  <2> HIDE DEF S, l
  <2> QED BY <1>3 DEF Leads
<1>5. \E f : IsTrace(f)
  <2>1. PICK f : Computed(f, l, step, d) /\ Within(f, l, S)
    <3> HIDE DEF S, l, step
    <3> QED BY <1>1, <1>2, <1>4, StepsExist
  <2>2. \A k \in 1..l : step[k][f[k - 1]] = EraseSlot(f[k - 1], seq[k], gens[k])
    <3> SUFFICES ASSUME NEW k \in 1..l
                 PROVE  step[k][f[k - 1]] = EraseSlot(f[k - 1], seq[k], gens[k])
      OBVIOUS
    <3>1. f[k - 1] \in S[k - 1]
      <4>1. k - 1 \in 0..l
        BY <1>1
      <4> HIDE DEF S, l
      <4> QED BY <2>1, <4>1 DEF Within
    <3>2. f[k - 1] \in Stores
      <4> HIDE DEF S, l
      <4> QED BY <1>3, <3>1
    <3> QED BY <3>2
  <2> HIDE DEF step
  <2>3. [k \in 0..l |-> IF k = 0 THEN d ELSE step[k][f[k - 1]]] =
        [k \in 0..l |-> IF k = 0 THEN d ELSE EraseSlot(f[k - 1], seq[k], gens[k])]
    <3>1. \A k \in 0..l : k = 0 \/ k \in 1..l
      BY <1>1
    <3> HIDE DEF l
    <3> QED BY <2>2, <3>1
  <2>4. IsTrace(f)
    BY <2>1, <2>3 DEF Computed
  <2> QED BY <2>4
<1>6. IsTrace(w)
  <2> HIDE DEF IsTrace
  <2> QED BY <1>5
<1> HIDE DEF w
<1>7. Within(w, l, S)
  <2>1. w[0] = d /\ \A k \in 1..l : w[k] = EraseSlot(w[k - 1], seq[k], gens[k])
    BY <1>1, <1>6
  <2> HIDE DEF S, l, IsTrace
  <2>2. \A k \in 1..l : w[k - 1] \in S[k - 1] => w[k] \in S[k]
    BY <1>3, <2>1
  <2> QED BY <1>1, <1>2, <2>1, <2>2, StepsStay
<1>8. EraseEach(d, seq, gens) = w[l]
  BY DEF EraseEach, w
<1>9. w[l] \in {e \in Stores : Unseen(d, e, m) /\ Marked(d, e, J(l), m)
                    /\ e.pins = IF txs = <<>> THEN d.pins ELSE d.pins + l}
  <2>1. l \in 0..l
    BY <1>1
  <2> HIDE DEF J, l
  <2> QED BY <1>7, <2>1 DEF Within
<1> QED BY <1>8, <1>9

(* Those of a sequence that lie in S are all in S. *)
LEMMA OnlyIs ==
    ASSUME NEW s, Len(s) \in Nat, NEW V
    PROVE  Only(s, V) \in Seq(V)
<1> DEFINE l == Len(s)
           S == [k \in 0..l |-> Seq(V)]
           step == [k \in 1..l |-> [x \in Seq(V) |-> IF s[k] \in V THEN Append(x, s[k]) ELSE x]]
           IsTrace(f) == f = [n \in 0..l |-> IF n = 0 THEN <<>>
                                             ELSE IF s[n] \in V THEN Append(f[n - 1], s[n]) ELSE f[n - 1]]
           w == CHOOSE f : IsTrace(f)
<1>1. l \in Nat /\ \A k \in 0..l : S[k] = Seq(V)
  OBVIOUS
<1>2. <<>> \in S[0]
  <2>1. <<>> \in Seq(V)
    OBVIOUS
  <2>2. 0 \in 0..l
    OBVIOUS
  <2> HIDE DEF S, l
  <2>3. S[0] = Seq(V)
    BY <1>1, <2>2
  <2> QED BY <2>1, <2>3
<1>3. \A k \in 1..l : \A x \in S[k - 1] : step[k][x] \in S[k] /\ x \in Seq(V)
  <2> SUFFICES ASSUME NEW k \in 1..l, NEW x \in S[k - 1] PROVE step[k][x] \in S[k] /\ x \in Seq(V)
    OBVIOUS
  <2>1. x \in Seq(V) /\ S[k] = Seq(V)
    <3>1. k \in 0..l /\ k - 1 \in 0..l
      BY <1>1
    <3> HIDE DEF S, l
    <3> QED BY <1>1, <3>1
  <2>2. step[k][x] = IF s[k] \in V THEN Append(x, s[k]) ELSE x
    BY <2>1
  <2> HIDE DEF step, S
  <2>3. s[k] \in V => Append(x, s[k]) \in Seq(V)
    BY <2>1, AppendProperties
  <2> HIDE DEF l
  <2> QED BY <2>1, <2>2, <2>3
<1>4. Leads(step, l, S)
  <2> HIDE DEF S, l, step
  <2> QED BY <1>3 DEF Leads
<1>5. \E f : IsTrace(f)
  <2>1. PICK f : Computed(f, l, step, <<>>) /\ Within(f, l, S)
    <3> HIDE DEF S, l, step
    <3> QED BY <1>1, <1>2, <1>4, StepsExist
  <2>2. \A k \in 1..l : step[k][f[k - 1]] = IF s[k] \in V THEN Append(f[k - 1], s[k]) ELSE f[k - 1]
    <3> SUFFICES ASSUME NEW k \in 1..l
                 PROVE  step[k][f[k - 1]] = IF s[k] \in V THEN Append(f[k - 1], s[k]) ELSE f[k - 1]
      OBVIOUS
    <3>1. f[k - 1] \in Seq(V)
      <4>1. k - 1 \in 0..l
        BY <1>1
      <4> HIDE DEF S, l
      <4> QED BY <1>1, <2>1, <4>1 DEF Within
    <3> QED BY <3>1
  <2> HIDE DEF step
  <2>3. [k \in 0..l |-> IF k = 0 THEN <<>> ELSE step[k][f[k - 1]]] =
        [k \in 0..l |-> IF k = 0 THEN <<>>
                        ELSE IF s[k] \in V THEN Append(f[k - 1], s[k]) ELSE f[k - 1]]
    <3>1. \A k \in 0..l : k = 0 \/ k \in 1..l
      BY <1>1
    <3> HIDE DEF l
    <3> QED BY <2>2, <3>1
  <2>4. IsTrace(f)
    BY <2>1, <2>3 DEF Computed
  <2> QED BY <2>4
<1>6. IsTrace(w)
  <2> HIDE DEF IsTrace
  <2> QED BY <1>5
<1> HIDE DEF w
<1>7. Within(w, l, S)
  <2>1. w[0] = <<>> /\ \A k \in 1..l : w[k] = IF s[k] \in V THEN Append(w[k - 1], s[k]) ELSE w[k - 1]
    <3>1. \A n \in 0..l : w[n] = IF n = 0 THEN <<>>
                                 ELSE IF s[n] \in V THEN Append(w[n - 1], s[n]) ELSE w[n - 1]
      <4> HIDE DEF l
      <4> QED BY <1>6
    <3>2. 0 \in 0..l /\ \A k \in 1..l : k \in 0..l /\ k # 0
      BY <1>1
    <3> HIDE DEF l, IsTrace
    <3> QED BY <3>1, <3>2
  <2>2. \A k \in 1..l : w[k - 1] \in S[k - 1] => w[k] \in S[k]
    <3> SUFFICES ASSUME NEW k \in 1..l, w[k - 1] \in Seq(V) PROVE w[k] \in Seq(V)
      BY <1>1
    <3>1. s[k] \in V => Append(w[k - 1], s[k]) \in Seq(V)
      BY AppendProperties
    <3> HIDE DEF IsTrace, l
    <3> QED BY <2>1, <3>1
  <2> HIDE DEF S, l, IsTrace
  <2> QED BY <1>1, <1>2, <2>1, <2>2, StepsStay
<1>8. Only(s, V) = w[l]
  BY DEF Only, w
<1> QED BY <1>1, <1>7, <1>8 DEF Within

-----------------------------------------------------------------------------
(* The stack of transactions, and what it pins. *)

Stacked(ts, n, tx) == Append(SubSeq(ts, 1, n), tx)

(* The members of a stack that is cut down and pushed upon.                *)
LEMMA StackedIs ==
    ASSUME NEW ts \in Seq(Txs), NEW n \in 0..Len(ts)
    PROVE  /\ SubSeq(ts, 1, n) \in Seq(Txs) /\ Len(SubSeq(ts, 1, n)) = n
           /\ \A k \in 1..n : SubSeq(ts, 1, n)[k] = ts[k]
           /\ \A tx \in Txs : /\ Stacked(ts, n, tx) \in Seq(Txs)
                              /\ Len(Stacked(ts, n, tx)) = n + 1
                              /\ \A k \in 1..n : Stacked(ts, n, tx)[k] = ts[k]
                              /\ Stacked(ts, n, tx)[n + 1] = tx
<1> DEFINE s == SubSeq(ts, 1, n)
<1>1. s \in Seq(Txs) /\ Len(s) = n /\ \A k \in 1..n : s[k] = ts[k]
  <2>1. n \in Nat /\ n <= Len(ts) /\ Len(ts) \in Nat
    OBVIOUS
  <2> QED BY <2>1
<1> HIDE DEF s
<1>2. ASSUME NEW tx \in Txs
      PROVE  /\ Append(s, tx) \in Seq(Txs) /\ Len(Append(s, tx)) = n + 1
             /\ \A k \in 1..n : Append(s, tx)[k] = ts[k]
             /\ Append(s, tx)[n + 1] = tx
  BY <1>1, AppendProperties
<1> QED BY <1>1, <1>2 DEF Stacked, s

(* The erasures of a log can be counted.                                   *)
LEMMA CountIs ==
    ASSUME NEW log \in Seq(Recs)
    PROVE  /\ IsFiniteSet(ErasesIn(log)) /\ Cardinality(ErasesIn(log)) \in Nat
           /\ Cardinality(ErasesIn(log)) <= Len(log)
<1> DEFINE l == Len(log)
<1>1. 1 \in Int /\ l \in Int /\ l \in Nat
  OBVIOUS
<1>2. ErasesIn(log) \subseteq 1..l
  BY DEF ErasesIn
<1> HIDE DEF l
<1>3. IsFiniteSet(1..l) /\ Cardinality(1..l) = IF 1 > l THEN 0 ELSE l - 1 + 1
  BY <1>1, FS_Interval
<1>4. IsFiniteSet(ErasesIn(log)) /\ Cardinality(ErasesIn(log)) <= Cardinality(1..l)
  BY <1>2, <1>3, FS_Subset
<1>5. Cardinality(ErasesIn(log)) \in Nat
  BY <1>4, FS_CardinalityType
<1> QED BY <1>1, <1>3, <1>4, <1>5 DEF l

(* Two logs joined have no more erasures than both together.               *)
LEMMA JoinCount ==
    ASSUME NEW a \in Seq(Recs), NEW b \in Seq(Recs)
    PROVE  /\ a \o b \in Seq(Recs)
           /\ Cardinality(ErasesIn(a \o b)) <= Cardinality(ErasesIn(a)) + Cardinality(ErasesIn(b))
<1> DEFINE A == ErasesIn(a)
           B == ErasesIn(b)
           C == {Len(a) + j : j \in B}
           E == ErasesIn(a \o b)
<1>1. /\ a \o b \in Seq(Recs) /\ Len(a \o b) = Len(a) + Len(b)
      /\ \A k \in 1..Len(a) : (a \o b)[k] = a[k]
      /\ \A k \in Len(a) + 1..Len(a) + Len(b) : (a \o b)[k] = b[k - Len(a)]
  BY ConcatProperties
<1>2. E \subseteq A \cup C
  <2> SUFFICES ASSUME NEW k \in E, k \notin A PROVE k \in C
    OBVIOUS
  <2>1. k \in 1..Len(a) + Len(b) /\ (a \o b)[k].kind = "erase" /\ k \in Nat
        /\ Len(a) \in Nat /\ Len(b) \in Nat
    BY <1>1 DEF ErasesIn
  <2>2. k \notin 1..Len(a)
    BY <1>1, <2>1 DEF ErasesIn
  <2>3. k \in Len(a) + 1..Len(a) + Len(b) /\ k - Len(a) \in 1..Len(b)
    BY <2>1, <2>2
  <2>4. b[k - Len(a)].kind = "erase"
    BY <1>1, <2>1, <2>3
  <2>5. k - Len(a) \in B /\ k = Len(a) + (k - Len(a))
    BY <2>1, <2>3, <2>4 DEF ErasesIn
  <2> HIDE DEF B
  <2> QED BY <2>5
<1>3. IsFiniteSet(A) /\ IsFiniteSet(B) /\ Cardinality(A) \in Nat /\ Cardinality(B) \in Nat
  BY CountIs
<1> HIDE DEF A, B
<1>4. IsFiniteSet(C) /\ Cardinality(C) <= Cardinality(B) /\ Cardinality(C) \in Nat
  <2> DEFINE f == [j \in B |-> Len(a) + j]
  <2>1. f \in Surjection(B, C)
    BY DEF Surjection
  <2> HIDE DEF f, C
  <2> QED BY <1>3, <2>1, FS_Surjection, FS_CardinalityType
<1>5. IsFiniteSet(A \cup C) /\ Cardinality(A \cup C) <= Cardinality(A) + Cardinality(C)
  <2> HIDE DEF C
  <2>1. IsFiniteSet(A \cup C) /\ IsFiniteSet(A \cap C)
        /\ Cardinality(A \cup C) = Cardinality(A) + Cardinality(C) - Cardinality(A \cap C)
    BY <1>3, <1>4, FS_Union, FS_Intersection
  <2>2. Cardinality(A \cap C) \in Nat
    BY <2>1, FS_CardinalityType
  <2> QED BY <1>3, <1>4, <2>1, <2>2
<1>6. IsFiniteSet(E) /\ Cardinality(E) <= Cardinality(A \cup C)
  <2> HIDE DEF C, E
  <2> QED BY <1>2, <1>5, FS_Subset
<1>7. Cardinality(E) \in Nat /\ Cardinality(A \cup C) \in Nat
  <2> HIDE DEF C, E
  <2> QED BY <1>5, <1>6, FS_CardinalityType
<1> HIDE DEF C, E
<1> QED BY <1>1, <1>3, <1>4, <1>5, <1>6, <1>7 DEF A, B, E

(* Sums along the logs, when transactions close or open.                   *)
LEMMA SumsOn ==
    ASSUME NEW ts \in Seq(Txs), NEW sum, Sums(ts, sum), NEW n \in 0..Len(ts)
    PROVE  /\ sum[n] \in Nat
           /\ \E v : Sums(SubSeq(ts, 1, n), v) /\ v[n] = sum[n]
           /\ \A tx \in Txs : \E v : /\ Sums(Stacked(ts, n, tx), v)
                                     /\ v[n + 1] = sum[n] + Cardinality(ErasesIn(tx.log))
<1>1. n \in Nat /\ Len(ts) \in Nat /\ n <= Len(ts) /\ \A k \in 0..n : sum[k] \in Nat
  <2>1. n \in Nat /\ Len(ts) \in Nat /\ n <= Len(ts)
    OBVIOUS
  <2>2. \A k \in 0..Len(ts) : sum[k] \in Nat
    BY DEF Sums
  <2>3. \A k \in 0..n : k \in 0..Len(ts)
    BY <2>1
  <2> QED BY <2>1, <2>2, <2>3
<1>2. sum[0] = 0 /\ \A k \in 1..n : sum[k] = sum[k - 1] + Cardinality(ErasesIn(ts[k].log))
  BY <1>1 DEF Sums
<1>3. \E v : Sums(SubSeq(ts, 1, n), v) /\ v[n] = sum[n]
  <2> DEFINE v == [k \in 0..n |-> sum[k]]
             s == SubSeq(ts, 1, n)
  <2>1. Len(s) = n /\ \A k \in 1..n : s[k] = ts[k]
    BY StackedIs
  <2> HIDE DEF s
  <2>2. v \in [0..n -> Nat] /\ v[0] = 0 /\ v[n] = sum[n]
    BY <1>1, <1>2
  <2>3. \A k \in 1..n : v[k] = v[k - 1] + Cardinality(ErasesIn(s[k].log))
    BY <1>1, <1>2, <2>1
  <2> HIDE DEF v
  <2>4. Sums(s, v)
    BY <2>1, <2>2, <2>3 DEF Sums
  <2> QED BY <2>2, <2>4 DEF s
<1>4. ASSUME NEW tx \in Txs
      PROVE  \E v : /\ Sums(Stacked(ts, n, tx), v)
                    /\ v[n + 1] = sum[n] + Cardinality(ErasesIn(tx.log))
  <2> DEFINE c == Cardinality(ErasesIn(tx.log))
             v == [k \in 0..n + 1 |-> IF k = n + 1 THEN sum[n] + c ELSE sum[k]]
             s == Stacked(ts, n, tx)
  <2>1. Len(s) = n + 1 /\ (\A k \in 1..n : s[k] = ts[k]) /\ s[n + 1] = tx
    BY StackedIs
  <2>2. c \in Nat
    BY CountIs DEF Txs
  <2> HIDE DEF s, c
  <2>3. v \in [0..n + 1 -> Nat] /\ v[0] = 0 /\ v[n + 1] = sum[n] + c
    BY <1>1, <1>2, <2>2
  <2>4. ASSUME NEW k \in 1..n + 1
        PROVE  v[k] = v[k - 1] + Cardinality(ErasesIn(s[k].log))
    <3>1. CASE k = n + 1
      <4>1. v[k] = sum[n] + c /\ v[k - 1] = sum[n]
        BY <1>1, <3>1
      <4> HIDE DEF v
      <4> QED BY <2>1, <3>1, <4>1 DEF c
    <3>2. CASE k # n + 1
      <4>1. k \in 1..n /\ v[k] = sum[k] /\ v[k - 1] = sum[k - 1]
        BY <1>1, <3>2
      <4> HIDE DEF v
      <4> QED BY <1>2, <2>1, <4>1
    <3> QED BY <3>1, <3>2
  <2> HIDE DEF v
  <2>5. Sums(s, v)
    BY <2>1, <2>3, <2>4 DEF Sums
  <2> QED BY <2>3, <2>5 DEF s, c
<1> QED BY <1>1, <1>3, <1>4

(* The newest transaction logs records of what is pinned. *)
LEMMA PinnedLogged ==
    ASSUME NEW ts \in Seq(Txs), ts # <<>>, NEW d \in Stores, NEW e \in Stores, Pinned(d, ts),
           NEW records \in Seq(Recs), e.pins >= d.pins + Cardinality(ErasesIn(records))
    PROVE  Pinned(e, Stacked(ts, Len(ts) - 1, [ts[Len(ts)] EXCEPT !.log = records \o @]))
<1> DEFINE n == Len(ts) - 1
           old == ts[Len(ts)]
           tx == [old EXCEPT !.log = records \o @]
<1>1. n \in 0..Len(ts) /\ n + 1 = Len(ts) /\ old \in Txs /\ Len(ts) \in 1..Len(ts)
  OBVIOUS
<1> HIDE DEF n, old
<1>2. old.log \in Seq(Recs) /\ tx \in Txs /\ tx.log = records \o old.log
  BY <1>1, JoinCount DEF Txs
<1>3. PICK sum : Sums(ts, sum) /\ d.pins >= sum[Len(ts)]
  BY DEF Pinned
<1> HIDE DEF tx
<1>4. PICK v : Sums(Stacked(ts, n, tx), v) /\ v[n + 1] = sum[n] + Cardinality(ErasesIn(tx.log))
  BY <1>1, <1>2, <1>3, SumsOn
<1>5. sum[Len(ts)] = sum[n] + Cardinality(ErasesIn(old.log)) /\ sum[n] \in Nat
  <2>1. sum[Len(ts)] = sum[Len(ts) - 1] + Cardinality(ErasesIn(old.log))
    BY <1>1, <1>3 DEF Sums, old
  <2> QED BY <1>1, <1>3, <2>1, SumsOn DEF n
<1>6. /\ Cardinality(ErasesIn(tx.log)) <= Cardinality(ErasesIn(records)) + Cardinality(ErasesIn(old.log))
      /\ Cardinality(ErasesIn(tx.log)) \in Nat /\ Cardinality(ErasesIn(records)) \in Nat
      /\ Cardinality(ErasesIn(old.log)) \in Nat
  BY <1>2, JoinCount, CountIs
<1>7. d.pins \in Nat /\ e.pins \in Nat
  BY DEF Stores
<1>8. e.pins >= v[n + 1]
  BY <1>3, <1>4, <1>5, <1>6, <1>7
<1>9. Len(Stacked(ts, n, tx)) = n + 1
  BY <1>1, <1>2, StackedIs
<1> QED BY <1>4, <1>8, <1>9 DEF Pinned, tx, n, old

(* A transaction hands its log to the one around it. *)
LEMMA PinnedJoined ==
    ASSUME NEW ts \in Seq(Txs), Len(ts) > 1, NEW d \in Stores, Pinned(d, ts)
    PROVE  Pinned(d, Stacked(ts, Len(ts) - 2,
                             [ts[Len(ts) - 1] EXCEPT !.log = ts[Len(ts)].log \o @]))
<1> DEFINE l == Len(ts)
           n == l - 2
           old == ts[l - 1]
           new == ts[l]
           tx == [old EXCEPT !.log = new.log \o @]
<1>1. l \in Nat /\ n \in 0..l /\ n + 1 = l - 1 /\ l - 1 \in 1..l /\ l \in 1..l /\ (l - 1) - 1 = n
      /\ old \in Txs /\ new \in Txs
  OBVIOUS
<1> HIDE DEF n, old, new
<1>2. old.log \in Seq(Recs) /\ new.log \in Seq(Recs) /\ tx \in Txs /\ tx.log = new.log \o old.log
  BY <1>1, JoinCount DEF Txs
<1>3. PICK sum : Sums(ts, sum) /\ d.pins >= sum[l]
  BY DEF Pinned
<1> HIDE DEF tx
<1>4. PICK v : Sums(Stacked(ts, n, tx), v) /\ v[n + 1] = sum[n] + Cardinality(ErasesIn(tx.log))
  BY <1>1, <1>2, <1>3, SumsOn
<1>5. /\ sum[l] = sum[l - 1] + Cardinality(ErasesIn(new.log))
      /\ sum[l - 1] = sum[n] + Cardinality(ErasesIn(old.log)) /\ sum[n] \in Nat
  <2>1. /\ sum[l] = sum[l - 1] + Cardinality(ErasesIn(ts[l].log))
        /\ sum[l - 1] = sum[(l - 1) - 1] + Cardinality(ErasesIn(ts[l - 1].log))
    BY <1>1, <1>3 DEF Sums
  <2>2. sum[n] \in Nat
    BY <1>1, <1>3, SumsOn
  <2> QED BY <1>1, <2>1, <2>2 DEF old, new
<1>6. /\ Cardinality(ErasesIn(tx.log)) <= Cardinality(ErasesIn(new.log)) + Cardinality(ErasesIn(old.log))
      /\ Cardinality(ErasesIn(tx.log)) \in Nat /\ Cardinality(ErasesIn(new.log)) \in Nat
      /\ Cardinality(ErasesIn(old.log)) \in Nat
  BY <1>2, JoinCount, CountIs
<1>7. d.pins \in Nat
  BY DEF Stores
<1> HIDE DEF l
<1>8. d.pins >= v[n + 1]
  BY <1>3, <1>4, <1>5, <1>6, <1>7
<1>9. Len(Stacked(ts, n, tx)) = n + 1
  BY <1>1, <1>2, StackedIs DEF l
<1> QED BY <1>4, <1>8, <1>9 DEF Pinned, tx, n, old, new, l

(* Pins suffice when the last transaction gives up no more than its own.   *)
LEMMA PinnedClosed ==
    ASSUME NEW ts \in Seq(Txs), ts # <<>>, NEW d \in Stores, NEW e \in Stores, Pinned(d, ts),
           e.pins + Cardinality(ErasesIn(ts[Len(ts)].log)) >= d.pins
    PROVE  Pinned(e, SubSeq(ts, 1, Len(ts) - 1))
<1> DEFINE n == Len(ts) - 1
           c == Cardinality(ErasesIn(ts[Len(ts)].log))
<1>1. n \in 0..Len(ts) /\ Len(ts) \in 1..Len(ts) /\ ts[Len(ts)] \in Txs
  OBVIOUS
<1>2. PICK sum : Sums(ts, sum) /\ d.pins >= sum[Len(ts)]
  BY DEF Pinned
<1>3. sum[Len(ts)] = sum[n] + c
  BY <1>1, <1>2 DEF Sums
<1>4. c \in Nat /\ d.pins \in Nat /\ e.pins \in Nat
  BY <1>1, CountIs DEF Txs, Stores
<1> HIDE DEF n, c
<1>5. sum[n] \in Nat
  BY <1>1, <1>2, SumsOn
<1>6. PICK v : Sums(SubSeq(ts, 1, n), v) /\ v[n] = sum[n]
  BY <1>1, <1>2, SumsOn
<1>7. e.pins >= v[n]
  BY <1>2, <1>3, <1>4, <1>5, <1>6 DEF c
<1>8. Len(SubSeq(ts, 1, n)) = n
  BY <1>1, StackedIs
<1> QED BY <1>6, <1>7, <1>8 DEF Pinned, n

(* An opened transaction needs no pins.                                    *)
LEMMA PinnedOpened ==
    ASSUME NEW ts \in Seq(Txs), NEW d \in Stores, Pinned(d, ts), NEW tx \in Txs, tx.log = <<>>
    PROVE  Pinned(d, Append(ts, tx))
<1> DEFINE n == Len(ts)
<1>1. n \in 0..n /\ SubSeq(ts, 1, n) = ts
  OBVIOUS
<1>2. PICK sum : Sums(ts, sum) /\ d.pins >= sum[n]
  BY DEF Pinned
<1>3. PICK v : Sums(Stacked(ts, n, tx), v) /\ v[n + 1] = sum[n] + Cardinality(ErasesIn(tx.log))
  BY <1>1, <1>2, SumsOn
<1>4. sum[n] \in Nat
  BY <1>1, <1>2, SumsOn
<1>5. Cardinality(ErasesIn(tx.log)) = 0
  BY FS_EmptySet DEF ErasesIn
<1>6. Stacked(ts, n, tx) = Append(ts, tx) /\ Len(Stacked(ts, n, tx)) = n + 1
  BY <1>1, StackedIs DEF Stacked
<1> QED BY <1>2, <1>3, <1>4, <1>5, <1>6 DEF Pinned

-----------------------------------------------------------------------------
(* The end of a transaction. *)

(* Codes are as they were, and every goal that began by m is still served. *)
Settled(d, e, m) ==
    /\ StoreInv(e) /\ Len(e.slots) = Len(d.slots) /\ e.nextRef >= d.nextRef
    /\ e.mode = d.mode /\ e.way = d.way
    /\ \A j \in Slots(d) : e.slots[j].code = d.slots[j].code
    /\ \A gs : GoalsServed(d, gs, m) => GoalsServed(e, gs, m)

(* Two steps that settle records are one.                                  *)
LEMMA SettledOn ==
    ASSUME NEW a \in Stores, NEW b \in Stores, NEW c \in Stores, NEW m,
           Settled(a, b, m), Settled(b, c, m)
    PROVE  Settled(a, c, m)
<1>1. Slots(b) = Slots(a)
  BY DEF Settled, Slots
<1>2. c.nextRef >= a.nextRef
  <2>1. a.nextRef \in Nat /\ b.nextRef \in Nat /\ c.nextRef \in Nat
    BY DEF Stores
  <2>2. c.nextRef >= b.nextRef /\ b.nextRef >= a.nextRef
    BY DEF Settled
  <2> QED BY <2>1, <2>2
<1> QED BY <1>1, <1>2 DEF Settled

(* What taking a pin off changes.                                          *)
LEMMA UnpinIs ==
    ASSUME NEW d, StoreInv(d), NEW m
    PROVE  LET e == Unpin(d)
           IN  /\ Settled(d, e, m) /\ e.slots = d.slots /\ e.nextRef = d.nextRef
               /\ e.pins + 1 >= d.pins
<1> DEFINE p == IF d.pins > 0 THEN d.pins - 1 ELSE d.pins
           e == [d EXCEPT !.pins = p]
<1>1. d \in Stores /\ p \in Nat /\ p + 1 >= d.pins
  BY DEF StoreInv, Stores
<1>2. Unpin(d) = e
  BY DEF Unpin
<1> HIDE DEF p
<1>3. /\ e \in Stores /\ e.slots = d.slots /\ e.head = d.head /\ e.tail = d.tail
      /\ e.nextRef = d.nextRef /\ e.mode = d.mode /\ e.way = d.way /\ e.entry = d.entry
      /\ e.lo = d.lo /\ e.pins = p /\ d.nextRef \in Nat
  BY <1>1 DEF Stores
<1> HIDE DEF e
<1>4. Slots(e) = Slots(d) /\ \A i : Erased(e, i) <=> Erased(d, i)
  BY <1>3 DEF Slots, Erased
<1>5. Chained(e) /\ Dated(e)
  BY <1>3, <1>4 DEF StoreInv, Chained, Ranks, Dated
<1>6. EntersAtHead(e) /\ ScanSees(e)
  BY <1>3, <1>4 DEF StoreInv, EntersAtHead, ScanSees, Candidate, HasCode
<1>7. ASSUME NEW gs, GoalsServed(d, gs, m) PROVE GoalsServed(e, gs, m)
  BY <1>3, <1>4, <1>7 DEF GoalsServed, GoalIsServed, Spares
<1> QED BY <1>1, <1>2, <1>3, <1>5, <1>6, <1>7 DEF Settled, StoreInv, Slots

(* An erasure is taken back: a goal may see the clause again, which still  *)
(* has its code.                                                           *)
LEMMA RestoredIs ==
    ASSUME NEW d, StoreInv(d), NEW i \in Slots(d), d.slots[i].code # "gone", NEW m
    PROVE  LET e == [d EXCEPT !.slots[i].erased = 0]
           IN  Settled(d, e, m) /\ e.pins = d.pins
<1> DEFINE r == [d.slots[i] EXCEPT !.erased = 0]
           u == [d.slots EXCEPT ![i] = r]
           e == [d EXCEPT !.slots[i].erased = 0]
<1>1. d \in Stores /\ d.slots \in Seq(SlotRecs) /\ i \in 1..Len(d.slots) /\ d.slots[i] \in SlotRecs
  BY SlotIs DEF StoreInv, Stores, Slots
<1>2. e = [d EXCEPT !.slots = u]
  BY <1>1 DEF Stores
<1>3. /\ r \in SlotRecs /\ r.erased = 0 /\ r.ref = d.slots[i].ref
      /\ r.next = d.slots[i].next /\ r.code = d.slots[i].code
  BY <1>1 DEF SlotRecs
<1> HIDE DEF r
<1>4. u \in Seq(SlotRecs) /\ Len(u) = Len(d.slots) /\ u[i] = r
      /\ \A j \in 1..Len(d.slots) : j # i => u[j] = d.slots[j]
  BY <1>1, <1>3
<1> HIDE DEF u, e
<1>5. /\ e \in Stores /\ e.slots = u
      /\ e.head = d.head /\ e.tail = d.tail /\ e.nextRef = d.nextRef /\ e.mode = d.mode
      /\ e.way = d.way /\ e.entry = d.entry /\ e.pins = d.pins /\ e.lo = d.lo /\ d.nextRef \in Nat
  BY <1>1, <1>2, <1>4 DEF Stores
<1>6. /\ Slots(e) = Slots(d)
      /\ \A j \in Slots(d) : /\ e.slots[j].ref = d.slots[j].ref
                             /\ e.slots[j].next = d.slots[j].next
                             /\ e.slots[j].code = d.slots[j].code
                             /\ e.slots[j].erased = IF j = i THEN 0 ELSE d.slots[j].erased
  BY <1>3, <1>4, <1>5 DEF Slots
<1>7. Chained(e)
  BY <1>5, <1>6, <1>4 DEF StoreInv, Chained, Ranks
<1>8. Dated(e)
  <2>1. 0 < d.nextRef
    <3>1. d.slots[i].ref < d.nextRef /\ d.slots[i].ref \in Nat
      BY <1>1, SlotIs DEF StoreInv, Dated
    <3> QED BY <1>5, <3>1
  <2> QED BY <1>5, <1>6, <2>1 DEF StoreInv, Dated, Erased
<1>9. EntersAtHead(e)
  BY <1>5, <1>6 DEF StoreInv, EntersAtHead, HasCode, Chained, Slots, None
<1>10. ScanSees(e)
  BY <1>5, <1>6 DEF StoreInv, ScanSees, Candidate, HasCode, Erased
<1>11. ASSUME NEW gs, GoalsServed(d, gs, m) PROVE GoalsServed(e, gs, m)
  <2> SUFFICES ASSUME NEW n \in 1..Len(gs), gs[n].code PROVE GoalIsServed(e, gs[n], m)
    BY DEF GoalsServed, GoalIsServed
  <2> DEFINE g == gs[n]
  <2>1. /\ d.mode = "code" /\ g.gen \in Nat /\ g.gen <= m
        /\ g.at \in Slots(d) /\ Visible(d.slots[g.at], g.gen) /\ Spares(d, g.gen)
    BY <1>11 DEF GoalsServed, GoalIsServed
  <2> HIDE DEF g
  <2>2. Visible(e.slots[g.at], g.gen)
    BY <1>6, <2>1 DEF Visible
  <2>3. Spares(e, g.gen)
    BY <1>6, <2>1 DEF Spares, Visible
  <2> QED BY <1>5, <1>6, <2>1, <2>2, <2>3 DEF GoalIsServed, g
<1>12. StoreInv(e)
  BY <1>5, <1>7, <1>8, <1>9, <1>10 DEF StoreInv
<1>13. Len(e.slots) = Len(d.slots) /\ e.nextRef >= d.nextRef
  BY <1>4, <1>5
<1> QED BY <1>5, <1>6, <1>11, <1>12, <1>13 DEF Settled, e

(* What a later generation changes.                                        *)
LEMMA LaterIs ==
    ASSUME NEW d, StoreInv(d), NEW m, NEW k \in Nat
    PROVE  LET e == [d EXCEPT !.nextRef = @ + k]
           IN  /\ Settled(d, e, m) /\ e.slots = d.slots /\ e.nextRef = d.nextRef + k
               /\ e.pins = d.pins
<1> DEFINE n == d.nextRef + k
           e == [d EXCEPT !.nextRef = n]
<1>1. d \in Stores /\ n \in Nat /\ d.nextRef \in Nat
  BY DEF StoreInv, Stores
<1> HIDE DEF n
<1>2. /\ e \in Stores /\ e.slots = d.slots /\ e.head = d.head /\ e.tail = d.tail
      /\ e.nextRef = n /\ e.mode = d.mode /\ e.way = d.way /\ e.entry = d.entry
      /\ e.lo = d.lo /\ e.pins = d.pins
  BY <1>1 DEF Stores
<1> HIDE DEF e
<1>3. Slots(e) = Slots(d) /\ \A i : Erased(e, i) <=> Erased(d, i)
  BY <1>2 DEF Slots, Erased
<1>4. Chained(e)
  BY <1>2, <1>3 DEF StoreInv, Chained, Ranks
<1>5. Dated(e)
  <2> SUFFICES ASSUME NEW j \in Slots(d)
               PROVE  /\ d.slots[j].ref < n /\ d.slots[j].erased < n
                      /\ d.slots[j].code = "gone" => Erased(d, j)
    BY <1>2, <1>3 DEF Dated
  <2>1. d.slots[j].ref \in Nat /\ d.slots[j].erased \in Nat
    BY <1>1, SlotIs
  <2> QED BY <1>1, <2>1 DEF StoreInv, Dated, n
<1>6. EntersAtHead(e) /\ ScanSees(e)
  BY <1>2, <1>3 DEF StoreInv, EntersAtHead, ScanSees, Candidate, HasCode
<1>7. ASSUME NEW gs, GoalsServed(d, gs, m) PROVE GoalsServed(e, gs, m)
  BY <1>2, <1>3, <1>7 DEF GoalsServed, GoalIsServed, Spares
<1>8. n >= d.nextRef
  BY <1>1 DEF n
<1> QED BY <1>2, <1>4, <1>5, <1>6, <1>7, <1>8 DEF Settled, StoreInv, Slots, e, n

(* What the next generation changes.                                       *)
LEMMA BumpIs ==
    ASSUME NEW d, StoreInv(d), NEW m
    PROVE  LET e == Bump(d)
           IN  /\ Settled(d, e, m) /\ e.slots = d.slots /\ e.nextRef = d.nextRef + 1
               /\ e.pins = d.pins
BY LaterIs DEF Bump

(* A clause's assertion is undone: it is erased now. *)
LEMMA UnassertedIs ==
    ASSUME NEW d, StoreInv(d), NEW i \in Slots(d), ~Erased(d, i), NEW m \in Nat, m <= d.nextRef
    PROVE  LET e == NoteErase(Bump(d), i, d.nextRef)
           IN  Settled(d, e, m) /\ e.pins = d.pins
<1> DEFINE b == Bump(d)
           gen == d.nextRef
           e == Noted(b, i, gen, b.pins)
<1>1. Settled(d, b, m) /\ b.slots = d.slots /\ b.nextRef = gen + 1 /\ b.pins = d.pins
  BY BumpIs
<1>2. d \in Stores /\ gen \in Nat /\ d.pins \in Nat /\ gen # 0
  <2>1. d \in Stores /\ gen \in Nat /\ d.pins \in Nat
    BY DEF StoreInv, Stores
  <2>2. d.slots[i].ref < gen /\ d.slots[i].ref \in Nat
    BY <2>1, SlotIs DEF StoreInv, Dated
  <2> QED BY <2>1, <2>2
<1> HIDE DEF gen, b
<1>3. StoreInv(b) /\ b \in Stores /\ i \in Slots(b) /\ Stays(b, i, m)
  BY <1>1 DEF Settled, StoreInv, Slots, Stays, Erased
<1>4. Unseen(b, e, m) /\ e.pins = b.pins
  BY <1>1, <1>2, <1>3, NotedKeeps DEF gen
<1>5. NoteErase(b, i, gen) = e
  <2> DEFINE t == NoteErase(b, i, gen)
  <2>1. t.pins = b.pins
    BY <1>3 DEF NoteErase, Stores
  <2>2. t = [t EXCEPT !.pins = t.pins]
    BY DEF NoteErase
  <2> QED BY <2>1, <2>2 DEF Noted
<1> HIDE DEF e
<1>6. \A gs : GoalsServed(b, gs, m) => GoalsServed(e, gs, m)
  BY <1>3, <1>4, UnseenServes
<1>7. Settled(b, e, m)
  <2>1. e.nextRef = b.nextRef /\ b.nextRef \in Nat
    BY <1>3, <1>4 DEF Unseen, Stores
  <2> QED BY <1>4, <1>6, <2>1 DEF Settled, Unseen
<1>8. e \in Stores
  BY <1>4 DEF Unseen, StoreInv
<1>9. Settled(d, e, m)
  BY <1>1, <1>2, <1>3, <1>7, <1>8, SettledOn
<1> QED BY <1>1, <1>4, <1>5, <1>9 DEF b, gen

Ended(d, r, undo) == IF undo THEN Undone(d, r) ELSE Kept(d, r)

(* A record of the log is dealt with; one of an erasure unpins its code.   *)
LEMMA EndedKeeps ==
    ASSUME NEW d, StoreInv(d), NEW m \in Nat, m <= d.nextRef, NEW r \in Recs, r.slot \in Slots(d),
           r.kind = "erase" => d.slots[r.slot].code # "gone", NEW undo \in BOOLEAN
    PROVE  LET e == Ended(d, r, undo)
           IN  Settled(d, e, m) /\ e.pins + (IF r.kind = "erase" THEN 1 ELSE 0) >= d.pins
<1>1. d \in Stores /\ d.pins \in Nat /\ d.nextRef \in Nat
  BY DEF StoreInv, Stores
<1>2. Settled(d, d, m) /\ d.pins + 0 >= d.pins
  BY <1>1 DEF Settled
<1> DEFINE u == Unpin(d)
<1>3. Settled(d, u, m) /\ u.slots = d.slots /\ u.pins + 1 >= d.pins
  BY UnpinIs
<1> HIDE DEF u
<1>4. CASE r.kind = "erase" /\ undo
  <2> DEFINE e == [u EXCEPT !.slots[r.slot].erased = 0]
  <2>1. StoreInv(u) /\ u \in Stores /\ r.slot \in Slots(u) /\ u.slots[r.slot].code # "gone"
    BY <1>3, <1>4 DEF Settled, StoreInv, Slots
  <2>2. Settled(u, e, m) /\ e.pins = u.pins
    BY <2>1, RestoredIs
  <2> HIDE DEF e
  <2>3. e \in Stores
    BY <2>2 DEF Settled, StoreInv
  <2>4. Settled(d, e, m)
    BY <1>1, <1>3, <2>1, <2>2, <2>3, SettledOn
  <2>5. Ended(d, r, undo) = e
    BY <1>4 DEF Ended, Undone, e, u
  <2> QED BY <1>3, <1>4, <2>2, <2>4, <2>5
<1>5. CASE r.kind = "erase" /\ ~undo
  <2>1. Ended(d, r, undo) = u
    BY <1>5 DEF Ended, Kept, u
  <2> QED BY <1>3, <1>5, <2>1
<1>6. CASE r.kind # "erase" /\ undo /\ ~Erased(d, r.slot)
  <2> DEFINE e == NoteErase(Bump(d), r.slot, d.nextRef)
  <2>1. Settled(d, e, m) /\ e.pins = d.pins
    BY <1>6, UnassertedIs
  <2>2. Ended(d, r, undo) = e
    BY <1>6 DEF Ended, Undone
  <2> HIDE DEF e
  <2>3. (IF r.kind = "erase" THEN 1 ELSE 0) = 0 /\ e.pins + 0 >= d.pins
    BY <1>1, <1>6, <2>1
  <2> QED BY <2>1, <2>2, <2>3
<1>7. CASE r.kind # "erase" /\ (~undo \/ Erased(d, r.slot))
  <2>1. Ended(d, r, undo) = d
    BY <1>7 DEF Ended, Undone, Kept
  <2> QED BY <1>2, <1>7, <2>1
<1> QED BY <1>4, <1>5, <1>6, <1>7

(* What one record does to marks when it is undone or kept.                *)
LEMMA EndedIs ==
    ASSUME NEW d \in Stores, NEW r \in Recs, r.slot \in Slots(d), \A i \in Slots(d) : d.slots[i].ref < d.nextRef,
           NEW undo \in BOOLEAN
    PROVE  LET e == Ended(d, r, undo)
           IN  /\ Kin(d, e)
               /\ \A j \in Slots(d) : ~undo \/ j # r.slot => e.slots[j].erased = d.slots[j].erased
               /\ undo /\ r.kind = "erase" => e.slots[r.slot].erased = 0
               /\ undo /\ r.kind # "erase" => e.slots[r.slot].erased # 0
<1> DEFINE i == r.slot
           u == Unpin(d)
           b == Bump(d)
           v == [u EXCEPT !.slots[i].erased = 0]
           n == NoteErase(b, i, d.nextRef)
<1>1. d.nextRef \in Nat /\ d.nextRef # 0
  <2>1. d.slots[i].ref < d.nextRef /\ d.slots[i].ref \in Nat /\ d.nextRef \in Nat
    BY SlotIs DEF Stores
  <2> QED BY <2>1
<1>2. Kin(d, d)
  BY DEF Kin
<1>3. Kin(d, u) /\ u.slots = d.slots
  <2> DEFINE p == IF d.pins > 0 THEN d.pins - 1 ELSE d.pins
  <2>1. u = [d EXCEPT !.pins = p] /\ p \in Nat
    BY DEF Unpin, Stores
  <2> HIDE DEF p
  <2> QED BY <2>1 DEF Kin, Stores
<1>4. Kin(d, b) /\ b.slots = d.slots
  <2> DEFINE g == d.nextRef + 1
  <2>1. b = [d EXCEPT !.nextRef = g] /\ g \in Nat
    BY <1>1 DEF Bump
  <2> HIDE DEF g
  <2> QED BY ONLY <2>1, d \in Stores DEF Kin, Stores
<1>5. Kin(u, v) /\ v.slots[i].erased = 0
      /\ \A j \in Slots(d) : j # i => v.slots[j].erased = u.slots[j].erased
  <2> HIDE DEF u
  <2> DEFINE s == [u.slots[i] EXCEPT !.erased = 0]
             t == [u.slots EXCEPT ![i] = s]
  <2>1. u \in Stores /\ i \in Slots(u) /\ Slots(u) = Slots(d)
    BY <1>3 DEF Kin, Slots
  <2> HIDE DEF i
  <2>2. u.slots \in Seq(SlotRecs) /\ i \in 1..Len(u.slots) /\ u.slots[i] \in SlotRecs
    BY <2>1, SlotIs DEF Stores, Slots
  <2>3. s \in SlotRecs /\ s.erased = 0 /\ s.key = u.slots[i].key /\ s.ref = u.slots[i].ref /\ s.next = u.slots[i].next
    BY <2>2 DEF SlotRecs
  <2>4. v = [u EXCEPT !.slots = t]
    BY <2>1 DEF Stores
  <2> HIDE DEF s
  <2>5. t \in Seq(SlotRecs) /\ Len(t) = Len(u.slots) /\ t[i] = s /\ \A j \in 1..Len(u.slots) : j # i => t[j] = u.slots[j]
    BY <2>2, <2>3
  <2> HIDE DEF t, v
  <2>6. /\ v \in Stores /\ v.slots = t /\ v.head = u.head /\ v.tail = u.tail /\ v.ix = u.ix /\ v.ixOff = u.ixOff
    BY <2>1, <2>4, <2>5 DEF Stores
  <2>7. ASSUME NEW j \in Slots(u)
        PROVE  /\ v.slots[j].key = u.slots[j].key /\ v.slots[j].ref = u.slots[j].ref
               /\ v.slots[j].next = u.slots[j].next
               /\ j # i => v.slots[j].erased = u.slots[j].erased
    <3>1. CASE j = i
      BY <2>3, <2>5, <2>6, <3>1
    <3>2. CASE j # i
      BY <2>5, <2>6, <3>2 DEF Slots
    <3> QED BY <3>1, <3>2
  <2> QED BY <2>1, <2>3, <2>5, <2>6, <2>7 DEF Kin
<1>6. Kin(b, n) /\ n.slots[i].erased # 0 /\ \A j \in Slots(d) : j # i => n.slots[j].erased = b.slots[j].erased
  <2>1. b \in Stores /\ i \in Slots(b) /\ Slots(b) = Slots(d) /\ b.pins \in Nat
    BY <1>4 DEF Kin, Slots, Stores
  <2>2. n = Noted(b, i, d.nextRef, b.pins)
    <3> DEFINE t == NoteErase(b, i, d.nextRef)
    <3>1. t.pins = b.pins
      BY <2>1 DEF NoteErase, Stores
    <3>2. t = [t EXCEPT !.pins = t.pins]
      BY DEF NoteErase
    <3> QED BY <3>1, <3>2 DEF Noted
  <2> HIDE DEF n, b, i
  <2>3. /\ n \in Stores /\ Len(n.slots) = Len(b.slots)
        /\ \A j \in Slots(b) : /\ n.slots[j].ref = b.slots[j].ref /\ n.slots[j].next = b.slots[j].next
                               /\ n.slots[j].key = b.slots[j].key
                               /\ n.slots[j].erased = IF j = i THEN d.nextRef ELSE b.slots[j].erased
        /\ n.head = b.head /\ n.tail = b.tail /\ n.ix = b.ix /\ n.ixOff = b.ixOff
    BY <1>1, <2>1, <2>2, NotedIs
  <2> QED BY <1>1, <2>1, <2>3 DEF Kin
<1> HIDE DEF u, v, b, n
<1>7. Kin(d, v) /\ Kin(d, n)
  BY <1>3, <1>4, <1>5, <1>6, KinOn
<1>8. CASE r.kind = "erase" /\ undo
  <2>1. Ended(d, r, undo) = v
    BY <1>8 DEF Ended, Undone, v, u
  <2> QED BY <1>3, <1>5, <1>7, <1>8, <2>1
<1>9. CASE r.kind = "erase" /\ ~undo
  <2>1. Ended(d, r, undo) = u
    BY <1>9 DEF Ended, Kept, u
  <2> QED BY <1>3, <1>9, <2>1
<1>10. CASE r.kind # "erase" /\ undo /\ ~Erased(d, r.slot)
  <2>1. Ended(d, r, undo) = n
    BY <1>10 DEF Ended, Undone, n, b
  <2> QED BY <1>4, <1>6, <1>7, <1>10, <2>1
<1>11. CASE r.kind # "erase" /\ (~undo \/ Erased(d, r.slot))
  <2>1. Ended(d, r, undo) = d
    BY <1>11 DEF Ended, Undone, Kept
  <2> QED BY <1>2, <1>11, <2>1 DEF Erased
<1> QED BY <1>8, <1>9, <1>10, <1>11

(* The first k records of a log are dealt with: what they erased is back,  *)
(* what they asserted is erased, and of the other clauses nothing changed. *)
Names(log, k, j, kinds) == \E n \in 1..k : log[n].slot = j /\ log[n].kind \in kinds
Ordered(log) ==
    \A k \in 1..Len(log) : log[k].kind # "erase" => \A l \in k + 1..Len(log) : log[l].slot # log[k].slot
Ends(d, e, log, k, undo) ==
    /\ Kin(d, e)
    /\ \A j \in Slots(d) :
           /\ ~undo \/ ~Names(log, k, j, {"erase", "asserta", "assertz"}) => e.slots[j].erased = d.slots[j].erased
           /\ undo /\ Names(log, k, j, {"asserta", "assertz"}) => e.slots[j].erased # 0
           /\ undo /\ Names(log, k, j, {"erase"}) /\ ~Names(log, k, j, {"asserta", "assertz"})
                  => e.slots[j].erased = 0

(* With one record more, the marks still end as the log says.              *)
LEMMA EndsOn ==
    ASSUME NEW d, NEW x \in Stores, NEW log \in Seq(Recs), Ordered(log), NEW k \in 1..Len(log), NEW undo \in BOOLEAN,
           Ends(d, x, log, k - 1, undo), log[k].slot \in Slots(d), \A i \in Slots(x) : x.slots[i].ref < x.nextRef
    PROVE  Ends(d, Ended(x, log[k], undo), log, k, undo)
<1> DEFINE r == log[k]
           e == Ended(x, r, undo)
<1>1. r \in Recs /\ Kin(d, x) /\ Slots(x) = Slots(d) /\ k \in Nat
  BY DEF Ends, Kin, Slots
<1>2. /\ Kin(x, e)
      /\ \A j \in Slots(d) : ~undo \/ j # r.slot => e.slots[j].erased = x.slots[j].erased
      /\ undo /\ r.kind = "erase" => e.slots[r.slot].erased = 0
      /\ undo /\ r.kind # "erase" => e.slots[r.slot].erased # 0
  <2> HIDE DEF r
  <2>1. r.slot \in Slots(x)
    BY <1>1 DEF r
  <2> QED BY <1>1, <2>1, EndedIs
<1> HIDE DEF e
<1>3. Kin(d, e)
  BY <1>1, <1>2, KinOn
<1>4. \A j, kinds : Names(log, k, j, kinds) <=> Names(log, k - 1, j, kinds) \/ (r.slot = j /\ r.kind \in kinds)
  <2> TAKE j, kinds
  <2>1. \A n : n \in 1..k <=> n \in 1..k - 1 \/ n = k
    BY <1>1
  <2> QED BY <2>1 DEF Names
<1>5. r.kind \in {"erase", "asserta", "assertz"}
  BY <1>1 DEF Recs
<1>6. ~Names(log, k - 1, r.slot, {"asserta", "assertz"})
  <2> SUFFICES ASSUME NEW n \in 1..k - 1, log[n].slot = r.slot, log[n].kind \in {"asserta", "assertz"} PROVE FALSE
    BY DEF Names
  <2>1. n \in 1..Len(log) /\ k \in n + 1..Len(log) /\ log[n].kind # "erase"
    OBVIOUS
  <2> QED BY <2>1 DEF Ordered
<1> SUFFICES ASSUME NEW j \in Slots(d)
             PROVE  /\ ~undo \/ ~Names(log, k, j, {"erase", "asserta", "assertz"}) => e.slots[j].erased = d.slots[j].erased
                    /\ undo /\ Names(log, k, j, {"asserta", "assertz"}) => e.slots[j].erased # 0
                    /\ undo /\ Names(log, k, j, {"erase"}) /\ ~Names(log, k, j, {"asserta", "assertz"})
                           => e.slots[j].erased = 0
  BY <1>3 DEF Ends, e
<1>7. /\ ~undo \/ ~Names(log, k - 1, j, {"erase", "asserta", "assertz"}) => x.slots[j].erased = d.slots[j].erased
      /\ undo /\ Names(log, k - 1, j, {"asserta", "assertz"}) => x.slots[j].erased # 0
      /\ undo /\ Names(log, k - 1, j, {"erase"}) /\ ~Names(log, k - 1, j, {"asserta", "assertz"})
             => x.slots[j].erased = 0
  BY DEF Ends
<1> HIDE DEF r
<1>8. CASE ~undo \/ j # r.slot
  BY <1>2, <1>4, <1>7, <1>8
<1>9. CASE undo /\ j = r.slot
  BY <1>2, <1>4, <1>5, <1>6, <1>9
<1> QED BY <1>8, <1>9

(* Settling a log costs its own pins at most, and ends as it says.         *)
LEMMA TxDbKeeps ==
    ASSUME NEW d, StoreInv(d), NEW m \in Nat, m <= d.nextRef, NEW log \in Seq(Recs),
           LogSpares(d, log), NEW undo \in BOOLEAN
    PROVE  LET e == TxDb(d, log, undo)
           IN  /\ Settled(d, e, m) /\ e.pins + Cardinality(ErasesIn(log)) >= d.pins
               /\ Ordered(log) => Ends(d, e, log, Len(log), undo)
<1> DEFINE l == Len(log)
           Erases(k) == {j \in 1..k : log[j].kind = "erase"}
           c(k) == Cardinality(Erases(k))
           Ending(e, k) == Ordered(log) => Ends(d, e, log, k, undo)
           S == [k \in 0..l |-> {e \in Stores : Settled(d, e, m) /\ e.pins + c(k) >= d.pins /\ Ending(e, k)}]
           step == [k \in 1..l |-> [x \in Stores |-> Ended(x, log[k], undo)]]
           IsTrace(f) == f = [n \in 0..l |->
                                  IF n = 0 THEN d
                                  ELSE IF undo THEN Undone(f[n - 1], log[n]) ELSE Kept(f[n - 1], log[n])]
           w == CHOOSE f : IsTrace(f)
<1>1. l \in Nat /\ d \in Stores /\ d.pins \in Nat /\ d.nextRef \in Nat
  BY DEF StoreInv, Stores
<1>2. \A k \in 0..l : IsFiniteSet(Erases(k)) /\ c(k) \in Nat
  <2> SUFFICES ASSUME NEW k \in 0..l PROVE IsFiniteSet(Erases(k)) /\ c(k) \in Nat
    OBVIOUS
  <2>1. 1 \in Int /\ k \in Int /\ Erases(k) \subseteq 1..k
    OBVIOUS
  <2> HIDE DEF Erases
  <2> QED BY <2>1, FS_Interval, FS_Subset, FS_CardinalityType
<1>3. c(0) = 0
  <2>1. Erases(0) = {}
    OBVIOUS
  <2> HIDE DEF Erases
  <2> QED BY <2>1, FS_EmptySet
<1>4. \A k \in 1..l : c(k) = c(k - 1) + (IF log[k].kind = "erase" THEN 1 ELSE 0)
  <2> SUFFICES ASSUME NEW k \in 1..l
               PROVE  c(k) = c(k - 1) + (IF log[k].kind = "erase" THEN 1 ELSE 0)
    OBVIOUS
  <2>1. /\ k - 1 \in 0..l /\ k \notin Erases(k - 1)
        /\ Erases(k) = IF log[k].kind = "erase" THEN Erases(k - 1) \cup {k} ELSE Erases(k - 1)
    BY <1>1
  <2> HIDE DEF Erases, l
  <2>2. IsFiniteSet(Erases(k - 1)) /\ c(k - 1) \in Nat
    BY <1>2, <2>1
  <2>3. CASE log[k].kind = "erase"
    BY <2>1, <2>2, <2>3, FS_AddElement
  <2>4. CASE log[k].kind # "erase"
    BY <2>1, <2>2, <2>4
  <2> QED BY <2>3, <2>4
<1>5. c(l) = Cardinality(ErasesIn(log))
  BY DEF ErasesIn
<1> HIDE DEF Erases, c
<1>6. d \in S[0]
  <2>1. Settled(d, d, m)
    BY <1>1 DEF Settled
  <2>2. \A j, kinds : ~Names(log, 0, j, kinds)
    BY DEF Names
  <2>3. Ending(d, 0)
    BY <1>1, <2>2 DEF Ends, Kin
  <2> HIDE DEF Ending
  <2> QED BY <1>1, <1>3, <2>1, <2>3
<1>7. ASSUME NEW k \in 1..l, NEW x \in S[k - 1]
      PROVE  x \in Stores /\ Ended(x, log[k], undo) \in S[k]
  <2> DEFINE r == log[k]
             e == Ended(x, r, undo)
             one == IF r.kind = "erase" THEN 1 ELSE 0
  <2> HIDE DEF Ending
  <2>1. x \in Stores /\ Settled(d, x, m) /\ x.pins + c(k - 1) >= d.pins /\ Ending(x, k - 1)
    BY <1>1
  <2>2. k \in 1..Len(log) /\ r \in Recs /\ r.slot \in Slots(d)
        /\ (r.kind = "erase" => d.slots[r.slot].code # "gone")
    BY DEF LogSpares
  <2> HIDE DEF r
  <2>3. r.slot \in Slots(x) /\ StoreInv(x) /\ m <= x.nextRef
        /\ (r.kind = "erase" => x.slots[r.slot].code # "gone")
    <3>1. x.nextRef \in Nat /\ x.nextRef >= d.nextRef
      BY <2>1 DEF Settled, Stores
    <3>2. r.slot \in Slots(x) /\ StoreInv(x) /\ (r.kind = "erase" => x.slots[r.slot].code # "gone")
      BY ONLY <2>1, <2>2 DEF Settled, Slots
    <3>3. m <= x.nextRef
      BY ONLY <1>1, <3>1, m <= d.nextRef, m \in Nat
    <3> QED BY ONLY <3>2, <3>3
  <2>4. Settled(x, e, m) /\ e.pins + one >= x.pins
    BY <2>2, <2>3, EndedKeeps
  <2> HIDE DEF e
  <2>5. e \in Stores
    BY <2>4 DEF Settled, StoreInv
  <2>6. Settled(d, e, m)
    BY <1>1, <2>1, <2>4, <2>5, SettledOn
  <2>7. e.pins + c(k) >= d.pins
    <3>1. c(k) = c(k - 1) + one /\ c(k - 1) \in Nat /\ one \in Nat
      <4>1. k - 1 \in 0..l
        BY <1>1
      <4> HIDE DEF l
      <4> QED BY <1>2, <1>4, <4>1 DEF r
    <3>2. e.pins \in Nat /\ x.pins \in Nat
      BY <2>1, <2>5 DEF Stores
    <3>3. x.pins + c(k - 1) >= d.pins /\ e.pins + one >= x.pins /\ d.pins \in Nat
      BY ONLY <1>1, <2>1, <2>4
    <3> DEFINE before == c(k - 1)
               after == c(k)
    <3>4. after = before + one /\ before \in Nat /\ one \in Nat /\ x.pins + before >= d.pins
      BY <3>1, <3>3
    <3> HIDE DEF one, before, after
    <3>5. e.pins + after >= d.pins
      BY ONLY <3>2, <3>3, <3>4
    <3> QED BY <3>5 DEF after
  <2>9. Ending(e, k)
    <3> SUFFICES ASSUME Ordered(log) PROVE Ends(d, e, log, k, undo)
      BY DEF Ending
    <3>1. Ends(d, x, log, k - 1, undo)
      BY <2>1 DEF Ending
    <3>2. \A i \in Slots(x) : x.slots[i].ref < x.nextRef
      BY <2>3 DEF StoreInv, Dated
    <3>3. log[k].slot \in Slots(d) /\ k \in 1..Len(log)
      BY <2>2 DEF r
    <3>4. Ends(d, Ended(x, log[k], undo), log, k, undo)
      BY ONLY <2>1, <3>1, <3>2, <3>3, EndsOn, Ordered(log), undo \in BOOLEAN, log \in Seq(Recs)
    <3> QED BY <3>4 DEF e, r
  <2>8. e \in S[k]
    <3>1. k \in 0..l
      BY <1>1
    <3> QED BY <2>5, <2>6, <2>7, <2>9, <3>1
  <2> QED BY <2>1, <2>8 DEF e, r
<1>8. Leads(step, l, S)
  <2> HIDE DEF S, l
  <2> QED BY <1>7 DEF Leads
<1>9. \E f : IsTrace(f)
  <2>1. PICK f : Computed(f, l, step, d) /\ Within(f, l, S)
    <3> HIDE DEF S, l, step
    <3> QED BY <1>1, <1>6, <1>8, StepsExist
  <2>2. \A k \in 1..l : step[k][f[k - 1]] = Ended(f[k - 1], log[k], undo)
    <3> SUFFICES ASSUME NEW k \in 1..l
                 PROVE  step[k][f[k - 1]] = Ended(f[k - 1], log[k], undo)
      OBVIOUS
    <3>1. f[k - 1] \in S[k - 1]
      <4>1. k - 1 \in 0..l
        BY <1>1
      <4> HIDE DEF S, l
      <4> QED BY <2>1, <4>1 DEF Within
    <3>2. f[k - 1] \in Stores
      <4> HIDE DEF S, l
      <4> QED BY <1>7, <3>1
    <3> QED BY <3>2
  <2> HIDE DEF step
  <2>3. [k \in 0..l |-> IF k = 0 THEN d ELSE step[k][f[k - 1]]] =
        [k \in 0..l |-> IF k = 0 THEN d
                        ELSE IF undo THEN Undone(f[k - 1], log[k]) ELSE Kept(f[k - 1], log[k])]
    <3>1. \A k \in 0..l : k = 0 \/ k \in 1..l
      BY <1>1
    <3> HIDE DEF l
    <3> QED BY <2>2, <3>1 DEF Ended
  <2>4. IsTrace(f)
    BY <2>1, <2>3 DEF Computed
  <2> QED BY <2>4
<1>10. IsTrace(w)
  <2> HIDE DEF IsTrace
  <2> QED BY <1>9
<1> HIDE DEF w
<1>11. Within(w, l, S)
  <2>1. w[0] = d /\ \A k \in 1..l : w[k] = Ended(w[k - 1], log[k], undo)
    <3>1. \A n \in 0..l : w[n] = IF n = 0 THEN d
                                 ELSE IF undo THEN Undone(w[n - 1], log[n]) ELSE Kept(w[n - 1], log[n])
      <4> HIDE DEF l
      <4> QED BY <1>10
    <3>2. 0 \in 0..l /\ \A k \in 1..l : k \in 0..l /\ k # 0
      BY <1>1
    <3> HIDE DEF l, IsTrace
    <3> QED BY <3>1, <3>2 DEF Ended
  <2> HIDE DEF S, l, IsTrace
  <2>2. \A k \in 1..l : w[k - 1] \in S[k - 1] => w[k] \in S[k]
    BY <1>7, <2>1
  <2> QED BY <1>1, <1>6, <2>1, <2>2, StepsStay
<1>12. TxDb(d, log, undo) = w[l]
  BY DEF TxDb, w
<1>13. w[l] \in {e \in Stores : Settled(d, e, m) /\ e.pins + c(l) >= d.pins /\ Ending(e, l)}
  BY <1>1, <1>11 DEF Within
<1> QED BY <1>5, <1>12, <1>13

-----------------------------------------------------------------------------
(* The stack of goals. *)

LEMMA GoalsCut ==
    ASSUME NEW gs, GoalStack(gs), NEW n \in 0..Len(gs)
    PROVE  /\ GoalStack(SubSeq(gs, 1, n)) /\ Len(SubSeq(gs, 1, n)) = n
           /\ \A d, m : GoalsServed(d, gs, m) => GoalsServed(d, SubSeq(gs, 1, n), m)
<1>1. PICK S : gs \in Seq(GoalRecs(S))
  BY DEF GoalStack
<1> DEFINE hs == SubSeq(gs, 1, n)
<1>2. hs \in Seq(GoalRecs(S)) /\ Len(hs) = n /\ \A k \in 1..n : hs[k] = gs[k] /\ k \in 1..Len(gs)
  <2>1. n \in Nat /\ n <= Len(gs) /\ Len(gs) \in Nat
    BY <1>1
  <2> QED BY <1>1, <2>1
<1> HIDE DEF hs
<1> QED BY <1>2 DEF GoalStack, GoalsServed, hs

(* A goal pushed leaves the others served.                                 *)
LEMMA GoalsPush ==
    ASSUME NEW gs, GoalStack(gs), NEW T, NEW g \in GoalRecs(T)
    PROVE  /\ GoalStack(Append(gs, g)) /\ Len(Append(gs, g)) = Len(gs) + 1 /\ Len(gs) \in Nat
           /\ \A d, m : GoalsServed(d, gs, m) /\ GoalIsServed(d, g, m)
                           => GoalsServed(d, Append(gs, g), m)
<1>1. PICK S : gs \in Seq(GoalRecs(S))
  BY DEF GoalStack
<1>2. gs \in Seq(GoalRecs(S \cup T)) /\ g \in GoalRecs(S \cup T)
  <2>1. GoalRecs(S) \subseteq GoalRecs(S \cup T) /\ GoalRecs(T) \subseteq GoalRecs(S \cup T)
    BY DEF GoalRecs
  <2> DEFINE A == GoalRecs(S)
             B == GoalRecs(S \cup T)
  <2> HIDE DEF A, B
  <2>2. gs \in Seq(A) /\ A \subseteq B
    BY <1>1, <2>1 DEF A, B
  <2>3. gs \in Seq(B)
    BY <2>2
  <2> QED BY <2>1, <2>3 DEF B
<1> DEFINE hs == Append(gs, g)
<1>3. /\ hs \in Seq(GoalRecs(S \cup T)) /\ Len(hs) = Len(gs) + 1 /\ Len(gs) \in Nat
      /\ hs[Len(gs) + 1] = g /\ \A k \in 1..Len(gs) : hs[k] = gs[k]
  BY <1>2, AppendProperties
<1> HIDE DEF hs
<1>4. \A k \in 1..Len(hs) : k \in 1..Len(gs) \/ k = Len(gs) + 1
  BY <1>3
<1>5. ASSUME NEW d, NEW m, GoalsServed(d, gs, m), GoalIsServed(d, g, m)
      PROVE  GoalsServed(d, hs, m)
  BY <1>3, <1>4, <1>5 DEF GoalsServed
<1>6. GoalStack(hs)
  BY <1>3 DEF GoalStack
<1> QED BY <1>3, <1>5, <1>6 DEF hs

(* What a goal is made of.                                                 *)
LEMMA GoalIs ==
    ASSUME NEW gs, GoalStack(gs), NEW n \in 1..Len(gs)
    PROVE  \E S : gs[n] \in GoalRecs(S)
<1>1. PICK S : gs \in Seq(GoalRecs(S))
  BY DEF GoalStack
<1>2. gs[n] \in GoalRecs(S)
  BY <1>1
<1> QED BY <1>2

(* The goals below the open transactions.                                  *)
LEMMA BaseIs ==
    ASSUME DbInv
    PROVE  /\ Base \in Nat /\ Base <= Len(goals) /\ Len(goals) \in Nat /\ Len(txs) \in Nat
           /\ \A n \in 1..Len(txs) : txs[n].goals \in Nat /\ txs[n].goals <= Base
           /\ txs # <<>> => Base = txs[Len(txs)].goals /\ Last(txs) = txs[Len(txs)]
                            /\ Len(txs) \in 1..Len(txs) /\ txs[Len(txs)] \in Txs
                            /\ txs[Len(txs)].log \in Seq(Recs)
<1>1. txs \in Seq(Txs) /\ Nested(txs, goals) /\ Len(goals) \in Nat
  <2>1. PICK S : goals \in Seq(GoalRecs(S))
    BY DEF DbInv, GoalStack
  <2> QED BY <2>1 DEF DbInv
<1>2. \A n \in 1..Len(txs) : txs[n] \in Txs /\ txs[n].goals \in Nat /\ txs[n].log \in Seq(Recs)
  <2>1. \A n \in 1..Len(txs) : txs[n] \in Txs
    BY <1>1
  <2> QED BY <2>1 DEF Txs
<1>3. CASE txs = <<>>
  BY <1>1, <1>2, <1>3 DEF Base
<1>4. CASE txs # <<>>
  <2>1. Len(txs) \in 1..Len(txs) /\ Last(txs) = txs[Len(txs)] /\ Base = txs[Len(txs)].goals
    BY <1>1, <1>4 DEF Base, Last
  <2>2. \A n \in 1..Len(txs) : n <= Len(txs)
    BY <1>1
  <2> QED BY <1>1, <1>2, <2>1, <2>2 DEF Nested
<1> QED BY <1>3, <1>4

(* Transactions stay nested while no goal below the last one leaves.       *)
LEMMA NestedOn ==
    ASSUME DbInv, NEW gs, Len(gs) \in Nat, Len(gs) >= Base
    PROVE  Nested(txs, gs)
BY BaseIs DEF DbInv, Nested

(* What the proofs read off a store in order.                              *)
LEMMA StoreIs ==
    ASSUME NEW d, StoreInv(d)
    PROVE  /\ d \in Stores /\ d.nextRef \in Nat /\ d.head \in 0..Len(d.slots) /\ Len(d.slots) \in Nat
           /\ \A i \in 0..Len(d.slots) : i # None => i \in Slots(d)
           /\ \E rank : Ranks(d, rank)
BY DEF StoreInv, Stores, Chained, Slots, None

(* A goal that begins now sees the clauses that are not erased. *)
LEMMA SeesNow ==
    ASSUME NEW d, StoreInv(d)
    PROVE  Spares(d, d.nextRef)
<1> SUFFICES ASSUME NEW i \in Slots(d), Visible(d.slots[i], d.nextRef) PROVE d.slots[i].code # "gone"
  BY DEF Spares
<1>1. d.slots[i].erased < d.nextRef /\ d.slots[i].erased \in Nat /\ d.nextRef \in Nat
  BY StoreIs, SlotIs DEF StoreInv, Dated
<1> QED BY <1>1 DEF StoreInv, Dated, Visible, Erased

-----------------------------------------------------------------------------
(* The actions. *)

LEMMA InitDb == Init => DbInv
<1> SUFFICES ASSUME Init PROVE DbInv
  OBVIOUS
<1>1. db.slots = <<>> /\ db.head = 0 /\ db.tail = 0 /\ db.nextRef = 1 /\ db.mode = "fresh"
      /\ db.way = "none" /\ db.entry = 0 /\ db.pins = 0 /\ db.lo = 1
  BY DEF Init, None
<1>2. db \in Stores
  <2>1. <<>> \in Seq(SlotRecs) /\ NoIx \in Indexes /\ Cap0 \in Nat
    BY Parameters DEF Indexes
  <2> QED BY <2>1 DEF Init, Stores, None
<1>3. Slots(db) = {} /\ Len(db.slots) = 0
  BY <1>1 DEF Slots
<1>4. Chained(db)
  <2> DEFINE rank == [j \in 0..0 |-> 0]
  <2>1. Ranks(db, rank)
    BY <1>3 DEF Ranks
  <2> HIDE DEF rank
  <2> QED BY <1>1, <1>3, <2>1 DEF Chained, None
<1>5. StoreInv(db)
  BY <1>1, <1>2, <1>3, <1>4 DEF StoreInv, Dated, EntersAtHead, ScanSees, None
<1>6. goals = <<>> /\ txs = <<>>
  BY DEF Init
<1>7. GoalStack(goals) /\ GoalsServed(db, goals, db.nextRef)
  <2>1. <<>> \in Seq(GoalRecs({}))
    OBVIOUS
  <2> QED BY <1>6, <2>1 DEF GoalStack, GoalsServed
<1>8. txs \in Seq(Txs) /\ Nested(txs, goals) /\ LogsSpare(db, txs)
  BY <1>6 DEF Nested, LogsSpare
<1>9. Pinned(db, txs)
  <2> DEFINE sum == [j \in 0..0 |-> 0]
  <2>1. Sums(txs, sum) /\ sum[0] = 0
    BY <1>6 DEF Sums
  <2> HIDE DEF sum
  <2> QED BY <1>1, <1>6, <2>1 DEF Pinned
<1> QED BY <1>5, <1>7, <1>8, <1>9 DEF DbInv

(* A goal comes to the clause at, which gets code. *)
LEMMA Comes ==
    ASSUME DbInv, NEW gs, GoalStack(gs), GoalsServed(db, gs, db.nextRef), NEW T, NEW g \in GoalRecs(T),
           g.code => /\ db.mode = "code" /\ g.gen <= db.nextRef /\ Spares(db, g.gen)
                     /\ g.at \in 0..Len(db.slots)
                     /\ g.at # None => Visible(db.slots[g.at], g.gen),
           Len(gs) >= Base,
           db' = IF g.code THEN Ensure(db, g.at) ELSE db,
           goals' = IF g.at = None THEN gs ELSE Append(gs, g), UNCHANGED txs
    PROVE  DbInv'
<1>0. StoreInv(db) /\ db.nextRef \in Nat /\ txs \in Seq(Txs) /\ LogsSpare(db, txs) /\ Pinned(db, txs)
  BY StoreIs DEF DbInv
<1>1. /\ StoreInv(db') /\ Grows(db, db') /\ db'.nextRef = db.nextRef /\ db'.pins = db.pins
  <2>1. CASE g.code
    BY <1>0, <2>1, EnsureKeeps DEF Recoded
  <2>2. CASE ~g.code
    BY <1>0, <2>2 DEF Grows
  <2> QED BY <2>1, <2>2 DEF GoalRecs
<1>2. g.at # None => GoalIsServed(db, g, db.nextRef)
  BY <1>0, StoreIs DEF GoalIsServed, GoalRecs
<1>3. GoalStack(goals') /\ GoalsServed(db, goals', db.nextRef) /\ Len(goals') \in Nat
      /\ Len(goals') >= Len(gs) /\ Len(gs) \in Nat
  BY <1>2, GoalsPush
<1>4. GoalsServed(db', goals', db'.nextRef)
  BY <1>0, <1>1, <1>3, GoalsCarry
<1>5. LogsSpare(db', txs)
  BY <1>0, <1>1, LogsCarry
<1>6. Pinned(db', txs)
  BY <1>0, <1>1 DEF Pinned
<1>7. Nested(txs, goals')
  <2>1. Len(goals') >= Base
    BY <1>3, BaseIs
  <2> QED BY <1>3, <2>1, NestedOn
<1> QED BY <1>0, <1>1, <1>3, <1>4, <1>5, <1>6, <1>7 DEF DbInv

(* A call enters at a clause it sees, with code to run.                    *)
LEMMA CallKeeps ==
    ASSUME DbInv, NEW key \in Keys \cup {AnyKey}, Call(key)
    PROVE  DbInv'
<1> DEFINE f == Fresh(db, key)
           at == EntersAt(db, f)
           g == [f EXCEPT !.at = at]
<1>0. StoreInv(db) /\ db \in Stores /\ db.nextRef \in Nat /\ Len(goals) \in Nat /\ Len(goals) >= Base
  BY StoreIs, BaseIs DEF DbInv
<1>1. /\ f \in GoalRecs({None}) /\ f.gen = db.nextRef /\ f.code = (db.way = "code")
  BY <1>0 DEF Fresh, GoalRecs
<1> HIDE DEF f, at
<1>2. g \in GoalRecs({at}) /\ g.gen = db.nextRef /\ g.code = (db.way = "code") /\ g.at = at
  BY <1>1 DEF GoalRecs
<1>3. ASSUME g.code
      PROVE  /\ db.mode = "code" /\ Spares(db, db.nextRef) /\ at \in 0..Len(db.slots)
             /\ at # None => Visible(db.slots[at], db.nextRef)
  <2>1. db.mode = "code" /\ db.way = "code" /\ db.entry = db.head /\ f.code = TRUE
        /\ db.head \in 0..Len(db.slots)
    BY <1>0, <1>1, <1>2, <1>3, StoreIs DEF StoreInv, EntersAtHead
  <2>2. at = IF Visible(db.slots[db.head], db.nextRef) THEN db.head ELSE Stop(db, f, db.head)
    BY <1>1, <2>1 DEF EntersAt, at
  <2>3. PICK rank : Ranks(db, rank)
    BY <1>0, StoreIs
  <2>4. /\ Stop(db, f, db.head) \in 0..Len(db.slots)
        /\ Stop(db, f, db.head) # None => Visible(db.slots[Stop(db, f, db.head)], db.nextRef)
    BY <1>0, <1>1, <2>1, <2>3, StopIs
  <2> QED BY <1>0, <2>1, <2>2, <2>4, SeesNow
<1>4. g = Called(db, key)
  BY DEF Called, f, at
<1> HIDE DEF g
<1>5. /\ db' = IF g.code THEN Ensure(db, g.at) ELSE db
      /\ goals' = IF g.at = None THEN goals ELSE Append(goals, g)
      /\ UNCHANGED txs
  BY <1>4 DEF Call
<1> QED BY <1>0, <1>2, <1>3, <1>5, Comes DEF DbInv

(* A walk over the slots needs no code.                                    *)
LEMMA CallWalkKeeps ==
    ASSUME DbInv, NEW key \in Keys \cup {AnyKey}, CallWalk(key)
    PROVE  DbInv'
<1> DEFINE f == [key |-> key, gen |-> db.nextRef, code |-> FALSE, at |-> None]
           at == Stop(db, f, CandFirst(db, key))
           g == [f EXCEPT !.at = at]
<1>0. db.nextRef \in Nat /\ Len(goals) \in Nat /\ Len(goals) >= Base
  BY StoreIs, BaseIs DEF DbInv
<1>1. /\ goals' = IF at = None THEN goals ELSE Append(goals, [f EXCEPT !.at = at])
      /\ UNCHANGED <<db, txs>>
  BY DEF CallWalk
<1> HIDE DEF at
<1>2. g \in GoalRecs({at}) /\ g.code = FALSE /\ g.at = at
  BY <1>0 DEF GoalRecs
<1> HIDE DEF f, g
<1> QED BY <1>0, <1>1, <1>2, Comes DEF DbInv, g

(* A goal goes on to a clause it sees, with code to run.                   *)
LEMMA RedoKeeps ==
    ASSUME DbInv, Redo
    PROVE  DbInv'
<1> DEFINE l == Len(goals)
           g == goals[l]
           at == Stop(db, g, StepOf(db, g, g.at))
           h == [g EXCEPT !.at = at]
           gs == SubSeq(goals, 1, l - 1)
<1>0. StoreInv(db) /\ db \in Stores /\ db.nextRef \in Nat /\ l \in Nat /\ l > Base /\ Base \in Nat
      /\ l \in 1..l /\ l - 1 \in 0..l /\ GoalStack(goals) /\ GoalsServed(db, goals, db.nextRef)
  BY StoreIs, BaseIs DEF DbInv, Redo
<1>1. /\ goals' = IF at = None THEN gs ELSE Append(gs, h)
      /\ db' = IF g.code THEN Ensure(db, at) ELSE db
      /\ UNCHANGED txs
  BY DEF Redo, Front, Last
<1> HIDE DEF at, l, gs
<1>2. h \in GoalRecs({at}) /\ g.code \in BOOLEAN /\ h.gen = g.gen /\ h.code = g.code /\ h.at = at
  <2>1. PICK S : g \in GoalRecs(S)
    BY <1>0, GoalIs DEF l
  <2> HIDE DEF g
  <2> QED BY <2>1 DEF GoalRecs
<1>3. ASSUME g.code
      PROVE  /\ db.mode = "code" /\ g.gen <= db.nextRef /\ Spares(db, g.gen)
             /\ at \in 0..Len(db.slots)
             /\ at # None => Visible(db.slots[at], g.gen)
  <2>1. /\ db.mode = "code" /\ g.gen \in Nat /\ g.gen <= db.nextRef
        /\ g.at \in Slots(db) /\ Spares(db, g.gen) /\ g.code = TRUE
    BY <1>0, <1>2, <1>3 DEF GoalsServed, GoalIsServed, l
  <2> HIDE DEF g
  <2>2. PICK rank : Ranks(db, rank)
    BY <1>0, StoreIs
  <2>3. db.slots[g.at].next \in 0..Len(db.slots)
    BY <2>1, <2>2 DEF Ranks
  <2>4. at = Stop(db, g, db.slots[g.at].next)
    BY <2>1 DEF at, StepOf
  <2> QED BY <1>0, <2>1, <2>2, <2>3, <2>4, StopIs
<1>4. GoalStack(gs) /\ Len(gs) = l - 1 /\ GoalsServed(db, gs, db.nextRef)
  BY <1>0, GoalsCut DEF gs, l
<1> HIDE DEF h, g
<1>5. Len(gs) >= Base
  BY <1>0, <1>4
<1>6. /\ db' = IF h.code THEN Ensure(db, h.at) ELSE db
      /\ goals' = IF h.at = None THEN gs ELSE Append(gs, h)
  BY <1>1, <1>2
<1>7. h.code => /\ db.mode = "code" /\ h.gen <= db.nextRef /\ Spares(db, h.gen)
                /\ h.at \in 0..Len(db.slots)
                /\ h.at # None => Visible(db.slots[h.at], h.gen)
  BY <1>2, <1>3
<1> QED BY <1>1, <1>2, <1>4, <1>5, <1>6, <1>7, Comes

(* A goal that ends takes its needs with it.                               *)
LEMMA CutKeeps ==
    ASSUME DbInv, Cut
    PROVE  DbInv'
<1> DEFINE l == Len(goals)
           gs == SubSeq(goals, 1, l - 1)
<1>0. l \in Nat /\ l > Base /\ Base \in Nat /\ l - 1 \in 0..l /\ GoalStack(goals)
      /\ GoalsServed(db, goals, db.nextRef)
  BY BaseIs DEF DbInv, Cut
<1>1. goals' = gs /\ UNCHANGED <<db, txs>>
  BY DEF Cut, Front
<1>2. GoalStack(gs) /\ Len(gs) = l - 1 /\ GoalsServed(db, gs, db.nextRef)
  BY <1>0, GoalsCut
<1> HIDE DEF gs, l
<1>3. Nested(txs, gs)
  <2>1. Len(gs) \in Nat /\ Len(gs) >= Base
    BY <1>0, <1>2
  <2> QED BY <2>1, NestedOn
<1> QED BY <1>1, <1>2, <1>3 DEF DbInv

-----------------------------------------------------------------------------
(* Updates. *)

LEMMA ServedLater ==
    ASSUME NEW d, NEW gs, NEW m \in Nat, NEW k \in Nat, m <= k, GoalsServed(d, gs, m)
    PROVE  GoalsServed(d, gs, k)
<1> SUFFICES ASSUME NEW n \in 1..Len(gs), gs[n].code PROVE GoalIsServed(d, gs[n], k)
  BY DEF GoalsServed, GoalIsServed
<1>1. GoalIsServed(d, gs[n], m) /\ gs[n].gen \in Nat /\ gs[n].gen <= m
  BY DEF GoalsServed, GoalIsServed
<1>2. gs[n].gen <= k
  BY <1>1
<1> QED BY <1>1, <1>2 DEF GoalIsServed

(* Two logs joined name what both name.                                    *)
LEMMA SparesJoin ==
    ASSUME NEW d, NEW a \in Seq(Recs), NEW b \in Seq(Recs), LogSpares(d, a), LogSpares(d, b)
    PROVE  LogSpares(d, a \o b)
<1>1. /\ Len(a \o b) = Len(a) + Len(b)
      /\ \A k \in 1..Len(a) : (a \o b)[k] = a[k]
      /\ \A k \in Len(a) + 1..Len(a) + Len(b) : (a \o b)[k] = b[k - Len(a)]
  BY ConcatProperties
<1>2. ASSUME NEW k \in 1..Len(a \o b)
      PROVE  /\ (a \o b)[k].slot \in Slots(d)
             /\ (a \o b)[k].kind = "erase" => d.slots[(a \o b)[k].slot].code # "gone"
  <2>1. CASE k \in 1..Len(a)
    BY <1>1, <2>1 DEF LogSpares
  <2>2. CASE k \notin 1..Len(a)
    <3>1. k \in Len(a) + 1..Len(a) + Len(b) /\ k - Len(a) \in 1..Len(b)
      BY <1>1, <2>2
    <3> QED BY <1>1, <3>1 DEF LogSpares
  <2> QED BY <2>1, <2>2
<1> QED BY <1>2 DEF LogSpares

(* What an update logs, with the transaction that is open. *)
LEMMA LoggedIs ==
    ASSUME DbInv, NEW d \in Stores, LogsSpare(d, txs), NEW records \in Seq(Recs), LogSpares(d, records),
           d.pins >= db.pins,
           txs # <<>> => d.pins >= db.pins + Cardinality(ErasesIn(records))
    PROVE  LET ts == Logged(records)
           IN  /\ ts \in Seq(Txs) /\ Nested(ts, goals) /\ LogsSpare(d, ts) /\ Pinned(d, ts)
<1>0. txs \in Seq(Txs) /\ Nested(txs, goals) /\ db \in Stores /\ Pinned(db, txs)
  BY DEF DbInv, StoreInv
<1>1. CASE txs = <<>>
  <2>1. Logged(records) = txs
    BY <1>1 DEF Logged
  <2>2. Pinned(d, txs)
    <3>1. PICK sum : Sums(txs, sum) /\ db.pins >= sum[Len(txs)]
      BY <1>0 DEF Pinned
    <3>2. sum[Len(txs)] = 0 /\ d.pins \in Nat
      BY <1>1, <3>1 DEF Sums, Stores
    <3> QED BY <3>1, <3>2 DEF Pinned
  <2> QED BY <1>0, <2>1, <2>2
<1>2. CASE txs # <<>>
  <2> DEFINE l == Len(txs)
             old == txs[l]
             tx == [old EXCEPT !.log = records \o @]
             ts == Stacked(txs, l - 1, tx)
  <2>1. Logged(records) = ts
    BY <1>2 DEF Logged, Front, Last, Stacked
  <2>2. Pinned(d, ts)
    BY <1>0, <1>2, PinnedLogged
  <2>3. l \in 1..l /\ l - 1 \in 0..l /\ l \in Nat /\ old \in Txs
    BY <1>0, <1>2
  <2> HIDE DEF old
  <2>4. old.log \in Seq(Recs) /\ tx \in Txs /\ tx.log = records \o old.log /\ tx.goals = old.goals
    BY <2>3, JoinCount DEF Txs
  <2> HIDE DEF tx, l
  <2>5. ts \in Seq(Txs) /\ Len(ts) = l /\ (\A k \in 1..l - 1 : ts[k] = txs[k]) /\ ts[l] = tx
    <3>1. l - 1 \in 0..Len(txs) /\ l - 1 + 1 = l
      BY <2>3 DEF l
    <3>2. /\ ts \in Seq(Txs) /\ Len(ts) = l - 1 + 1 /\ \A k \in 1..l - 1 : ts[k] = txs[k]
          /\ ts[l - 1 + 1] = tx
      BY <1>0, <2>4, <3>1, StackedIs
    <3> HIDE DEF ts
    <3> QED BY <3>1, <3>2
  <2> HIDE DEF ts
  <2>6. \A k \in 1..l : k = l \/ k \in 1..l - 1
    BY <2>3
  <2>7. \A k \in 1..l : ts[k].goals = txs[k].goals
    BY <2>4, <2>5, <2>6 DEF old
  <2>8. Nested(ts, goals)
    BY <1>0, <2>3, <2>5, <2>7 DEF Nested, l
  <2>9. LogSpares(d, tx.log)
    <3>1. LogSpares(d, old.log)
      BY <2>3 DEF LogsSpare, old, l
    <3> QED BY <2>4, <3>1, SparesJoin
  <2>10. LogsSpare(d, ts)
    <3>1. \A k \in 1..l - 1 : LogSpares(d, txs[k].log)
      BY <2>3 DEF LogsSpare, l
    <3> QED BY <2>5, <2>6, <2>9, <3>1 DEF LogsSpare
  <2> QED BY <2>1, <2>2, <2>5, <2>8, <2>10
<1> QED BY <1>1, <1>2

(* Clauses have been erased, and code is reclaimed. *)
LEMMA Updated ==
    ASSUME DbInv, NEW d, StoreInv(d), GoalsServed(d, goals, d.nextRef), LogsSpare(d, txs),
           NEW records \in Seq(Recs), LogSpares(d, records),
           d.pins >= db.pins,
           txs # <<>> => d.pins >= db.pins + Cardinality(ErasesIn(records)),
           NEW ok \in BOOLEAN,
           db' = Reclaim(d, ok), txs' = Logged(records), UNCHANGED goals
    PROVE  DbInv'
<1> DEFINE e == Reclaim(d, ok)
           ts == Logged(records)
<1>1. d \in Stores /\ d.nextRef \in Nat /\ GoalStack(goals)
  BY StoreIs DEF DbInv
<1>2. ts \in Seq(Txs) /\ Nested(ts, goals) /\ LogsSpare(d, ts) /\ Pinned(d, ts)
  BY <1>1, LoggedIs
<1> HIDE DEF ts
<1>3. /\ StoreInv(e) /\ Recoded(d, e) /\ GoalsServed(e, goals, d.nextRef) /\ LogsSpare(e, ts)
  BY <1>1, <1>2, ReclaimKeeps
<1> HIDE DEF e
<1>4. e.nextRef = d.nextRef /\ Pinned(e, ts)
  BY <1>2, <1>3 DEF Recoded, Pinned
<1>5. db' = e /\ txs' = ts /\ goals' = goals
  BY DEF e, ts
<1> QED BY <1>1, <1>2, <1>3, <1>4, <1>5 DEF DbInv

(* A reversed sequence has the members and the length.                     *)
LEMMA ReversedIs ==
    ASSUME NEW V, NEW s \in Seq(V)
    PROVE  Reverse(s) \in Seq(V) /\ Len(Reverse(s)) = Len(s)
<1>1. Reverse(s) = [n \in 1..Len(s) |-> s[(Len(s) - n) + 1]]
  BY DEF Reverse
<1>2. \A n \in 1..Len(s) : s[(Len(s) - n) + 1] \in V
  OBVIOUS
<1> QED BY <1>1, <1>2

(* Clauses that are not erased are erased with times that lie ahead. *)
LEMMA ErasedAll ==
    ASSUME DbInv, NEW S, \A i \in S : i \in Slots(db) /\ ~Erased(db, i), NEW seq \in Seq(S),
           NEW k \in Nat, NEW gens,
           \A n \in 1..Len(seq) : /\ gens[n] \in Nat /\ db.nextRef <= gens[n]
                                  /\ gens[n] < db.nextRef + k
    PROVE  LET e == EraseEach([db EXCEPT !.nextRef = @ + k], seq, gens)
               records == Reverse([n \in 1..Len(seq) |-> Rec("erase", seq[n])])
           IN  /\ StoreInv(e) /\ e.mode = db.mode /\ e.way = db.way /\ GoalsServed(e, goals, e.nextRef)
               /\ LogsSpare(e, txs) /\ records \in Seq(Recs) /\ LogSpares(e, records)
               /\ e.pins >= db.pins
               /\ txs # <<>> => e.pins >= db.pins + Cardinality(ErasesIn(records))
<1> DEFINE d == [db EXCEPT !.nextRef = @ + k]
           m == db.nextRef
           e == EraseEach(d, seq, gens)
           V == {r \in Recs : r.kind = "erase" /\ r.slot \in S}
           list == [n \in 1..Len(seq) |-> Rec("erase", seq[n])]
           records == Reverse(list)
<1>0. StoreInv(db) /\ db \in Stores /\ m \in Nat /\ db.pins \in Nat /\ m + k \in Nat
      /\ GoalsServed(db, goals, m) /\ LogsSpare(db, txs)
  BY StoreIs DEF DbInv, Stores
<1>1. Settled(db, d, m) /\ d.slots = db.slots /\ d.nextRef = m + k /\ d.pins = db.pins
  BY <1>0, LaterIs
<1> HIDE DEF d
<1>2. StoreInv(d) /\ d \in Stores /\ Slots(d) = Slots(db) /\ d.mode = db.mode
  BY <1>1 DEF Settled, StoreInv, Slots
<1>3. \A n \in 1..Len(seq) : seq[n] \in S
  OBVIOUS
<1>4. seq \in Seq(Slots(d)) /\ \A n \in 1..Len(seq) : Stays(d, seq[n], m)
  <2>1. S \subseteq Slots(d)
    BY <1>2
  <2>2. \A n \in 1..Len(seq) : d.slots[seq[n]].erased = 0
    BY <1>1, <1>3 DEF Erased
  <2>3. seq \in Seq(Slots(d))
    BY <2>1
  <2> QED BY <2>2, <2>3 DEF Stays
<1>5. \A n \in 1..Len(seq) : gens[n] \in Nat /\ gens[n] # 0 /\ m <= gens[n] /\ gens[n] < d.nextRef
  <2> SUFFICES ASSUME NEW n \in 1..Len(seq)
               PROVE  gens[n] \in Nat /\ gens[n] # 0 /\ m <= gens[n] /\ gens[n] < d.nextRef
    OBVIOUS
  <2>1. seq[n] \in Slots(db)
    BY <1>3
  <2>2. db.slots[seq[n]].ref \in Nat /\ db.slots[seq[n]].ref < m
    BY <1>0, <2>1, SlotIs DEF StoreInv, Dated
  <2> QED BY <1>0, <1>1, <2>2
<1> HIDE DEF m
<1>6. Unseen(d, e, m) /\ e.pins = IF txs = <<>> THEN d.pins ELSE d.pins + Len(seq)
  BY <1>0, <1>2, <1>4, <1>5, EraseEachKeeps
<1> HIDE DEF e
<1>7. StoreInv(e) /\ e.mode = db.mode /\ e.way = db.way /\ e.nextRef = m + k /\ Slots(e) = Slots(db)
      /\ \A i \in Slots(db) : e.slots[i].code = db.slots[i].code
  BY <1>1, <1>2, <1>6 DEF Unseen, Settled, Slots
<1>8. GoalsServed(e, goals, e.nextRef)
  <2>1. GoalsServed(d, goals, m)
    BY <1>0, <1>1 DEF Settled
  <2>2. GoalsServed(e, goals, m)
    BY <1>0, <1>2, <1>6, <2>1, UnseenServes
  <2> QED BY <1>0, <1>7, <2>2, ServedLater
<1>9. LogsSpare(e, txs)
  BY <1>0, <1>7 DEF LogsSpare, LogSpares
<1>10. records \in Seq(V) /\ Len(records) = Len(seq)
  <2>1. \A n \in 1..Len(seq) : Rec("erase", seq[n]) \in V
    <3>1. \A i \in S : Rec("erase", i) \in Recs /\ Rec("erase", i).kind = "erase" /\ Rec("erase", i).slot = i
      <4>1. \A i \in S : i \in Nat
        BY <1>0 DEF Slots, Stores
      <4> QED BY <4>1 DEF Rec, Recs
    <3> QED BY <1>3, <3>1
  <2> HIDE DEF V
  <2>2. list \in Seq(V) /\ Len(list) = Len(seq)
    BY <2>1
  <2> HIDE DEF list
  <2> QED BY <2>2, ReversedIs
<1>11. records \in Seq(Recs)
  <2>1. V \subseteq Recs
    OBVIOUS
  <2> HIDE DEF V, records
  <2> QED BY <1>10, <2>1
<1> HIDE DEF records
<1>12. LogSpares(e, records)
  <2> SUFFICES ASSUME NEW n \in 1..Len(records)
               PROVE  records[n].slot \in Slots(e) /\ e.slots[records[n].slot].code # "gone"
    BY DEF LogSpares
  <2>1. records[n] \in V
    <3> HIDE DEF V
    <3> QED BY <1>10
  <2>2. records[n].slot \in Slots(db) /\ ~Erased(db, records[n].slot)
    BY <2>1
  <2> QED BY <1>0, <1>7, <2>2 DEF StoreInv, Dated
<1>13. Cardinality(ErasesIn(records)) \in Nat /\ Cardinality(ErasesIn(records)) <= Len(seq)
  BY <1>10, <1>11, CountIs
<1>14. e.pins >= db.pins /\ (txs # <<>> => e.pins >= db.pins + Cardinality(ErasesIn(records)))
  BY <1>0, <1>1, <1>6, <1>13
<1> QED BY <1>7, <1>8, <1>9, <1>11, <1>12, <1>14 DEF e, d, records

(* An assertion takes no code away, and dates its clause in order.         *)
LEMMA AssertKeeps ==
    ASSUME DbInv, Strict, NEW c \in Clauses, NEW front \in BOOLEAN, AssertClause(c, front)
    PROVE  DbInv'
<1>1. PICK ok \in BOOLEAN :
          LET i == Len(db.slots) + 1
              r == Reclaim(db, ok)
              s == IxNote(Linked(Stored(r, c), i, front), i, front)
          IN  /\ db' = Place(s, i, c.rule)
              /\ txs' = Logged(<<Rec(IF front THEN "asserta" ELSE "assertz", i)>>)
  BY DEF AssertClause
<1> DEFINE i == Len(db.slots) + 1
           r == Reclaim(db, ok)
           rec == Rec(IF front THEN "asserta" ELSE "assertz", i)
           e == Place(Bound(r, c, front), NewSlot(r), c.rule)
<1>0. StoreInv(db) /\ db \in Stores /\ db.nextRef \in Nat /\ db.pins \in Nat /\ i \in Nat
      /\ GoalsServed(db, goals, db.nextRef) /\ LogsSpare(db, txs) /\ Pinned(db, txs)
      /\ txs \in Seq(Txs) /\ GoalStack(goals)
  BY StoreIs DEF DbInv, Stores
<1>2. /\ StoreInv(r) /\ Recoded(db, r) /\ r.mode = db.mode /\ GoalsServed(r, goals, db.nextRef)
      /\ LogsSpare(r, txs)
  BY <1>0, ReclaimKeeps
<1> HIDE DEF r
<1>3. r.nextRef = db.nextRef /\ r.pins = db.pins /\ NewSlot(r) = i
      /\ (HeadDead(r) <=> HeadDead(db))
  BY <1>0, <1>2, RecodedKeeps DEF Recoded, NewSlot, HeadDead, Chained, StoreInv, Slots, None
<1>4. ~(c.rule /\ r.mode # "code" /\ HeadDead(r) /\ ~front)
  BY <1>2, <1>3 DEF AssertClause
<1>5. /\ StoreInv(e) /\ Grows(r, e) /\ i \in Slots(e)
      /\ e.nextRef = db.nextRef + 1 /\ e.pins = db.pins
  BY <1>2, <1>3, <1>4, PlacedKeeps
<1>6. db' = e /\ txs' = Logged(<<rec>>) /\ goals' = goals
  <2>1. Bound(r, c, front) = IxNote(Linked(Stored(r, c), i, front), i, front)
    BY <1>3 DEF Bound
  <2> QED BY <1>1, <1>3, <2>1 DEF r, AssertClause
<1> HIDE DEF e, i
<1>7. GoalsServed(e, goals, e.nextRef) /\ LogsSpare(e, txs) /\ e \in Stores
  BY <1>0, <1>2, <1>5, GoalsCarry, LogsCarry DEF StoreInv
<1>8. <<rec>> \in Seq(Recs) /\ LogSpares(e, <<rec>>) /\ ErasesIn(<<rec>>) = {}
  <2>1. rec \in Recs /\ rec.slot = i /\ rec.kind # "erase"
    BY <1>0 DEF Rec, Recs
  <2> HIDE DEF rec
  <2> QED BY <1>5, <2>1 DEF LogSpares, ErasesIn
<1> HIDE DEF rec
<1>9. e.pins >= db.pins /\ e.pins >= db.pins + Cardinality(ErasesIn(<<rec>>))
  <2>1. Cardinality(ErasesIn(<<rec>>)) = 0
    BY <1>8, FS_EmptySet
  <2> QED BY <1>0, <1>5, <2>1
<1>10. LET ts == Logged(<<rec>>)
       IN  ts \in Seq(Txs) /\ Nested(ts, goals) /\ LogsSpare(e, ts) /\ Pinned(e, ts)
  BY <1>7, <1>8, <1>9, LoggedIs
<1> QED BY <1>0, <1>5, <1>6, <1>7, <1>10 DEF DbInv

(* An erasure is dated after every goal that runs.                         *)
LEMMA EraseKeeps ==
    ASSUME DbInv, NEW i \in 1..MaxSlots, Erase(i)
    PROVE  DbInv'
<1> DEFINE m == db.nextRef
           b == Bump(db)
           p == IF txs = <<>> THEN b.pins ELSE b.pins + 1
           e == EraseSlot(b, i, m)
           rec == Rec("erase", i)
<1>0. /\ StoreInv(db) /\ db \in Stores /\ m \in Nat /\ db.pins \in Nat /\ GoalsServed(db, goals, m)
      /\ LogsSpare(db, txs) /\ i \in Slots(db) /\ ~Erased(db, i)
  BY StoreIs DEF DbInv, Erase, Stores
<1>1. Settled(db, b, m) /\ b.slots = db.slots /\ b.nextRef = m + 1 /\ b.pins = db.pins
  BY <1>0, BumpIs
<1> HIDE DEF b
<1>2. StoreInv(b) /\ b \in Stores /\ i \in Slots(b) /\ Stays(b, i, m) /\ b.mode = db.mode
      /\ Slots(b) = Slots(db)
  BY <1>0, <1>1 DEF Settled, StoreInv, Slots, Stays, Erased
<1>3. m # 0
  <2>1. db.slots[i].ref \in Nat /\ db.slots[i].ref < m
    BY <1>0, SlotIs DEF StoreInv, Dated
  <2> QED BY <1>0, <2>1
<1> HIDE DEF m
<1>4. e = Noted(b, i, m, p) /\ p \in Nat
  BY <1>0, <1>2, EraseSlotIs
<1>5. Unseen(b, e, m) /\ e.pins = p
  BY <1>0, <1>1, <1>2, <1>3, <1>4, NotedKeeps
<1> HIDE DEF e, p
<1>6. StoreInv(e) /\ e.nextRef = m + 1 /\ Slots(e) = Slots(db)
      /\ \A j \in Slots(db) : e.slots[j].code = db.slots[j].code
  BY <1>1, <1>2, <1>5 DEF Unseen, Settled, Slots
<1>7. GoalsServed(e, goals, e.nextRef)
  <2>1. GoalsServed(b, goals, m)
    BY <1>0, <1>1 DEF Settled
  <2>2. GoalsServed(e, goals, m)
    BY <1>0, <1>2, <1>5, <2>1, UnseenServes
  <2> QED BY <1>0, <1>6, <2>2, ServedLater
<1>8. LogsSpare(e, txs)
  BY <1>0, <1>6 DEF LogsSpare, LogSpares
<1>9. <<rec>> \in Seq(Recs) /\ LogSpares(e, <<rec>>)
  <2>1. rec \in Recs /\ rec.slot = i
    BY <1>0 DEF Rec, Recs, Slots, Stores
  <2> HIDE DEF rec
  <2>2. e.slots[i].code # "gone"
    BY <1>0, <1>6 DEF StoreInv, Dated
  <2> QED BY <1>0, <1>6, <2>1, <2>2 DEF LogSpares
<1> HIDE DEF rec
<1>10. Cardinality(ErasesIn(<<rec>>)) \in Nat /\ Cardinality(ErasesIn(<<rec>>)) <= 1
  BY <1>9, CountIs
<1>11. e.pins >= db.pins /\ (txs # <<>> => e.pins >= db.pins + Cardinality(ErasesIn(<<rec>>)))
  BY <1>0, <1>1, <1>5, <1>10 DEF p
<1>12. PICK ok \in BOOLEAN : db' = Reclaim(e, ok)
  BY DEF Erase, e, m, b
<1>13. txs' = Logged(<<rec>>) /\ goals' = goals
  BY DEF Erase, rec
<1> QED BY <1>6, <1>7, <1>8, <1>9, <1>11, <1>12, <1>13, Updated

(* So are all the erasures of a retractall/1.                              *)
LEMMA RetractAllKeeps ==
    ASSUME DbInv, NEW key \in Keys \cup {AnyKey}, RetractAll(key)
    PROVE  DbInv'
<1> DEFINE hits == {i \in Slots(db) : ~Erased(db, i) /\ ~Rejects(db, i, key)}
           from == IF db.ix = NoIx \/ key = AnyKey THEN [i \in Slots(db) |-> i] ELSE db.ix.of[key]
           seq  == Only(from, hits)
           k == Len(seq)
           gens == [n \in DOMAIN seq |-> db.nextRef + n - 1]
           e == EraseEach([db EXCEPT !.nextRef = @ + k], seq, gens)
           records == Reverse([n \in 1..Len(seq) |-> Rec("erase", seq[n])])
<1>1. db \in Stores /\ db.nextRef \in Nat
  BY StoreIs DEF DbInv
<1>2. Len(from) \in Nat
  <2>1. [i \in Slots(db) |-> i] \in Seq(Nat)
    BY <1>1 DEF Slots, Stores
  <2>2. db.ix # NoIx /\ key # AnyKey => db.ix.of[key] \in Seq(Nat)
    BY <1>1 DEF Stores, Indexes
  <2>3. from \in Seq(Nat)
    BY <2>1, <2>2
  <2> HIDE DEF from
  <2> QED BY <2>3
<1>3. seq \in Seq(hits)
  <2> HIDE DEF from, hits
  <2> QED BY <1>2, OnlyIs
<1>4. \A i \in hits : i \in Slots(db) /\ ~Erased(db, i)
  OBVIOUS
<1>5. /\ \E ok \in BOOLEAN : db' = Reclaim(e, ok)
      /\ txs' = Logged(records) /\ goals' = goals
  BY DEF RetractAll
<1> HIDE DEF hits, seq
<1>6. k \in Nat /\ \A n \in 1..Len(seq) : /\ gens[n] \in Nat /\ db.nextRef <= gens[n]
                                          /\ gens[n] < db.nextRef + k
  BY <1>1, <1>3
<1> HIDE DEF k, gens
<1>7. /\ StoreInv(e) /\ GoalsServed(e, goals, e.nextRef)
      /\ LogsSpare(e, txs) /\ records \in Seq(Recs) /\ LogSpares(e, records)
      /\ e.pins >= db.pins
      /\ txs # <<>> => e.pins >= db.pins + Cardinality(ErasesIn(records))
  BY <1>3, <1>4, <1>6, ErasedAll
<1> HIDE DEF e, records
<1> QED BY <1>5, <1>7, Updated

(* The predicate is left to a stub that raises: its clauses are as before. *)
Off(d, empty) == [d EXCEPT !.mode = IF @ = "data" THEN "fresh" ELSE @,
                           !.way = IF empty THEN @ ELSE "absent"]

(* An abolished predicate keeps its slots and their codes.                 *)
LEMMA OffIs ==
    ASSUME NEW e, StoreInv(e), NEW empty
    PROVE  LET off == Off(e, empty)
           IN  /\ StoreInv(off) /\ Recoded(e, off) /\ off.nextRef = e.nextRef /\ off.pins = e.pins
               /\ \A gs, m : GoalsServed(e, gs, m) => GoalsServed(off, gs, m)
               /\ \A log : LogSpares(e, log) => LogSpares(off, log)
<1> DEFINE off == Off(e, empty)
           mode == IF e.mode = "data" THEN "fresh" ELSE e.mode
           way == IF empty THEN e.way ELSE "absent"
<1>9. e \in Stores /\ EntersAtHead(e)
  BY DEF StoreInv
<1>8. off = [e EXCEPT !.mode = mode, !.way = way]
  BY DEF Off
<1> HIDE DEF off
<1>10. mode \in {"fresh", "data", "code"} /\ (mode = "code" <=> e.mode = "code")
       /\ way \in {"none", "data", "code", "absent"} /\ (e.way # "code" => way # "code")
  BY <1>9 DEF Stores
<1> HIDE DEF mode, way
<1>11. /\ off \in Stores /\ off.slots = e.slots /\ off.head = e.head /\ off.tail = e.tail
       /\ off.nextRef = e.nextRef /\ off.mode = mode /\ off.way = way /\ off.entry = e.entry
       /\ off.lo = e.lo /\ off.pins = e.pins /\ off.ix = e.ix /\ off.ixOff = e.ixOff
  BY <1>8, <1>9, <1>10 DEF Stores
<1>12. Slots(off) = Slots(e) /\ \A i : Erased(off, i) <=> Erased(e, i)
  BY <1>11 DEF Slots, Erased
<1>13. StoreInv(off)
  <2>1. Chained(off) /\ Dated(off)
    BY <1>11, <1>12 DEF StoreInv, Chained, Ranks, Dated
  <2>2. EntersAtHead(off)
    BY <1>9, <1>10, <1>11, <1>12 DEF EntersAtHead, HasCode
  <2>3. ScanSees(off)
    BY <1>11, <1>12 DEF StoreInv, ScanSees, Candidate, HasCode
  <2> QED BY <1>11, <2>1, <2>2, <2>3 DEF StoreInv
<1>14. /\ \A gs, m : GoalsServed(e, gs, m) => GoalsServed(off, gs, m)
       /\ \A log : LogSpares(e, log) => LogSpares(off, log)
  BY <1>10, <1>11, <1>12 DEF GoalsServed, GoalIsServed, Spares, LogSpares
<1>15. Recoded(e, off)
  BY <1>11 DEF Recoded
<1> QED BY <1>11, <1>13, <1>14, <1>15 DEF off

(* The erasures of an abolish/1 are dated after every goal that runs.      *)
LEMMA AbolishKeeps ==
    ASSUME DbInv, Abolish
    PROVE  DbInv'
<1> DEFINE hits == {i \in Slots(db) : ~Erased(db, i)}
           from == [i \in Slots(db) |-> i]
           seq  == Only(from, hits)
           gens == [n \in DOMAIN seq |-> db.nextRef]
           b == [db EXCEPT !.nextRef = @ + 1]
           e == EraseEach(b, seq, gens)
           off == Off(e, db.slots = <<>>)
           records == Reverse([n \in 1..Len(seq) |-> Rec("erase", seq[n])])
<1>1. db \in Stores /\ db.nextRef \in Nat
  BY StoreIs DEF DbInv
<1>2. seq \in Seq(hits)
  <2>1. from \in Seq(Nat)
    BY <1>1 DEF Slots, Stores
  <2>2. Len(from) \in Nat
    <3> HIDE DEF from
    <3> QED BY <2>1
  <2> HIDE DEF from, hits
  <2> QED BY <2>2, OnlyIs
<1>3. \A i \in hits : i \in Slots(db) /\ ~Erased(db, i)
  OBVIOUS
<1>4. /\ \E ok \in BOOLEAN :
             db' = Reclaim([EraseEach(Bump(db), seq, gens) EXCEPT
                                !.mode = IF @ = "data" THEN "fresh" ELSE @,
                                !.way = IF db.slots = <<>> THEN @ ELSE "absent"], ok)
      /\ txs' = Logged(records) /\ goals' = goals
  BY DEF Abolish
<1>5. Bump(db) = b
  BY DEF Bump
<1> HIDE DEF hits, seq, b
<1>6. \A n \in 1..Len(seq) : /\ gens[n] \in Nat /\ db.nextRef <= gens[n]
                             /\ gens[n] < db.nextRef + 1
  BY <1>1, <1>2
<1> HIDE DEF gens
<1>7. /\ StoreInv(e) /\ GoalsServed(e, goals, e.nextRef)
      /\ LogsSpare(e, txs) /\ records \in Seq(Recs) /\ LogSpares(e, records)
      /\ e.pins >= db.pins
      /\ txs # <<>> => e.pins >= db.pins + Cardinality(ErasesIn(records))
  BY <1>2, <1>3, <1>6, ErasedAll DEF b
<1> HIDE DEF e, records
<1>8. \E ok \in BOOLEAN : db' = Reclaim(off, ok)
  BY <1>4, <1>5 DEF e, Off
<1>9. /\ StoreInv(off) /\ off.nextRef = e.nextRef /\ off.pins = e.pins
      /\ \A gs, m : GoalsServed(e, gs, m) => GoalsServed(off, gs, m)
      /\ \A log : LogSpares(e, log) => LogSpares(off, log)
  BY <1>7, OffIs
<1> HIDE DEF off
<1>10. GoalsServed(off, goals, off.nextRef) /\ LogsSpare(off, txs) /\ LogSpares(off, records)
  BY <1>7, <1>9 DEF LogsSpare
<1> QED BY <1>4, <1>7, <1>8, <1>9, <1>10, Updated

-----------------------------------------------------------------------------
(* Transactions. *)

LEMMA OpenKeeps ==
    ASSUME DbInv, Open
    PROVE  DbInv'
<1> DEFINE tx == [log |-> <<>>, goals |-> Len(goals)]
           ts == Append(txs, tx)
<1>0. /\ txs \in Seq(Txs) /\ Nested(txs, goals) /\ LogsSpare(db, txs) /\ Pinned(db, txs)
      /\ db \in Stores /\ Len(goals) \in Nat /\ Len(txs) \in Nat
  BY BaseIs DEF DbInv, StoreInv
<1>1. txs' = ts /\ db' = db /\ goals' = goals
  BY DEF Open
<1>2. tx \in Txs /\ tx.log = <<>> /\ tx.goals = Len(goals)
  <2>1. <<>> \in Seq(Recs)
    OBVIOUS
  <2> QED BY <1>0, <2>1 DEF Txs
<1> HIDE DEF tx
<1>3. /\ ts \in Seq(Txs) /\ Len(ts) = Len(txs) + 1 /\ ts[Len(txs) + 1] = tx
      /\ \A k \in 1..Len(txs) : ts[k] = txs[k]
  BY <1>0, <1>2, AppendProperties
<1>4. Pinned(db, ts)
  BY <1>0, <1>2, PinnedOpened
<1> HIDE DEF ts
<1>5. \A k \in 1..Len(ts) : k \in 1..Len(txs) \/ k = Len(txs) + 1
  BY <1>0, <1>3
<1>6. LogsSpare(db, ts)
  <2>1. LogSpares(db, tx.log)
    BY <1>2 DEF LogSpares
  <2>2. \A k \in 1..Len(txs) : LogSpares(db, txs[k].log)
    BY <1>0 DEF LogsSpare
  <2> QED BY <1>3, <1>5, <2>1, <2>2 DEF LogsSpare
<1>7. Nested(ts, goals)
  <2>1. \A k \in 1..Len(ts) : ts[k].goals <= Len(goals)
    BY <1>0, <1>2, <1>3, <1>5 DEF Nested
  <2>2. ASSUME NEW k \in 1..Len(ts), NEW j \in 1..Len(ts), k <= j
        PROVE  ts[k].goals <= ts[j].goals
    <3>1. CASE j = Len(txs) + 1
      BY <1>2, <1>3, <2>1, <3>1
    <3>2. CASE j # Len(txs) + 1
      <4>1. j \in 1..Len(txs) /\ k \in 1..Len(txs)
        BY <1>0, <1>5, <2>2, <3>2
      <4> QED BY <1>0, <1>3, <2>2, <4>1 DEF Nested
    <3> QED BY <3>1, <3>2
  <2> QED BY <2>1, <2>2 DEF Nested
<1> QED BY <1>1, <1>3, <1>4, <1>6, <1>7 DEF DbInv

(* The goals of a transaction that ends are left. *)
LEMMA Leaves ==
    ASSUME DbInv
    PROVE  LET gs == SubSeq(goals, 1, Base)
           IN  GoalStack(gs) /\ Len(gs) = Base /\ \A m : GoalsServed(db, goals, m) => GoalsServed(db, gs, m)
<1>1. Base \in 0..Len(goals)
  BY BaseIs
<1> QED BY <1>1, GoalsCut DEF DbInv

(* The newest transaction is taken off. *)
LEMMA Closes ==
    ASSUME DbInv, txs # <<>>, NEW undo \in BOOLEAN,
           db' = TxDb(db, Last(txs).log, undo), txs' = SubSeq(txs, 1, Len(txs) - 1),
           goals' = SubSeq(goals, 1, Base)
    PROVE  DbInv'
<1> DEFINE l == Len(txs)
           log == txs[l].log
           m == db.nextRef
           e == TxDb(db, log, undo)
           ts == SubSeq(txs, 1, l - 1)
           gs == SubSeq(goals, 1, Base)
<1>0. /\ StoreInv(db) /\ db \in Stores /\ m \in Nat /\ txs \in Seq(Txs) /\ l \in Nat /\ l \in 1..l
      /\ log \in Seq(Recs) /\ Last(txs).log = log /\ GoalsServed(db, goals, m)
      /\ LogsSpare(db, txs) /\ LogSpares(db, log) /\ Pinned(db, txs) /\ Nested(txs, goals)
  BY BaseIs, StoreIs DEF DbInv, LogsSpare
<1> HIDE DEF log
<1>1. Settled(db, e, m) /\ e.pins + Cardinality(ErasesIn(log)) >= db.pins
  <2>1. m <= m
    BY <1>0
  <2> HIDE DEF m
  <2>2. LET x == TxDb(db, log, undo)
        IN  Settled(db, x, m) /\ x.pins + Cardinality(ErasesIn(log)) >= db.pins
    <3>1. m <= db.nextRef /\ m \in Nat
      BY ONLY <1>0, <2>1 DEF m
    <3> QED BY ONLY <1>0, <3>1, undo \in BOOLEAN, TxDbKeeps
  <2> QED BY ONLY <2>2 DEF e
<1>2. db' = e /\ txs' = ts /\ goals' = gs
  BY <1>0
<1> HIDE DEF e
<1>3. e \in Stores /\ StoreInv(e) /\ e.nextRef \in Nat /\ m <= e.nextRef /\ Slots(e) = Slots(db)
      /\ \A i \in Slots(db) : e.slots[i].code = db.slots[i].code
  BY <1>0, <1>1, StoreIs DEF Settled, Slots
<1>4. GoalStack(gs) /\ Len(gs) = Base /\ GoalsServed(db, gs, m)
  BY <1>0, Leaves
<1> HIDE DEF gs, m
<1>5. GoalsServed(e, gs, e.nextRef)
  BY <1>0, <1>1, <1>3, <1>4, ServedLater DEF Settled
<1>6. Pinned(e, ts)
  BY <1>0, <1>1, <1>3, PinnedClosed DEF log
<1>7. ts \in Seq(Txs) /\ Len(ts) = l - 1 /\ \A k \in 1..l - 1 : ts[k] = txs[k] /\ k \in 1..l
  <2>1. l - 1 \in 0..Len(txs)
    BY <1>0
  <2>2. ts \in Seq(Txs) /\ Len(ts) = l - 1 /\ \A k \in 1..l - 1 : ts[k] = txs[k]
    BY <1>0, <2>1, StackedIs
  <2> HIDE DEF ts
  <2>3. \A k \in 1..l - 1 : k \in 1..l
    BY <1>0
  <2> QED BY <2>2, <2>3
<1> HIDE DEF ts
<1>8. LogsSpare(e, ts)
  <2> SUFFICES ASSUME NEW k \in 1..l - 1 PROVE LogSpares(e, txs[k].log)
    BY <1>7 DEF LogsSpare
  <2>1. LogSpares(db, txs[k].log)
    BY <1>0, <1>7 DEF LogsSpare
  <2> QED BY <1>3, <2>1 DEF LogSpares
<1>9. Nested(ts, gs)
  BY <1>0, <1>4, <1>7, BaseIs DEF Nested
<1> QED BY <1>2, <1>3, <1>4, <1>5, <1>6, <1>7, <1>8, <1>9 DEF DbInv

(* A committed transaction hands its log on or gives up its pins.          *)
LEMMA CommitKeeps ==
    ASSUME DbInv, Commit
    PROVE  DbInv'
<1> DEFINE l == Len(txs)
           old == txs[l - 1]
           new == txs[l]
           tx == [old EXCEPT !.log = new.log \o @]
           ts == Stacked(txs, l - 2, tx)
           gs == SubSeq(goals, 1, Base)
<1>0. /\ StoreInv(db) /\ db \in Stores /\ db.nextRef \in Nat /\ txs \in Seq(Txs) /\ l \in Nat
      /\ l \in 1..l /\ GoalsServed(db, goals, db.nextRef) /\ LogsSpare(db, txs) /\ Pinned(db, txs)
      /\ Nested(txs, goals) /\ txs # <<>> /\ Last(txs) = new /\ goals' = gs
  BY BaseIs, StoreIs DEF DbInv, Commit
<1>1. CASE l > 1
  <2>1. txs' = ts /\ db' = db
    BY <1>0, <1>1 DEF Commit, Stacked
  <2>2. GoalStack(gs) /\ Len(gs) = Base /\ GoalsServed(db, gs, db.nextRef)
    BY <1>0, Leaves
  <2> HIDE DEF gs
  <2>3. l - 2 \in 0..l /\ l - 1 \in 1..l /\ l - 2 + 1 = l - 1 /\ old \in Txs /\ new \in Txs
        /\ \A k \in 1..l - 1 : k \in 1..l /\ (k = l - 1 \/ k \in 1..l - 2)
    BY <1>0, <1>1
  <2>4. Pinned(db, ts)
    BY <1>0, <1>1, PinnedJoined
  <2> HIDE DEF old, new
  <2>5. /\ old.log \in Seq(Recs) /\ new.log \in Seq(Recs) /\ tx \in Txs
        /\ tx.log = new.log \o old.log /\ tx.goals = old.goals
    BY <2>3, JoinCount DEF Txs
  <2> HIDE DEF tx, l
  <2>6. /\ ts \in Seq(Txs) /\ Len(ts) = l - 1 /\ (\A k \in 1..l - 2 : ts[k] = txs[k])
        /\ ts[l - 1] = tx
    <3>1. l - 2 \in 0..Len(txs)
      BY <2>3 DEF l
    <3>2. /\ ts \in Seq(Txs) /\ Len(ts) = l - 2 + 1 /\ \A k \in 1..l - 2 : ts[k] = txs[k]
          /\ ts[l - 2 + 1] = tx
      BY <1>0, <2>5, <3>1, StackedIs
    <3> HIDE DEF ts
    <3> QED BY <2>3, <3>2
  <2> HIDE DEF ts
  <2>7. \A k \in 1..l - 1 : ts[k].goals = txs[k].goals
    BY <2>3, <2>5, <2>6 DEF old
  <2>8. Nested(ts, gs)
    <3>1. \A k \in 1..l : txs[k].goals <= Base
      BY BaseIs DEF l
    <3> QED BY <1>0, <2>2, <2>3, <2>6, <2>7, <3>1 DEF Nested, l
  <2>9. LogsSpare(db, ts)
    <3>1. LogSpares(db, new.log) /\ LogSpares(db, old.log)
      BY <1>0, <2>3 DEF LogsSpare, new, old, l
    <3>2. LogSpares(db, tx.log)
      BY <2>5, <3>1, SparesJoin
    <3>3. \A k \in 1..l : LogSpares(db, txs[k].log)
      BY <1>0 DEF LogsSpare, l
    <3> QED BY <2>3, <2>6, <3>2, <3>3 DEF LogsSpare
  <2> QED BY <1>0, <2>1, <2>2, <2>4, <2>6, <2>8, <2>9 DEF DbInv
<1>2. CASE l = 1
  <2>1. txs' = SubSeq(txs, 1, l - 1)
    <3>1. txs' = <<>>
      BY <1>2 DEF Commit
    <3> QED BY <1>0, <1>2, <3>1
  <2>2. db' = TxDb(db, Last(txs).log, FALSE)
    BY <1>2 DEF Commit
  <2> QED BY <1>0, <2>1, <2>2, Closes
<1>3. l > 1 \/ l = 1
  <2>1. l \in Nat /\ l \in 1..l
    BY <1>0
  <2> HIDE DEF l
  <2> QED BY <2>1
<1> QED BY <1>1, <1>2, <1>3

(* An undone transaction finds the code of all it brings back.             *)
LEMMA UndoKeeps ==
    ASSUME DbInv, Undo
    PROVE  DbInv'
BY Closes DEF Undo, Front

(* A collection changes neither slots nor goals nor logs.                  *)
LEMMA CollectKeeps ==
    ASSUME DbInv, Collect \/ UNCHANGED vars
    PROVE  DbInv'
<1>1. db' = db /\ goals' = goals /\ txs' = txs
  BY DEF Collect, vars
<1> QED BY <1>1 DEF DbInv

-----------------------------------------------------------------------------
(* What follows. *)

(* No step takes code that a goal or a transaction still needs, and each   *)
(* leaves the store, the goals and the logs in order, as long as no first  *)
(* rule is asserted behind an erased head (Strict leaves that out).        *)
THEOREM DbInvariance ==
    ASSUME Strict
    PROVE  Spec => []DbInv
<1>1. Init => DbInv
  BY InitDb
<1>2. DbInv /\ [Next]_vars => DbInv'
  <2> SUFFICES ASSUME DbInv, [Next]_vars PROVE DbInv'
    OBVIOUS
  <2>1. ASSUME NEW key \in Keys \cup {AnyKey}, Call(key) PROVE DbInv'
    BY <2>1, CallKeeps
  <2>2. ASSUME NEW key \in Keys \cup {AnyKey}, CallWalk(key) PROVE DbInv'
    BY <2>2, CallWalkKeeps
  <2>3. ASSUME NEW key \in Keys \cup {AnyKey}, RetractAll(key) PROVE DbInv'
    BY <2>3, RetractAllKeeps
  <2>4. CASE Redo
    BY <2>4, RedoKeeps
  <2>5. CASE Cut
    BY <2>5, CutKeeps
  <2>6. CASE Abolish
    BY <2>6, AbolishKeeps
  <2>7. CASE Open
    BY <2>7, OpenKeeps
  <2>8. CASE Commit
    BY <2>8, CommitKeeps
  <2>9. CASE Undo
    BY <2>9, UndoKeeps
  <2>10. CASE Collect \/ UNCHANGED vars
    BY <2>10, CollectKeeps
  <2>11. ASSUME NEW c \in Clauses, NEW front \in BOOLEAN, AssertClause(c, front) PROVE DbInv'
    BY <2>11, AssertKeeps
  <2>12. ASSUME NEW i \in 1..MaxSlots, Erase(i) PROVE DbInv'
    BY <2>12, EraseKeeps
  <2> QED BY <2>1, <2>2, <2>3, <2>4, <2>5, <2>6, <2>7, <2>8, <2>9, <2>10, <2>11, <2>12 DEF Next
<1> QED BY <1>1, <1>2, PTL DEF Spec

(* The invariant has the code of every clause a goal may come to.          *)
LEMMA DbInvGivesCode == DbInv => CodeIsThere
<1> SUFFICES ASSUME DbInv PROVE CodeIsThere
  OBVIOUS
<1>1. StoreInv(db) /\ db \in Stores /\ db.head \in 0..Len(db.slots)
  BY StoreIs DEF DbInv
<1>2. PICK rank : Ranks(db, rank)
  BY <1>1, StoreIs
<1>3. ASSUME NEW n \in 1..Len(goals), goals[n].code, NEW i \in ToSet(Remaining(db, goals[n]))
      PROVE  db.slots[i].code # "gone"
  <2> DEFINE g == goals[n]
  <2>1. PICK S : g \in GoalRecs(S)
    BY GoalIs DEF DbInv
  <2>2. g.code = TRUE
    BY <1>3, <2>1 DEF GoalRecs
  <2>3. g.at \in Slots(db) /\ Visible(db.slots[g.at], g.gen) /\ Spares(db, g.gen)
    BY <1>3 DEF DbInv, GoalsServed, GoalIsServed
  <2> HIDE DEF g
  <2>4. i \in ToSet(Remaining(db, g))
    BY DEF g
  <2>5. i \in Slots(db) /\ (i = g.at \/ Visible(db.slots[i], g.gen))
    BY <1>1, <1>2, <2>2, <2>3, <2>4, RemainingIs
  <2> QED BY <2>3, <2>5 DEF Spares
<1>4. ASSUME NEW i \in ToSet(Live(db)) PROVE db.slots[i].code # "gone"
  <2> DEFINE S == {j \in Slots(db) : ~Erased(db, j)}
  <2>1. Packet(db, S) \in Seq(S \cap Slots(db))
    <3> HIDE DEF S
    <3> QED BY <1>1, <1>2, PacketIs
  <2>2. i \in ToSet(Packet(db, S))
    BY DEF Live
  <2>3. i \in S \cap Slots(db)
    <3> HIDE DEF S
    <3> QED BY <2>1, <2>2 DEF ToSet
  <2> QED BY <1>1, <2>3 DEF StoreInv, Dated
<1>5. db.way = "code" => HasCode(db, db.entry)
  BY <1>1 DEF StoreInv, EntersAtHead
<1> QED BY <1>3, <1>4, <1>5 DEF CodeIsThere

(* A goal that runs or waits finds the code of every clause it has yet to  *)
(* come to, and the next call finds its own: pl_db_reclaim never takes it. *)
THEOREM CodeStays ==
    ASSUME Strict
    PROVE  Spec => []CodeIsThere
BY DbInvariance, DbInvGivesCode, PTL

(* The scan for code to reclaim begins no later than the first clause      *)
(* whose code is to be reclaimed: none is passed over for good.            *)
THEOREM ScanIsComplete ==
    ASSUME Strict
    PROVE  Spec => []NothingForgotten
<1>1. DbInv => NothingForgotten
  BY DEF DbInv, StoreInv, ScanSees, NothingForgotten
<1> QED BY <1>1, DbInvariance, PTL

-----------------------------------------------------------------------------
(* The slots implement the logical view. *)

(* All slots are chained, from the head to the tail.                       *)
Whole(d) ==
    /\ d.tail # None => d.tail \in Slots(d) /\ d.slots[d.tail].next = None
    /\ \A i \in Slots(d) : /\ d.slots[i].next = None => i = d.tail
                           /\ i \in ToSet(Packet(d, Slots(d)))

(* The index has each clause of a key in its place; without it nothing is  *)
(* said of keys.                                                           *)
IxServes(d) ==
    /\ d.ixOff => d.ix = NoIx
    /\ d.ix # NoIx => /\ \A key \in Keys : d.ix.of[key] = ChainOf(d, key)
                      /\ \A i \in Slots(d) : d.slots[i].key # Var

(* A goal is at a clause it is meant to answer with.                       *)
Seen(d, g) == {i \in Slots(d) : Visible(d.slots[i], g.gen) /\ ~Rejects(d, i, g.key)}
Sees(d, g) == g.at \in Seen(d, g) /\ (g.code => g.key = AnyKey)
GoalsSee(d, gs) == \A n \in 1..Len(gs) : Sees(d, gs[n]) /\ gs[n].gen <= d.nextRef

(* What a transaction has changed, the goals below it do not tell apart.   *)
Covers(d, r, gen) ==
    IF r.kind = "erase" THEN d.slots[r.slot].erased = 0 \/ d.slots[r.slot].erased >= gen
    ELSE d.slots[r.slot].ref >= gen
LogsCover(d, ts, gs) ==
    \A m \in 1..Len(ts) : \A r \in ToSet(ts[m].log) : \A n \in 1..ts[m].goals : Covers(d, r, gs[n].gen)

(* Nothing is logged of a clause before it is asserted.                    *)
LogsOrder(ts) ==
    \A m \in 1..Len(ts) :
        /\ Ordered(ts[m].log)
        /\ \A r \in ToSet(ts[m].log) : r.kind # "erase" =>
               \A m2 \in 1..m - 1 : \A s \in ToSet(ts[m2].log) : s.slot # r.slot

ViewInv ==
    /\ db.nextRef > 0 /\ Whole(db) /\ IxServes(db) /\ GoalsSee(db, goals)
    /\ LogsCover(db, txs, goals) /\ LogsOrder(txs)

-----------------------------------------------------------------------------
(* Packets as lists: what is met of a set of slots on the way from a slot. *)

TraceOf(d, S) ==
    CHOOSE f : f = [i \in 0..Len(d.slots) |->
                        IF i = None THEN <<>>
                        ELSE (IF i \in S THEN <<i>> ELSE <<>>) \o f[d.slots[i].next]]
First(d, S, i) == IF TraceOf(d, S)[i] = <<>> THEN None ELSE TraceOf(d, S)[i][1]

(* What the slots on the way from one to the end are, member by member.    *)
LEMMA TraceIs ==
    ASSUME NEW d \in Stores, Chained(d), NEW S
    PROVE  /\ TraceOf(d, S)[None] = <<>>
           /\ \A i \in Slots(d) : i \in S => TraceOf(d, S)[i] = <<i>> \o TraceOf(d, S)[d.slots[i].next]
           /\ \A i \in Slots(d) : i \notin S => TraceOf(d, S)[i] = TraceOf(d, S)[d.slots[i].next]
           /\ \A i \in 0..Len(d.slots) : TraceOf(d, S)[i] \in Seq(S \cap Slots(d))
<1> DEFINE n == Len(d.slots)
           nx == NextOf(d)
           IsTrace(f) == f = [i \in 0..n |->
                                  IF i = None THEN <<>>
                                  ELSE (IF i \in S THEN <<i>> ELSE <<>>) \o f[d.slots[i].next]]
           w == TraceOf(d, S)
<1>0. PICK rank : Ranks(d, rank)
  BY DEF Chained
<1>1. n \in Nat /\ Falls(nx, rank, n)
  BY <1>0, NextFalls
<1>3. Follows(w, n, nx, S, TRUE)
  <2>1. ASSUME NEW f, NEW j \in 0..n
        PROVE  Follow(f, j, nx, S, TRUE) =
                   IF j = None THEN <<>>
                   ELSE (IF j \in S THEN <<j>> ELSE <<>>) \o f[d.slots[j].next]
    <3>1. j # None => nx[j] = d.slots[j].next
      BY <1>1 DEF NextOf, Slots, None
    <3> HIDE DEF n, nx
    <3> QED BY <3>1 DEF Follow
  <2>2. ASSUME NEW f PROVE Follows(f, n, nx, S, TRUE) <=> IsTrace(f)
    <3> HIDE DEF nx, n
    <3>1. [j \in 0..n |-> Follow(f, j, nx, S, TRUE)] =
          [i \in 0..n |-> IF i = None THEN <<>>
                          ELSE (IF i \in S THEN <<i>> ELSE <<>>) \o f[d.slots[i].next]]
      BY <2>1
    <3> QED BY <3>1 DEF Follows
  <2>0. w = CHOOSE f : IsTrace(f)
    BY DEF TraceOf
  <2> HIDE DEF n, nx, IsTrace, w
  <2>3. \E f : Follows(f, n, nx, S, TRUE)
    BY <1>1, FollowExists
  <2>4. IsTrace(w)
    BY <2>0, <2>2, <2>3
  <2> QED BY <2>2, <2>4
<1> HIDE DEF w
<1>4. \A j \in 0..n : w[j] = IF j = None THEN <<>>
                             ELSE (IF j \in S THEN <<j>> ELSE <<>>) \o w[nx[j]]
  BY <1>3 DEF Follow, Follows
<1>5. /\ None \in 0..n
      /\ \A j \in Slots(d) : j \in 0..n /\ j # None /\ nx[j] = d.slots[j].next
  BY <1>1 DEF NextOf, Slots, None
<1> DEFINE V == S \cap Slots(d)
           P == {j \in 0..n : w[j] \in Seq(V)}
<1>7. 0..n \subseteq P
  <2>0. \A j \in 1..n : j \in Slots(d)
    BY DEF Slots
  <2> HIDE DEF nx
  <2>1. None \in P
    <3> HIDE DEF n, V
    <3>1. w[None] = <<>>
      BY <1>4, <1>5
    <3>2. <<>> \in Seq(V)
      OBVIOUS
    <3> QED BY <1>5, <3>1, <3>2
  <2>2. ASSUME NEW j \in 1..n, nx[j] \in P PROVE j \in P
    <3> HIDE DEF n
    <3>0. j \in 0..n /\ j # None /\ j \in Slots(d)
      BY <1>5, <2>0
    <3>1. w[j] = (IF j \in S THEN <<j>> ELSE <<>>) \o w[nx[j]]
      BY <1>4, <3>0
    <3>2. (IF j \in S THEN <<j>> ELSE <<>>) \in Seq(V)
      <4>1. j \in S => j \in V
        BY <3>0
      <4> HIDE DEF V
      <4> QED BY <4>1
    <3> HIDE DEF V
    <3>3. w[j] \in Seq(V)
      BY <2>2, <3>1, <3>2, ConcatProperties
    <3> QED BY <3>0, <3>3
  <2> HIDE DEF P, n
  <2> QED BY <1>1, <2>1, <2>2, AlongTheChain
<1>8. \A i \in Slots(d) : w[i] = (IF i \in S THEN <<i>> ELSE <<>>) \o w[d.slots[i].next]
  <2> HIDE DEF n, nx
  <2> QED BY <1>4, <1>5
<1>9. w[None] = <<>>
  <2> HIDE DEF n, nx
  <2> QED BY <1>4, <1>5
<1>10. \A i \in 0..n : w[i] \in Seq(V)
  <2> HIDE DEF V, n
  <2> QED BY <1>7
<1>11. ASSUME NEW i \in Slots(d), i \in S PROVE w[i] = <<i>> \o w[d.slots[i].next]
  BY <1>8, <1>11
<1>12. ASSUME NEW i \in Slots(d), i \notin S PROVE w[i] = w[d.slots[i].next]
  <2>1. w[i] = <<>> \o w[d.slots[i].next]
    BY <1>8, <1>12
  <2>2. d.slots[i].next \in 0..n
    BY <1>0 DEF Ranks
  <2> HIDE DEF V, n
  <2>3. w[d.slots[i].next] \in Seq(V)
    BY <1>10, <2>2
  <2> QED BY <2>1, <2>3
<1> QED BY <1>9, <1>10, <1>11, <1>12 DEF w

(* A packet is what lies on the way from the head.                         *)
LEMMA PacketIsTrace ==
    ASSUME NEW d, NEW S
    PROVE  Packet(d, S) = TraceOf(d, S)[d.head]
BY DEF Packet, TraceOf

(* How a store is chained, in the form the proofs use. *)
LEMMA ChainIs ==
    ASSUME NEW d \in Stores, Chained(d)
    PROVE  /\ Len(d.slots) \in Nat /\ d.head \in 0..Len(d.slots) /\ None \in 0..Len(d.slots)
           /\ \A i \in Slots(d) : /\ d.slots[i].next \in 0..Len(d.slots)
                                  /\ i \in 0..Len(d.slots) /\ i # None
           /\ \A i \in 0..Len(d.slots) : i # None => i \in Slots(d)
           /\ \A P : None \in P /\ (\A i \in Slots(d) : d.slots[i].next \in P => i \in P)
                        => 0..Len(d.slots) \subseteq P
<1>1. PICK rank : Ranks(d, rank)
  BY DEF Chained
<1>2. Len(d.slots) \in Nat /\ Falls(NextOf(d), rank, Len(d.slots))
  BY <1>1, NextFalls
<1>3. /\ d.head \in 0..Len(d.slots) /\ None \in 0..Len(d.slots)
      /\ \A i \in Slots(d) : /\ d.slots[i].next \in 0..Len(d.slots)
                             /\ i \in 0..Len(d.slots) /\ i # None
      /\ \A i \in 0..Len(d.slots) : i # None => i \in Slots(d)
  BY <1>1, <1>2 DEF Chained, Ranks, Slots, None
<1>4. ASSUME NEW P, None \in P, \A i \in Slots(d) : d.slots[i].next \in P => i \in P
      PROVE  0..Len(d.slots) \subseteq P
  <2>1. \A j \in 1..Len(d.slots) : NextOf(d)[j] \in P => j \in P
    BY <1>4 DEF NextOf, Slots
  <2> QED BY <1>2, <1>4, <2>1, AlongTheChain
<1> QED BY <1>2, <1>3, <1>4

(* The first slot of S on the way from a slot. *)
LEMMA FirstIs ==
    ASSUME NEW d \in Stores, Chained(d), NEW S
    PROVE  /\ First(d, S, None) = None
           /\ \A i \in Slots(d) : i \in S => First(d, S, i) = i
           /\ \A i \in Slots(d) : i \notin S => First(d, S, i) = First(d, S, d.slots[i].next)
           /\ \A i \in 0..Len(d.slots) :
                  /\ First(d, S, i) \in 0..Len(d.slots)
                  /\ First(d, S, i) # None => First(d, S, i) \in S \cap Slots(d)
                  /\ TraceOf(d, S)[First(d, S, i)] = TraceOf(d, S)[i]
<1> DEFINE T == TraceOf(d, S)
           n == Len(d.slots)
           V == S \cap Slots(d)
<1>1. /\ T[None] = <<>>
      /\ \A i \in Slots(d) : i \in S => T[i] = <<i>> \o T[d.slots[i].next]
      /\ \A i \in Slots(d) : i \notin S => T[i] = T[d.slots[i].next]
      /\ \A i \in 0..n : T[i] \in Seq(V)
  BY TraceIs
<1>2. /\ n \in Nat /\ None \in 0..n
      /\ \A i \in Slots(d) : d.slots[i].next \in 0..n /\ i \in 0..n /\ i # None
      /\ \A i \in 0..n : i # None => i \in Slots(d)
  BY ChainIs
<1>3. \A i \in 0..n : First(d, S, i) = IF T[i] = <<>> THEN None ELSE T[i][1]
  BY DEF First
<1>4. First(d, S, None) = None
  BY <1>1 DEF First
<1>5. ASSUME NEW i \in Slots(d)
      PROVE  /\ i \in S => First(d, S, i) = i
             /\ i \notin S => First(d, S, i) = First(d, S, d.slots[i].next)
  <2>1. T[d.slots[i].next] \in Seq(V) /\ i \in 0..n /\ d.slots[i].next \in 0..n
    BY <1>1, <1>2
  <2>2. CASE i \in S
    <3>0. i \in V
      BY <2>2
    <3> HIDE DEF T, V
    <3>1. T[i] = <<i>> \o T[d.slots[i].next]
      BY <1>1, <2>2
    <3>3. <<i>> \in Seq(V)
      BY <3>0
    <3>2. T[i] # <<>> /\ T[i][1] = i
      BY <2>1, <3>1, <3>3
    <3> QED BY <1>3, <2>1, <2>2, <3>2
  <2>3. CASE i \notin S
    <3>1. T[i] = T[d.slots[i].next]
      BY <1>1, <2>3
    <3> HIDE DEF T, V
    <3> QED BY <1>3, <2>1, <2>3, <3>1
  <2> QED BY <2>2, <2>3
<1>6. ASSUME NEW i \in 0..n
      PROVE  /\ First(d, S, i) \in 0..n /\ (First(d, S, i) # None => First(d, S, i) \in V)
  <2>1. T[i] \in Seq(V) /\ (T[i] # <<>> => T[i][1] \in V)
    <3> HIDE DEF V, T
    <3>1. T[i] \in Seq(V)
      BY <1>1
    <3> QED BY <3>1
  <2>2. V \subseteq 0..n
    BY <1>2
  <2> HIDE DEF V, n, T
  <2> QED BY <1>2, <1>3, <2>1, <2>2
<1> DEFINE P == {i \in 0..n : T[First(d, S, i)] = T[i]}
<1>7. 0..n \subseteq P
  <2>1. None \in P
    BY <1>2, <1>4
  <2>2. ASSUME NEW i \in Slots(d), d.slots[i].next \in P PROVE i \in P
    <3>1. CASE i \in S
      BY <1>2, <1>5, <3>1
    <3>2. CASE i \notin S
      <4>2. T[i] = T[d.slots[i].next]
        BY <1>1, <3>2
      <4> QED BY <1>2, <1>5, <2>2, <3>2, <4>2
    <3> QED BY <3>1, <3>2
  <2> HIDE DEF P
  <2> QED BY <2>1, <2>2, ChainIs
<1>9. \A i \in 0..n : T[First(d, S, i)] = T[i]
  BY <1>7
<1> HIDE DEF T, V
<1> QED BY <1>4, <1>5, <1>6, <1>9 DEF T, V

(* The first member on the way lies no nearer to the head than the start.  *)
LEMMA FirstFalls ==
    ASSUME NEW d \in Stores, NEW rank, Ranks(d, rank), Chained(d), NEW S
    PROVE  \A i \in 0..Len(d.slots) : rank[First(d, S, i)] <= rank[i]
<1> DEFINE n == Len(d.slots)
           Q == {i \in 0..n : rank[First(d, S, i)] <= rank[i]}
<1>1. /\ None \in 0..n /\ \A i \in Slots(d) : d.slots[i].next \in 0..n /\ i \in 0..n
      /\ \A i \in 0..n : rank[i] \in Nat
  BY ChainIs DEF Ranks
<1>2. None \in Q
  BY <1>1, FirstIs
<1>3. ASSUME NEW i \in Slots(d), d.slots[i].next \in Q PROVE i \in Q
  <2>1. i \in 0..n
    BY <1>1
  <2>2. CASE i \in S
    <3>1. First(d, S, i) = i
      BY <2>2, FirstIs
    <3> QED BY <1>1, <2>1, <3>1
  <2>3. CASE i \notin S
    <3>1. First(d, S, i) \in 0..n /\ d.slots[i].next \in 0..n
      BY <1>1, FirstIs
    <3>5. First(d, S, i) = First(d, S, d.slots[i].next)
      BY <2>3, FirstIs
    <3>2. rank[d.slots[i].next] < rank[i]
      BY DEF Ranks
    <3>3. rank[First(d, S, i)] \in Nat /\ rank[d.slots[i].next] \in Nat /\ rank[i] \in Nat
      BY <1>1, <2>1, <3>1
    <3> HIDE DEF n
    <3>4. rank[First(d, S, i)] <= rank[d.slots[i].next]
      BY <1>3, <3>5
    <3> QED BY <2>1, <3>2, <3>3, <3>4
  <2> QED BY <2>2, <2>3
<1> HIDE DEF Q
<1>4. 0..n \subseteq Q
  BY <1>2, <1>3, ChainIs
<1> QED BY <1>4 DEF Q

(* To pass over what is not in a larger set changes nothing. *)
LEMMA FirstFirst ==
    ASSUME NEW d \in Stores, Chained(d), NEW S, NEW U, S \subseteq U
    PROVE  \A i \in 0..Len(d.slots) : First(d, S, First(d, U, i)) = First(d, S, i)
<1> DEFINE P == {i \in 0..Len(d.slots) : First(d, S, First(d, U, i)) = First(d, S, i)}
<1>1. None \in P
  BY ChainIs, FirstIs
<1>2. ASSUME NEW i \in Slots(d), d.slots[i].next \in P PROVE i \in P
  <2>1. i \in 0..Len(d.slots)
    BY ChainIs
  <2>2. CASE i \in U
    <3>1. First(d, U, i) = i
      BY <2>2, FirstIs
    <3> QED BY <2>1, <3>1
  <2>3. CASE i \notin U
    <3>1. First(d, U, i) = First(d, U, d.slots[i].next)
      BY <2>3, FirstIs
    <3>2. i \notin S
      BY <2>3
    <3>3. First(d, S, i) = First(d, S, d.slots[i].next)
      BY <3>2, FirstIs
    <3> QED BY <1>2, <2>1, <3>1, <3>3
  <2> QED BY <2>2, <2>3
<1> HIDE DEF P
<1>3. 0..Len(d.slots) \subseteq P
  BY <1>1, <1>2, ChainIs
<1> QED BY <1>3 DEF P

(* The members of two sequences joined.                                    *)
LEMMA ToSetConcat ==
    ASSUME NEW V, NEW a \in Seq(V), NEW b \in Seq(V)
    PROVE  ToSet(a \o b) = ToSet(a) \cup ToSet(b)
<1>1. /\ Len(a \o b) = Len(a) + Len(b) /\ Len(a) \in Nat /\ Len(b) \in Nat /\ a \o b \in Seq(V)
      /\ \A k \in 1..Len(a) : (a \o b)[k] = a[k]
      /\ \A k \in 1..Len(b) : (a \o b)[Len(a) + k] = b[k]
  OBVIOUS
<1>2. ASSUME NEW x, x \in ToSet(a \o b) PROVE x \in ToSet(a) \cup ToSet(b)
  <2>1. PICK k \in 1..Len(a) + Len(b) : (a \o b)[k] = x
    BY <1>1, <1>2 DEF ToSet
  <2>2. CASE k <= Len(a)
    BY <1>1, <2>1, <2>2 DEF ToSet
  <2>3. CASE k > Len(a)
    <3>1. k - Len(a) \in 1..Len(b) /\ b[k - Len(a)] = x
      BY <1>1, <2>1, <2>3
    <3> QED BY <3>1 DEF ToSet
  <2> QED BY <1>1, <2>1, <2>2, <2>3
<1>3. ASSUME NEW x, x \in ToSet(a) PROVE x \in ToSet(a \o b)
  <2>1. PICK k \in 1..Len(a) : a[k] = x
    BY <1>3 DEF ToSet
  <2> QED BY <1>1, <2>1 DEF ToSet
<1>4. ASSUME NEW x, x \in ToSet(b) PROVE x \in ToSet(a \o b)
  <2>1. PICK k \in 1..Len(b) : b[k] = x
    BY <1>4 DEF ToSet
  <2>2. Len(a) + k \in 1..Len(a \o b)
    BY <1>1
  <2> QED BY <1>1, <2>1, <2>2 DEF ToSet
<1> QED BY <1>2, <1>3, <1>4

(* A walk f along nx, within R, that stops only in V and passes over       *)
(* nothing of it, stops at the first slot of V.                            *)
Finds(d, nx, rank, Z, V, R, f) ==
    /\ Falls(nx, rank, Len(d.slots)) /\ Follows(f, Len(d.slots), nx, Z, FALSE)
    /\ \A j \in Slots(d) \cap R : /\ j \in Z => j \in V
                                  /\ j \notin Z => nx[j] \in R /\ First(d, V, nx[j]) = First(d, V, j)

(* A function that follows the chain to the next member finds the first.   *)
LEMMA FollowFirst ==
    ASSUME NEW d \in Stores, Chained(d), NEW nx, NEW rank, NEW Z, NEW V, NEW R, NEW f,
           Finds(d, nx, rank, Z, V, R, f)
    PROVE  \A j \in 0..Len(d.slots) : j \in R => f[j] = First(d, V, j)
<1> DEFINE n == Len(d.slots)
           P == {j \in 0..n : j \in R => f[j] = First(d, V, j)}
<1>1. /\ n \in Nat /\ None \in 0..n /\ \A j \in 1..n : j \in Slots(d) /\ j \in 0..n /\ j # None
      /\ \A j \in 1..n : nx[j] \in 0..n
  BY ChainIs DEF Slots, Falls, Finds
<1>2. \A j \in 0..n : f[j] = IF j = None \/ j \in Z THEN j ELSE f[nx[j]]
  BY DEF Follow, Follows, Finds
<1>3. None \in P
  BY <1>1, <1>2, FirstIs
<1>4. ASSUME NEW j \in 1..n, nx[j] \in P PROVE j \in P
  <2> SUFFICES ASSUME j \in R PROVE f[j] = First(d, V, j)
    BY <1>1
  <2>1. j \in Slots(d) \cap R /\ j \in 0..n /\ j # None /\ nx[j] \in 0..n
    BY <1>1
  <2>2. CASE j \in Z
    <3>1. f[j] = j
      BY <1>2, <2>1, <2>2
    <3>2. j \in V
      BY <2>1, <2>2 DEF Finds
    <3>3. First(d, V, j) = j
      BY <2>1, <3>2, FirstIs
    <3> QED BY <3>1, <3>3
  <2>3. CASE j \notin Z
    BY <1>2, <1>4, <2>1, <2>3 DEF Finds
  <2> QED BY <2>2, <2>3
<1> HIDE DEF P
<1>6. Falls(nx, rank, n)
  BY DEF Finds
<1>5. 0..n \subseteq P
  <2> HIDE DEF n
  <2> QED BY <1>1, <1>3, <1>4, <1>6, AlongTheChain
<1> QED BY <1>5 DEF P

(* From its k-th member a list goes on as from that slot. *)
Suffix(d, S, s) ==
    \A k \in 1..Len(s) : /\ s[k] \in S \cap Slots(d)
                         /\ Len(TraceOf(d, S)[s[k]]) = Len(s) - k + 1
                         /\ k = Len(s) => First(d, S, d.slots[s[k]].next) = None
                         /\ k < Len(s) => First(d, S, d.slots[s[k]].next) = s[k + 1]

(* What lies ahead of a slot is the end of what lies ahead of any before   *)
(* it.                                                                     *)
LEMMA TraceSuffix ==
    ASSUME NEW d \in Stores, Chained(d), NEW S
    PROVE  \A j \in 0..Len(d.slots) : Suffix(d, S, TraceOf(d, S)[j])
<1> DEFINE T == TraceOf(d, S)
           P == {j \in 0..Len(d.slots) : Suffix(d, S, T[j])}
           V == S \cap Slots(d)
<1>1. None \in P
  <2>1. T[None] = <<>>
    BY TraceIs
  <2> HIDE DEF T
  <2>2. Suffix(d, S, <<>>)
    BY DEF Suffix
  <2> QED BY <2>1, <2>2, ChainIs
<1>2. ASSUME NEW j \in Slots(d), d.slots[j].next \in P PROVE j \in P
  <2> DEFINE m == d.slots[j].next
             s == T[m]
  <2>5. j \in 0..Len(d.slots) /\ m \in 0..Len(d.slots)
    BY ChainIs
  <2>6. s \in Seq(V)
    BY <2>5, TraceIs
  <2>7. Suffix(d, S, s)
    BY <1>2
  <2>1. j \in 0..Len(d.slots) /\ m \in 0..Len(d.slots) /\ s \in Seq(V) /\ Suffix(d, S, s)
    BY <2>5, <2>6, <2>7
  <2>3. CASE j \notin S
    <3>1. T[j] = s
      BY <2>3, TraceIs
    <3> QED BY <2>1, <3>1
  <2>4. CASE j \in S
    <3>1. j \in V /\ First(d, S, m) = IF s = <<>> THEN None ELSE s[1]
      BY <2>4 DEF First
    <3>2. T[j] = <<j>> \o s
      BY <2>4, TraceIs
    <3> HIDE DEF V, T, s
    <3>3. /\ T[j] \in Seq(V) /\ Len(T[j]) = Len(s) + 1 /\ Len(s) \in Nat
          /\ T[j][1] = j /\ \A k \in 1..Len(s) : T[j][k + 1] = s[k]
      BY <2>1, <3>1, <3>2
    <3>4. ASSUME NEW k \in 1..Len(T[j])
          PROVE  /\ T[j][k] \in V
                 /\ Len(T[T[j][k]]) = Len(T[j]) - k + 1
                 /\ k = Len(T[j]) => First(d, S, d.slots[T[j][k]].next) = None
                 /\ k < Len(T[j]) => First(d, S, d.slots[T[j][k]].next) = T[j][k + 1]
      <4>1. CASE k = 1
        <5>1. s = <<>> <=> Len(s) = 0
          BY <2>1
        <5>2. Len(s) # 0 => T[j][2] = s[1]
          BY <3>3
        <5> QED BY <3>1, <3>3, <4>1, <5>1, <5>2 DEF m
      <4>2. CASE k > 1
        <5> DEFINE l == k - 1
        <5>1. l \in 1..Len(s) /\ k = l + 1
          BY <3>3, <4>2
        <5>2. T[j][k] = s[l] /\ (k < Len(T[j]) => l < Len(s) /\ T[j][k + 1] = s[l + 1])
          BY <3>3, <5>1
        <5>3. /\ s[l] \in V /\ Len(T[s[l]]) = Len(s) - l + 1
              /\ l = Len(s) => First(d, S, d.slots[s[l]].next) = None
              /\ l < Len(s) => First(d, S, d.slots[s[l]].next) = s[l + 1]
          BY <2>1, <5>1 DEF Suffix, T, V
        <5> HIDE DEF l
        <5> QED BY <3>3, <5>1, <5>2, <5>3
      <4> QED BY <4>1, <4>2
    <3> QED BY <2>1, <3>4 DEF Suffix, T, V
  <2> QED BY <2>3, <2>4
<1> HIDE DEF P
<1>3. 0..Len(d.slots) \subseteq P
  BY <1>1, <1>2, ChainIs
<1> QED BY <1>3 DEF P

(* What is met of a larger set is met of a smaller one it lies in. *)
LEMMA TraceHas ==
    ASSUME NEW d \in Stores, Chained(d), NEW S, NEW U, NEW i \in S
    PROVE  \A j \in 0..Len(d.slots) : i \in ToSet(TraceOf(d, U)[j]) => i \in ToSet(TraceOf(d, S)[j])
<1> DEFINE T(X) == TraceOf(d, X)
           P == {j \in 0..Len(d.slots) : i \in ToSet(T(U)[j]) => i \in ToSet(T(S)[j])}
<1>1. None \in P
  <2>1. T(U)[None] = <<>>
    BY TraceIs
  <2>2. ToSet(<<>>) = {}
    BY DEF ToSet
  <2> QED BY <2>1, <2>2, ChainIs
<1>2. ASSUME NEW j \in Slots(d), d.slots[j].next \in P PROVE j \in P
  <2> DEFINE m == d.slots[j].next
  <2>1. j \in 0..Len(d.slots) /\ m \in 0..Len(d.slots)
    BY ChainIs
  <2>2. ASSUME NEW X PROVE ToSet(T(X)[j]) = ToSet(T(X)[m]) \cup (X \cap {j})
    <3>1. CASE j \notin X
      <4>1. T(X)[j] = T(X)[m]
        BY <3>1, TraceIs
      <4> QED BY <3>1, <4>1
    <3>2. CASE j \in X
      <4> DEFINE V == X \cap Slots(d)
      <4>1. T(X)[j] = <<j>> \o T(X)[m]
        BY <3>2, TraceIs
      <4>2. T(X)[m] \in Seq(V)
        BY <2>1, TraceIs
      <4>3. j \in V
        BY <3>2
      <4> HIDE DEF T, V, m
      <4>4. <<j>> \in Seq(V) /\ ToSet(<<j>>) = {j}
        BY <4>3 DEF ToSet
      <4>5. ToSet(<<j>> \o T(X)[m]) = ToSet(<<j>>) \cup ToSet(T(X)[m])
        <5> DEFINE a == <<j>>
                   b == T(X)[m]
        <5>1. a \in Seq(V) /\ b \in Seq(V)
          BY <4>2, <4>4
        <5> HIDE DEF a, b
        <5>2. ToSet(a \o b) = ToSet(a) \cup ToSet(b)
          BY ONLY <5>1, ToSetConcat
        <5> QED BY <5>2 DEF a, b
      <4> QED BY <3>2, <4>1, <4>4, <4>5
    <3> QED BY <3>1, <3>2
  <2> QED BY <1>2, <2>1, <2>2
<1> HIDE DEF P
<1>3. 0..Len(d.slots) \subseteq P
  BY <1>1, <1>2, ChainIs
<1> QED BY <1>3 DEF P

-----------------------------------------------------------------------------
(* Walks by the index and walks by the packet stop at the same slots. *)

Keyed(d, key) == {i \in Slots(d) : d.slots[i].key = key}
Answering(d, key) == {i \in Slots(d) : ~Rejects(d, i, key)}
Sound(d) == d \in Stores /\ Chained(d) /\ Whole(d) /\ IxServes(d)

(* In the list of a key, a clause is followed by the next one of the key.  *)
LEMMA AfterIs ==
    ASSUME NEW d, Sound(d), NEW key \in Keys, d.ix # NoIx, NEW i \in Keyed(d, key)
    PROVE  After(d.ix.of[key], i) = First(d, Keyed(d, key), d.slots[i].next)
<1> DEFINE K == Keyed(d, key)
           s == TraceOf(d, K)[d.head]
<1>1. d \in Stores /\ Chained(d) /\ i \in Slots(d) /\ d.head \in 0..Len(d.slots)
  BY ChainIs DEF Sound, Keyed
<1>2. d.ix.of[key] = s
  BY PacketIsTrace DEF Sound, IxServes, ChainOf, Keyed
<1>3. i \in ToSet(s)
  <2>1. i \in ToSet(TraceOf(d, Slots(d))[d.head])
    BY <1>1, PacketIsTrace DEF Sound, Whole
  <2> QED BY <1>1, <2>1, TraceHas
<1>4. s \in Seq(K \cap Slots(d)) /\ Suffix(d, K, s)
  BY <1>1, TraceIs, TraceSuffix
<1> HIDE DEF s, K
<1>5. Len(s) \in Nat /\ \E n \in 1..Len(s) : s[n] = i
  BY <1>3, <1>4 DEF ToSet
<1> DEFINE n == CHOOSE m \in 1..Len(s) : s[m] = i
<1>6. n \in 1..Len(s) /\ s[n] = i
  BY <1>5
<1>7. After(s, i) = IF n = Len(s) THEN None ELSE s[n + 1]
  BY DEF After
<1> HIDE DEF n
<1>8. /\ n = Len(s) => First(d, K, d.slots[s[n]].next) = None
      /\ n < Len(s) => First(d, K, d.slots[s[n]].next) = s[n + 1]
  BY <1>6, <1>4 DEF Suffix
<1> QED BY <1>2, <1>5, <1>6, <1>7, <1>8 DEF K

(* A step to the next candidate passes over no clause that answers the     *)
(* key.                                                                    *)
LEMMA CandStepIs ==
    ASSUME NEW d, Sound(d), NEW rank, Ranks(d, rank), NEW key \in Keys \cup {AnyKey},
           NEW i \in Slots(d)
    PROVE  LET c == CandStep(d, i, key)
           IN  /\ c \in 0..Len(d.slots) /\ rank[c] < rank[i]
               /\ First(d, Answering(d, key), c) = First(d, Answering(d, key), d.slots[i].next)
<1> DEFINE n == Len(d.slots)
           nx == NextOf(d)
           K == Keyed(d, key)
           m == d.slots[i].next
<1>1. d \in Stores /\ Chained(d)
  BY DEF Sound
<1>2. /\ n \in Nat /\ m \in 0..n /\ i \in 0..n /\ Falls(nx, rank, n)
      /\ rank[m] < rank[i]
  BY <1>1, ChainIs, NextFalls DEF Ranks
<1>3. \A j \in 0..n : rank[j] \in Nat
  BY DEF Ranks
<1>4. CASE d.ix = NoIx \/ key = AnyKey
  <2>1. CandStep(d, i, key) = m
    BY <1>4 DEF CandStep
  <2> QED BY <1>2, <2>1
<1>5. CASE d.ix # NoIx /\ key # AnyKey
  <2>1. key \in Keys /\ Answering(d, key) = K
    BY <1>5 DEF Answering, Keyed, Rejects, Sound, IxServes
  <2> DEFINE IsWalk(f) == f = [j \in 0..n |-> IF j = None \/ d.slots[j].key = key THEN j
                                              ELSE f[d.slots[j].next]]
             w == CHOOSE f : IsWalk(f)
  <2>2. CandStep(d, i, key) = IF i <= d.ix.cap /\ d.slots[i].key = key THEN After(d.ix.of[key], i)
                              ELSE w[m]
    BY <1>5 DEF CandStep
  <2>3. Follows(w, n, nx, K, FALSE)
    <3>1. ASSUME NEW f, NEW j \in 0..n
          PROVE  Follow(f, j, nx, K, FALSE) =
                     IF j = None \/ d.slots[j].key = key THEN j ELSE f[d.slots[j].next]
      <4>1. j # None => nx[j] = d.slots[j].next /\ (j \in K <=> d.slots[j].key = key)
        BY <1>2 DEF NextOf, Slots, None, Keyed
      <4> HIDE DEF n, nx, K
      <4> QED BY <4>1 DEF Follow
    <3>2. ASSUME NEW f PROVE Follows(f, n, nx, K, FALSE) <=> IsWalk(f)
      <4> HIDE DEF nx, n, K
      <4>1. [j \in 0..n |-> Follow(f, j, nx, K, FALSE)] =
            [j \in 0..n |-> IF j = None \/ d.slots[j].key = key THEN j ELSE f[d.slots[j].next]]
        BY <3>1
      <4> QED BY <4>1 DEF Follows
    <3> HIDE DEF n, nx, K, IsWalk
    <3>3. \E f : Follows(f, n, nx, K, FALSE)
      BY <1>2, FollowExists
    <3>4. IsWalk(w)
      BY <3>2, <3>3
    <3> QED BY <3>2, <3>4
  <2> HIDE DEF w
  <2>4. w[m] = First(d, K, m)
    <3> DEFINE R == 0..n
    <3>1. \A j \in Slots(d) : j \in 0..n /\ d.slots[j].next \in 0..n /\ nx[j] = d.slots[j].next
      BY <1>1, ChainIs DEF NextOf
    <3> HIDE DEF K, nx
    <3>4. \A j \in Slots(d) : j \notin K => First(d, K, j) = First(d, K, d.slots[j].next)
      BY <1>1, FirstIs
    <3>2. \A j \in Slots(d) \cap R : j \notin K => nx[j] \in R /\ First(d, K, nx[j]) = First(d, K, j)
      BY <3>1, <3>4
    <3> HIDE DEF R
    <3>5. Finds(d, nx, rank, K, K, R, w)
      BY <1>2, <2>3, <3>2 DEF Finds
    <3>3. \A j \in 0..n : j \in R => w[j] = First(d, K, j)
      BY <1>1, <3>5, FollowFirst
    <3> USE DEF R
    <3> QED BY <1>2, <3>3
  <2>5. CandStep(d, i, key) = First(d, K, m)
    <3>1. CASE i <= d.ix.cap /\ d.slots[i].key = key
      <4>1. i \in K
        BY <3>1 DEF Keyed
      <4>2. After(d.ix.of[key], i) = First(d, K, m)
        BY <1>5, <2>1, <4>1, AfterIs
      <4> QED BY <2>2, <3>1, <4>2
    <3>2. CASE ~(i <= d.ix.cap /\ d.slots[i].key = key)
      BY <2>2, <2>4, <3>2
    <3> QED BY <3>1, <3>2
  <2> HIDE DEF K, m
  <2>6. /\ First(d, K, m) \in 0..n /\ rank[First(d, K, m)] <= rank[m]
        /\ First(d, K, First(d, K, m)) = First(d, K, m)
    <3>1. First(d, K, m) \in 0..n
      BY <1>1, <1>2, FirstIs
    <3>2. rank[First(d, K, m)] <= rank[m]
      BY <1>1, <1>2, FirstFalls
    <3>3. First(d, K, First(d, K, m)) = First(d, K, m)
      BY <1>1, <1>2, FirstFirst
    <3> QED BY <3>1, <3>2, <3>3
  <2>7. rank[First(d, K, m)] \in Nat /\ rank[m] \in Nat /\ rank[i] \in Nat
    BY <1>2, <1>3, <2>6
  <2>8. rank[First(d, K, m)] < rank[i]
    BY <1>2, <2>6, <2>7
  <2> QED BY <2>1, <2>5, <2>6, <2>8 DEF m
<1> QED BY <1>4, <1>5

(* Going on past rejected candidates ends at the first that answers.       *)
LEMMA UnrejectedIs ==
    ASSUME NEW d, Sound(d), NEW key \in Keys \cup {AnyKey}
    PROVE  \A i \in 0..Len(d.slots) : Unrejected(d, i, key) = First(d, Answering(d, key), i)
<1> DEFINE n == Len(d.slots)
           U == Answering(d, key)
           nx == [j \in 1..n |-> CandStep(d, j, key)]
           IsSkip(f) == f = [j \in 0..n |-> IF j = None \/ ~Rejects(d, j, key) THEN j
                                            ELSE f[CandStep(d, j, key)]]
           w == CHOOSE f : IsSkip(f)
<1>1. d \in Stores /\ Chained(d)
  BY DEF Sound
<1>2. PICK rank : Ranks(d, rank)
  BY <1>1 DEF Chained
<1>3. /\ n \in Nat /\ Slots(d) = 1..n /\ rank \in [0..n -> 0..n]
      /\ \A j \in 0..n : j # None => j \in Slots(d)
  BY <1>1, <1>2, ChainIs DEF Ranks, Slots
<1>4. ASSUME NEW j \in Slots(d)
      PROVE  /\ CandStep(d, j, key) \in 0..n /\ rank[CandStep(d, j, key)] < rank[j]
             /\ First(d, U, CandStep(d, j, key)) = First(d, U, d.slots[j].next)
  BY <1>2, CandStepIs
<1>5. Falls(nx, rank, n)
  <2>1. nx \in [1..n -> 0..n] /\ \A j \in 1..n : nx[j] = CandStep(d, j, key)
    BY <1>3, <1>4
  <2> HIDE DEF nx, n
  <2> QED BY <1>3, <1>4, <2>1 DEF Falls
<1>6. Follows(w, n, nx, U, FALSE)
  <2>1. ASSUME NEW f, NEW j \in 0..n
        PROVE  Follow(f, j, nx, U, FALSE) =
                   IF j = None \/ ~Rejects(d, j, key) THEN j ELSE f[CandStep(d, j, key)]
    <3>1. j # None => j \in 1..n /\ (j \in U <=> ~Rejects(d, j, key))
      BY <1>3 DEF Answering
    <3>2. j # None => nx[j] = CandStep(d, j, key)
      BY <3>1
    <3> HIDE DEF n, nx, U
    <3> QED BY <3>1, <3>2 DEF Follow
  <2>2. ASSUME NEW f PROVE Follows(f, n, nx, U, FALSE) <=> IsSkip(f)
    <3> HIDE DEF nx, n, U
    <3>1. [j \in 0..n |-> Follow(f, j, nx, U, FALSE)] =
          [j \in 0..n |-> IF j = None \/ ~Rejects(d, j, key) THEN j ELSE f[CandStep(d, j, key)]]
      BY <2>1
    <3> QED BY <3>1 DEF Follows
  <2> HIDE DEF n, nx, U, IsSkip
  <2>3. \E f : Follows(f, n, nx, U, FALSE)
    BY <1>3, <1>5, FollowExists
  <2>4. IsSkip(w)
    BY <2>2, <2>3
  <2> QED BY <2>2, <2>4
<1>7. \A i \in 0..n : Unrejected(d, i, key) = w[i]
  BY DEF Unrejected
<1> HIDE DEF w
<1>8. \A i \in 0..n : w[i] = First(d, U, i)
  <2> DEFINE R == 0..n
  <2>1. \A j \in Slots(d) : nx[j] = CandStep(d, j, key)
    BY <1>3
  <2> HIDE DEF U, nx
  <2>4. \A j \in Slots(d) : j \notin U => First(d, U, j) = First(d, U, d.slots[j].next)
    BY <1>1, FirstIs
  <2>2. \A j \in Slots(d) \cap R : j \notin U => nx[j] \in R /\ First(d, U, nx[j]) = First(d, U, j)
    BY <1>4, <2>1, <2>4
  <2> HIDE DEF R
  <2>5. Finds(d, nx, rank, U, U, R, w)
    BY <1>5, <1>6, <2>2 DEF Finds
  <2>3. \A i \in 0..n : i \in R => w[i] = First(d, U, i)
    BY <1>1, <2>5, FollowFirst
  <2> USE DEF R
  <2> QED BY <2>3
<1> QED BY <1>7, <1>8

(* Where a walk over candidates begins, and where a step of a goal leads.  *)
LEMMA CandFirstIs ==
    ASSUME NEW d, Sound(d), NEW key \in Keys \cup {AnyKey}
    PROVE  CandFirst(d, key) = First(d, Answering(d, key), d.head)
<1> DEFINE K == Keyed(d, key)
           U == Answering(d, key)
<1>1. d \in Stores /\ Chained(d) /\ d.head \in 0..Len(d.slots) /\ None \in 0..Len(d.slots)
  BY ChainIs DEF Sound
<1>2. CASE d.ix = NoIx \/ key = AnyKey
  <2>1. CandFirst(d, key) = Unrejected(d, d.head, key)
    BY <1>2 DEF CandFirst
  <2> QED BY <1>1, <2>1, UnrejectedIs
<1>3. CASE d.ix # NoIx /\ key # AnyKey
  <2>1. key \in Keys /\ U = K
    BY <1>3 DEF Answering, Keyed, Rejects, Sound, IxServes
  <2>2. d.ix.of[key] = TraceOf(d, K)[d.head]
    BY <1>3, <2>1, PacketIsTrace DEF Sound, IxServes, ChainOf, Keyed
  <2>3. CandFirst(d, key) = Unrejected(d, First(d, K, d.head), key)
    BY <1>3, <2>2 DEF CandFirst, First
  <2> HIDE DEF K, U
  <2>4. First(d, K, d.head) \in 0..Len(d.slots)
    BY <1>1, FirstIs
  <2>5. CandFirst(d, key) = First(d, U, First(d, K, d.head))
    BY <2>3, <2>4, UnrejectedIs DEF U
  <2>6. First(d, K, First(d, K, d.head)) = First(d, K, d.head)
    BY <1>1, FirstFirst
  <2> QED BY <2>1, <2>5, <2>6 DEF U
<1> QED BY <1>2, <1>3

Plain(g) == g.key \in Keys \cup {AnyKey} /\ (g.code => g.key = AnyKey)

(* A step of a goal leads to the next clause its key does not reject.      *)
LEMMA StepOfIs ==
    ASSUME NEW d, Sound(d), NEW rank, Ranks(d, rank), NEW g, Plain(g), NEW i \in Slots(d)
    PROVE  /\ StepOf(d, g, i) = First(d, Answering(d, g.key), d.slots[i].next)
           /\ StepOf(d, g, i) \in 0..Len(d.slots) /\ rank[StepOf(d, g, i)] < rank[i]
<1> DEFINE U == Answering(d, g.key)
           m == d.slots[i].next
<1>1. /\ d \in Stores /\ Chained(d) /\ m \in 0..Len(d.slots) /\ i \in 0..Len(d.slots)
      /\ rank[m] < rank[i] /\ \A j \in 0..Len(d.slots) : rank[j] \in Nat
  BY ChainIs DEF Sound, Ranks
<1>2. StepOf(d, g, i) = First(d, U, m)
  <2>1. CASE g.code
    <3>1. StepOf(d, g, i) = m
      BY <2>1 DEF StepOf
    <3>2. U = Slots(d)
      BY <2>1 DEF Plain, Answering, Rejects
    <3>3. First(d, Slots(d), m) = m
      <4>1. CASE m = None
        BY <1>1, <4>1, FirstIs
      <4>2. CASE m # None
        <5>1. m \in Slots(d)
          BY <1>1, <4>2, ChainIs
        <5> HIDE DEF m
        <5> QED BY <1>1, <5>1, FirstIs
      <4> QED BY <4>1, <4>2
    <3> QED BY <3>1, <3>2, <3>3
  <2>2. CASE ~g.code
    <3>1. StepOf(d, g, i) = Unrejected(d, CandStep(d, i, g.key), g.key)
      BY <2>2 DEF StepOf, CandNext
    <3>2. g.key \in Keys \cup {AnyKey}
      BY DEF Plain
    <3>3. /\ CandStep(d, i, g.key) \in 0..Len(d.slots)
          /\ First(d, U, CandStep(d, i, g.key)) = First(d, U, m)
      BY <3>2, CandStepIs
    <3> QED BY <3>1, <3>2, <3>3, UnrejectedIs
  <2> QED BY <2>1, <2>2
<1> HIDE DEF U, m
<1>3. First(d, U, m) \in 0..Len(d.slots)
  BY <1>1, FirstIs
<1>4. rank[First(d, U, m)] <= rank[m]
  BY <1>1, FirstFalls
<1>5. rank[First(d, U, m)] \in Nat /\ rank[m] \in Nat /\ rank[i] \in Nat
  BY <1>1, <1>3
<1>6. rank[First(d, U, m)] < rank[i]
  BY <1>1, <1>4, <1>5
<1> QED BY <1>2, <1>3, <1>6 DEF U, m

(* Where a goal that may stop at slot i does stop. *)
LEMMA StopAtIs ==
    ASSUME NEW d, Sound(d), NEW g, Plain(g)
    PROVE  \A i \in Answering(d, g.key) \cup {None} : Stop(d, g, i) = First(d, Seen(d, g), i)
<1> DEFINE n == Len(d.slots)
           Z == {j \in Slots(d) : Visible(d.slots[j], g.gen)}
           U == Answering(d, g.key)
           V == Seen(d, g)
           R == U \cup {None}
           nx == [j \in 1..n |-> StepOf(d, g, j)]
           IsWalk(f) == f = [j \in 0..n |-> IF j = None \/ Visible(d.slots[j], g.gen) THEN j
                                            ELSE f[StepOf(d, g, j)]]
           w == CHOOSE f : IsWalk(f)
<1>1. d \in Stores /\ Chained(d)
  BY DEF Sound
<1>2. PICK rank : Ranks(d, rank)
  BY <1>1 DEF Chained
<1>3. /\ n \in Nat /\ Slots(d) = 1..n /\ rank \in [0..n -> 0..n] /\ None \in 0..n
      /\ \A j \in 0..n : j # None => j \in Slots(d)
      /\ \A j \in Slots(d) : d.slots[j].next \in 0..n /\ j \in 0..n
  BY <1>1, <1>2, ChainIs DEF Ranks, Slots
<1>4. \A j \in Slots(d) : /\ StepOf(d, g, j) = First(d, U, d.slots[j].next)
                          /\ StepOf(d, g, j) \in 0..n /\ rank[StepOf(d, g, j)] < rank[j]
  BY <1>2, StepOfIs
<1>5. Falls(nx, rank, n)
  <2>1. nx \in [1..n -> 0..n] /\ \A j \in 1..n : nx[j] = StepOf(d, g, j)
    BY <1>3, <1>4
  <2> HIDE DEF nx, n
  <2> QED BY <1>3, <1>4, <2>1 DEF Falls
<1>6. Follows(w, n, nx, Z, FALSE)
  <2>1. ASSUME NEW f, NEW j \in 0..n
        PROVE  Follow(f, j, nx, Z, FALSE) =
                   IF j = None \/ Visible(d.slots[j], g.gen) THEN j ELSE f[StepOf(d, g, j)]
    <3>1. j # None => j \in 1..n /\ (j \in Z <=> Visible(d.slots[j], g.gen))
      BY <1>3
    <3>2. j # None => nx[j] = StepOf(d, g, j)
      BY <3>1
    <3> HIDE DEF n, nx, Z
    <3> QED BY <3>1, <3>2 DEF Follow
  <2>2. ASSUME NEW f PROVE Follows(f, n, nx, Z, FALSE) <=> IsWalk(f)
    <3> HIDE DEF nx, n, Z
    <3>1. [j \in 0..n |-> Follow(f, j, nx, Z, FALSE)] =
          [j \in 0..n |-> IF j = None \/ Visible(d.slots[j], g.gen) THEN j ELSE f[StepOf(d, g, j)]]
      BY <2>1
    <3> QED BY <3>1 DEF Follows
  <2> HIDE DEF n, nx, Z, IsWalk
  <2>3. \E f : Follows(f, n, nx, Z, FALSE)
    BY <1>3, <1>5, FollowExists
  <2>4. IsWalk(w)
    BY <2>2, <2>3
  <2> QED BY <2>2, <2>4
<1>7. \A i \in 0..n : Stop(d, g, i) = w[i]
  BY DEF Stop
<1> HIDE DEF w
<1>8. V \subseteq U /\ V = Z \cap U
  BY DEF Seen, Answering
<1>9. ASSUME NEW j \in Slots(d) \cap R, j \notin Z
      PROVE  nx[j] \in R /\ First(d, V, nx[j]) = First(d, V, j)
  <2> DEFINE m == d.slots[j].next
  <2>1. nx[j] = First(d, U, m) /\ m \in 0..n
    BY <1>3, <1>4
  <2>2. j \notin V
    BY <1>8, <1>9
  <2> HIDE DEF U, V, nx, Z
  <2>3. First(d, U, m) \in U \cup {None}
    BY <1>1, <2>1, FirstIs
  <2>4. First(d, V, First(d, U, m)) = First(d, V, m)
    BY <1>1, <1>8, <2>1, FirstFirst
  <2>5. First(d, V, j) = First(d, V, m)
    BY <1>1, <2>2, FirstIs
  <2> QED BY <2>1, <2>3, <2>4, <2>5 DEF R
<1>10. \A j \in Slots(d) \cap R : j \in Z => j \in V
  BY <1>3, <1>8 DEF Slots, None
<1>11. Finds(d, nx, rank, Z, V, R, w)
  <2> HIDE DEF Z, V, R, nx
  <2> QED BY <1>5, <1>6, <1>9, <1>10 DEF Finds
<1>12. \A i \in R : i \in 0..n
  BY <1>3 DEF Answering
<1> HIDE DEF Z, V, R, nx
<1>13. \A i \in 0..n : i \in R => w[i] = First(d, V, i)
  BY <1>1, <1>11, FollowFirst
<1>14. \A i \in R : Stop(d, g, i) = First(d, V, i)
  BY <1>7, <1>12, <1>13
<1> QED BY <1>14 DEF R, V

(* The next slot of a goal, and all it has yet to come to. *)
LEMMA NextStopIs ==
    ASSUME NEW d, Sound(d), NEW g, Plain(g), NEW i \in Slots(d)
    PROVE  Stop(d, g, StepOf(d, g, i)) = First(d, Seen(d, g), d.slots[i].next)
<1> DEFINE U == Answering(d, g.key)
           V == Seen(d, g)
           m == d.slots[i].next
<1>1. d \in Stores /\ Chained(d) /\ m \in 0..Len(d.slots)
  BY ChainIs DEF Sound
<1>2. PICK rank : Ranks(d, rank)
  BY <1>1 DEF Chained
<1>3. StepOf(d, g, i) = First(d, U, m)
  BY <1>2, StepOfIs
<1>4. V \subseteq U
  BY DEF Seen, Answering
<1>5. Stop(d, g, First(d, U, m)) = First(d, V, First(d, U, m))
  <2> HIDE DEF V, m
  <2>1. First(d, U, m) \in U \cup {None}
    <3> HIDE DEF U
    <3> QED BY <1>1, FirstIs
  <2> QED BY <2>1, StopAtIs DEF V
<1> HIDE DEF U, V, m
<1>6. First(d, V, First(d, U, m)) = First(d, V, m)
  BY <1>1, <1>4, FirstFirst
<1> QED BY <1>3, <1>5, <1>6 DEF V, m

(* The clauses left to a goal are those it sees from the one it is at on.  *)
LEMMA RemainingAt ==
    ASSUME NEW d, Sound(d), NEW g, Plain(g), g.at \in Seen(d, g)
    PROVE  /\ Remaining(d, g) = TraceOf(d, Seen(d, g))[g.at]
           /\ Remaining(d, g) = <<g.at>> \o TraceOf(d, Seen(d, g))[d.slots[g.at].next]
<1> DEFINE n == Len(d.slots)
           V == Seen(d, g)
           T == TraceOf(d, V)
           nx == [j \in 1..n |-> Stop(d, g, StepOf(d, g, j))]
           IsTrace(f) == f = [j \in 0..n |-> IF j = None THEN <<>>
                                             ELSE <<j>> \o f[Stop(d, g, StepOf(d, g, j))]]
           w == CHOOSE f : IsTrace(f)
<1>1. d \in Stores /\ Chained(d)
  BY DEF Sound
<1>2. PICK rank : Ranks(d, rank)
  BY <1>1 DEF Chained
<1>3. /\ n \in Nat /\ Slots(d) = 1..n /\ rank \in [0..n -> 0..n] /\ None \in 0..n
      /\ \A j \in 0..n : j # None => j \in Slots(d)
      /\ \A j \in Slots(d) : /\ d.slots[j].next \in 0..n /\ j \in 0..n /\ j # None
                             /\ rank[d.slots[j].next] < rank[j]
  BY <1>1, <1>2, ChainIs DEF Ranks, Slots
<1>4. ASSUME NEW j \in Slots(d)
      PROVE  /\ nx[j] = First(d, V, d.slots[j].next) /\ nx[j] \in 0..n
             /\ rank[nx[j]] < rank[j]
  <2> DEFINE m == d.slots[j].next
  <2>1. nx[j] = First(d, V, m)
    BY <1>3, NextStopIs
  <2>2. m \in 0..n /\ rank[m] < rank[j] /\ j \in 0..n
    BY <1>3
  <2> HIDE DEF V, nx, m
  <2>3. First(d, V, m) \in 0..n
    BY <1>1, <2>2, FirstIs
  <2>4. rank[First(d, V, m)] <= rank[m]
    BY <1>1, <1>2, <2>2, FirstFalls
  <2>6. \A k \in 0..n : rank[k] \in Nat
    BY <1>3
  <2>5. rank[First(d, V, m)] \in Nat /\ rank[m] \in Nat /\ rank[j] \in Nat
    BY <2>2, <2>3, <2>6
  <2> QED BY <2>1, <2>2, <2>3, <2>4, <2>5 DEF m
<1>5. Falls(nx, rank, n)
  <2>1. nx \in [1..n -> 0..n]
    BY <1>3, <1>4
  <2> HIDE DEF nx, n
  <2> QED BY <1>3, <1>4, <2>1 DEF Falls
<1>6. Follows(w, n, nx, 0..n, TRUE)
  <2>1. ASSUME NEW f, NEW j \in 0..n
        PROVE  Follow(f, j, nx, 0..n, TRUE) =
                   IF j = None THEN <<>> ELSE <<j>> \o f[Stop(d, g, StepOf(d, g, j))]
    <3>1. j # None => nx[j] = Stop(d, g, StepOf(d, g, j))
      BY <1>3
    <3> HIDE DEF n, nx
    <3> QED BY <3>1 DEF Follow
  <2>2. ASSUME NEW f PROVE Follows(f, n, nx, 0..n, TRUE) <=> IsTrace(f)
    <3> HIDE DEF nx, n
    <3>1. [j \in 0..n |-> Follow(f, j, nx, 0..n, TRUE)] =
          [j \in 0..n |-> IF j = None THEN <<>> ELSE <<j>> \o f[Stop(d, g, StepOf(d, g, j))]]
      BY <2>1
    <3> QED BY <3>1 DEF Follows
  <2> HIDE DEF n, nx, IsTrace
  <2>3. \E f : Follows(f, n, nx, 0..n, TRUE)
    BY <1>3, <1>5, FollowExists
  <2>4. IsTrace(w)
    BY <2>2, <2>3
  <2> QED BY <2>2, <2>4
<1>7. Remaining(d, g) = w[g.at]
  BY DEF Remaining
<1> HIDE DEF w
<1>8. \A j \in 0..n : w[j] = IF j = None THEN <<>> ELSE <<j>> \o w[nx[j]]
  BY <1>6 DEF Follow, Follows
<1> DEFINE P == {j \in 0..n : j \in V \cup {None} => w[j] = T[j]}
<1>9. None \in P
  <2>1. T[None] = <<>>
    BY <1>1, TraceIs
  <2> QED BY <1>3, <1>8, <2>1
<1>10. ASSUME NEW j \in 1..n, nx[j] \in P PROVE j \in P
  <2> SUFFICES ASSUME j \in V PROVE w[j] = T[j]
    BY <1>3
  <2> DEFINE m == d.slots[j].next
  <2>1. j \in Slots(d) /\ j \in 0..n /\ j # None /\ m \in 0..n
    BY <1>3
  <2>2. w[j] = <<j>> \o w[nx[j]]
    BY <1>8, <2>1
  <2>3. nx[j] = First(d, V, m)
    BY <1>4, <2>1
  <2>4. nx[j] \in P => (nx[j] \in V \cup {None} => w[nx[j]] = T[nx[j]])
    OBVIOUS
  <2> HIDE DEF V, nx, m, P
  <2>5. First(d, V, m) \in V \cup {None} /\ TraceOf(d, V)[First(d, V, m)] = TraceOf(d, V)[m]
    BY <1>1, <2>1, FirstIs
  <2>6. TraceOf(d, V)[j] = <<j>> \o TraceOf(d, V)[m]
    BY <1>1, <2>1, TraceIs DEF m
  <2> QED BY <1>10, <2>2, <2>3, <2>4, <2>5, <2>6
<1>11. 0..n \subseteq P
  <2> HIDE DEF P, n
  <2> QED BY <1>3, <1>5, <1>9, <1>10, AlongTheChain
<1>12. g.at \in Slots(d) /\ g.at \in 0..n
  BY <1>3 DEF Seen
<1>13. w[g.at] = T[g.at]
  BY <1>11, <1>12
<1>14. T[g.at] = <<g.at>> \o T[d.slots[g.at].next]
  <2> HIDE DEF V
  <2> QED BY <1>1, <1>12, TraceIs DEF V
<1> QED BY <1>7, <1>13, <1>14

KeptOf(s, V) ==
    CHOOSE f : f = [n \in 0..Len(s) |-> IF n = 0 THEN <<>>
                                        ELSE IF s[n] \in V THEN Append(f[n - 1], s[n]) ELSE f[n - 1]]

(* A filter of a sequence, member by member.                               *)
LEMMA KeptIs ==
    ASSUME NEW s, Len(s) \in Nat, NEW V
    PROVE  /\ Only(s, V) = KeptOf(s, V)[Len(s)] /\ KeptOf(s, V)[0] = <<>>
           /\ \A k \in 1..Len(s) : /\ s[k] \in V => KeptOf(s, V)[k] = Append(KeptOf(s, V)[k - 1], s[k])
                                   /\ s[k] \notin V => KeptOf(s, V)[k] = KeptOf(s, V)[k - 1]
           /\ \A k \in 0..Len(s) : KeptOf(s, V)[k] \in Seq(V)
<1> DEFINE l == Len(s)
           S == [k \in 0..l |-> Seq(V)]
           step == [k \in 1..l |-> [x \in Seq(V) |-> IF s[k] \in V THEN Append(x, s[k]) ELSE x]]
           IsTrace(f) == f = [n \in 0..l |-> IF n = 0 THEN <<>>
                                             ELSE IF s[n] \in V THEN Append(f[n - 1], s[n]) ELSE f[n - 1]]
           w == KeptOf(s, V)
<1>1. l \in Nat /\ \A k \in 0..l : S[k] = Seq(V)
  OBVIOUS
<1>2. <<>> \in S[0]
  <2>1. <<>> \in Seq(V)
    OBVIOUS
  <2>2. 0 \in 0..l
    OBVIOUS
  <2> HIDE DEF S, l
  <2>3. S[0] = Seq(V)
    BY <1>1, <2>2
  <2> QED BY <2>1, <2>3
<1>3. \A k \in 1..l : \A x \in S[k - 1] : step[k][x] \in S[k] /\ x \in Seq(V)
  <2> SUFFICES ASSUME NEW k \in 1..l, NEW x \in S[k - 1] PROVE step[k][x] \in S[k] /\ x \in Seq(V)
    OBVIOUS
  <2>1. x \in Seq(V) /\ S[k] = Seq(V)
    <3>1. k \in 0..l /\ k - 1 \in 0..l
      BY <1>1
    <3> HIDE DEF S, l
    <3> QED BY <1>1, <3>1
  <2>2. step[k][x] = IF s[k] \in V THEN Append(x, s[k]) ELSE x
    BY <2>1
  <2> HIDE DEF step, S
  <2>3. s[k] \in V => Append(x, s[k]) \in Seq(V)
    BY <2>1, AppendProperties
  <2> HIDE DEF l
  <2> QED BY <2>1, <2>2, <2>3
<1>4. Leads(step, l, S)
  <2> HIDE DEF S, l, step
  <2> QED BY <1>3 DEF Leads
<1>5. \E f : IsTrace(f)
  <2>1. PICK f : Computed(f, l, step, <<>>) /\ Within(f, l, S)
    <3> HIDE DEF S, l, step
    <3> QED BY <1>1, <1>2, <1>4, StepsExist
  <2>2. \A k \in 1..l : step[k][f[k - 1]] = IF s[k] \in V THEN Append(f[k - 1], s[k]) ELSE f[k - 1]
    <3> SUFFICES ASSUME NEW k \in 1..l
                 PROVE  step[k][f[k - 1]] = IF s[k] \in V THEN Append(f[k - 1], s[k]) ELSE f[k - 1]
      OBVIOUS
    <3>1. f[k - 1] \in Seq(V)
      <4>1. k - 1 \in 0..l
        BY <1>1
      <4> HIDE DEF S, l
      <4> QED BY <1>1, <2>1, <4>1 DEF Within
    <3> QED BY <3>1
  <2> HIDE DEF step
  <2>3. [k \in 0..l |-> IF k = 0 THEN <<>> ELSE step[k][f[k - 1]]] =
        [k \in 0..l |-> IF k = 0 THEN <<>>
                        ELSE IF s[k] \in V THEN Append(f[k - 1], s[k]) ELSE f[k - 1]]
    <3>1. \A k \in 0..l : k = 0 \/ k \in 1..l
      BY <1>1
    <3> HIDE DEF l
    <3> QED BY <2>2, <3>1
  <2>4. IsTrace(f)
    BY <2>1, <2>3 DEF Computed
  <2> QED BY <2>4
<1>6. IsTrace(w)
  <2>1. w = CHOOSE f : IsTrace(f)
    BY DEF KeptOf
  <2> HIDE DEF IsTrace, w
  <2> QED BY <1>5, <2>1
<1> HIDE DEF w
<1>9. w[0] = <<>> /\ \A k \in 1..l : w[k] = IF s[k] \in V THEN Append(w[k - 1], s[k]) ELSE w[k - 1]
  <2>1. \A n \in 0..l : w[n] = IF n = 0 THEN <<>>
                               ELSE IF s[n] \in V THEN Append(w[n - 1], s[n]) ELSE w[n - 1]
    <3> HIDE DEF l
    <3> QED BY <1>6
  <2>2. 0 \in 0..l /\ \A k \in 1..l : k \in 0..l /\ k # 0
    BY <1>1
  <2> HIDE DEF l, IsTrace
  <2> QED BY <2>1, <2>2
<1>7. Within(w, l, S)
  <2>2. \A k \in 1..l : w[k - 1] \in S[k - 1] => w[k] \in S[k]
    <3> SUFFICES ASSUME NEW k \in 1..l, w[k - 1] \in Seq(V) PROVE w[k] \in Seq(V)
      BY <1>1
    <3>1. s[k] \in V => Append(w[k - 1], s[k]) \in Seq(V)
      BY AppendProperties
    <3> HIDE DEF IsTrace, l
    <3> QED BY <1>9, <3>1
  <2> HIDE DEF S, l, IsTrace
  <2> QED BY <1>1, <1>2, <1>9, <2>2, StepsStay
<1>8. Only(s, V) = w[l]
  BY DEF Only, KeptOf, w
<1>10. \A k \in 0..l : w[k] \in Seq(V)
  <2> HIDE DEF l, S, IsTrace
  <2> QED BY <1>1, <1>7 DEF Within
<1> HIDE DEF IsTrace, S
<1> QED BY <1>8, <1>9, <1>10 DEF w

(* A filter of a sequence with one more member in front.                   *)
LEMMA OnlyCons ==
    ASSUME NEW X, NEW x \in X, NEW s \in Seq(X), NEW V
    PROVE  /\ x \in V => Only(<<x>> \o s, V) = <<x>> \o Only(s, V)
           /\ x \notin V => Only(<<x>> \o s, V) = Only(s, V)
<1> DEFINE t == <<x>> \o s
           l == Len(s)
           w == KeptOf(s, V)
           v == KeptOf(t, V)
           pre == IF x \in V THEN <<x>> ELSE <<>>
<1>1. /\ l \in Nat /\ t \in Seq(X) /\ Len(t) = l + 1 /\ t[1] = x
      /\ \A k \in 1..l : t[k + 1] = s[k]
  OBVIOUS
<1>2. /\ Only(s, V) = w[l] /\ w[0] = <<>>
      /\ \A k \in 1..l : /\ s[k] \in V => w[k] = Append(w[k - 1], s[k])
                         /\ s[k] \notin V => w[k] = w[k - 1]
      /\ \A k \in 0..l : w[k] \in Seq(V)
  BY <1>1, KeptIs
<1>3. /\ Only(t, V) = v[l + 1] /\ v[0] = <<>>
      /\ \A k \in 1..l + 1 : /\ t[k] \in V => v[k] = Append(v[k - 1], t[k])
                             /\ t[k] \notin V => v[k] = v[k - 1]
  <2> HIDE DEF t
  <2> QED BY <1>1, KeptIs
<1> HIDE DEF t, w, v, l
<1> DEFINE S == [k \in 0..l |-> {pre \o w[k]}]
           f == [k \in 0..l |-> v[k + 1]]
<1>4. pre \in Seq(V)
  OBVIOUS
<1>14. \A a \in Seq(V), y \in V : Append(pre \o a, y) = pre \o Append(a, y)
  <2> HIDE DEF pre, S, f
  <2> TAKE a \in Seq(V), y \in V
  <2> QED BY <1>4, SMTT(40)
<1>5. v[1] = pre
  <2>1. 1 \in 1..l + 1 /\ v[1 - 1] = <<>>
    BY <1>1, <1>3
  <2>2. x \in V => v[1] = Append(v[1 - 1], x)
    BY <1>1, <1>3, <2>1
  <2>3. x \notin V => v[1] = v[1 - 1]
    BY <1>1, <1>3, <2>1
  <2>4. Append(<<>>, x) = <<x>>
    OBVIOUS
  <2> QED BY <2>1, <2>2, <2>3, <2>4
<1>6. ASSUME NEW k \in 1..l, v[k] = pre \o w[k - 1] PROVE v[k + 1] = pre \o w[k]
  <2>1. /\ k + 1 \in 1..l + 1 /\ (k + 1) - 1 = k /\ t[k + 1] = s[k] /\ k - 1 \in 0..l
    BY <1>1
  <2>2. w[k - 1] \in Seq(V)
    BY <1>2, <2>1
  <2> HIDE DEF pre
  <2>3. CASE s[k] \in V
    <3>1. v[k + 1] = Append(v[k], s[k]) /\ w[k] = Append(w[k - 1], s[k])
      BY <1>2, <1>3, <2>1, <2>3
    <3>2. Append(pre \o w[k - 1], s[k]) = pre \o Append(w[k - 1], s[k])
      BY <2>2, <2>3, <1>14
    <3> QED BY <1>6, <3>1, <3>2
  <2>4. CASE s[k] \notin V
    <3>1. v[k + 1] = v[k] /\ w[k] = w[k - 1]
      BY <1>2, <1>3, <2>1, <2>4
    <3> QED BY <1>6, <3>1
  <2> QED BY <2>3, <2>4
<1>7. f[0] \in S[0]
  <2>1. pre \o <<>> = pre
    BY <1>4
  <2> HIDE DEF pre
  <2>2. 0 \in 0..l /\ 0 + 1 = 1
    BY <1>1
  <2>3. f[0] = v[1] /\ S[0] = {pre \o w[0]}
    BY <2>2
  <2> HIDE DEF f, S
  <2> QED BY <1>2, <1>5, <2>1, <2>3
<1>8. \A k \in 1..l : f[k - 1] \in S[k - 1] => f[k] \in S[k]
  <2> SUFFICES ASSUME NEW k \in 1..l, f[k - 1] \in S[k - 1] PROVE f[k] \in S[k]
    OBVIOUS
  <2> HIDE DEF pre
  <2>1. k \in 0..l /\ k - 1 \in 0..l /\ (k - 1) + 1 = k
    BY <1>1
  <2>2. f[k - 1] = v[k] /\ f[k] = v[k + 1] /\ S[k - 1] = {pre \o w[k - 1]} /\ S[k] = {pre \o w[k]}
    BY <2>1
  <2> QED BY <1>6, <2>2
<1>9. f[l] \in S[l]
  <2> HIDE DEF f, S
  <2>1. Within(f, l, S)
    BY <1>1, <1>7, <1>8, StepsStay
  <2> QED BY <1>1, <2>1 DEF Within
<1>10. v[l + 1] = pre \o w[l]
  <2> HIDE DEF pre
  <2> QED BY <1>1, <1>9
<1>11. w[l] \in Seq(V)
  BY <1>1, <1>2
<1>12. CASE x \in V
  BY <1>2, <1>3, <1>10, <1>12 DEF t
<1>13. CASE x \notin V
  <2>1. v[l + 1] = <<>> \o w[l]
    BY <1>10, <1>13
  <2>2. <<>> \o w[l] = w[l]
    BY <1>11
  <2> QED BY <1>2, <1>3, <1>13, <2>1, <2>2 DEF t
<1> QED BY <1>12, <1>13

(* A filter of the empty sequence.                                         *)
LEMMA OnlyNone ==
    ASSUME NEW V
    PROVE  Only(<<>>, V) = <<>>
BY KeptIs

-----------------------------------------------------------------------------
(* Stores that are chained alike. *)

(* What lies in S of one store and in V of the next is the same of old.    *)
Alike(d, e, S, V) ==
    /\ d \in Stores /\ e \in Stores /\ Chained(d) /\ Chained(e) /\ Slots(d) \subseteq Slots(e)
    /\ S \cap Slots(d) = V \cap Slots(d)

(* What lies ahead depends on the links and on the members alone.          *)
LEMMA TraceSame ==
    ASSUME NEW d, NEW e, NEW S, NEW V, Alike(d, e, S, V),
           \A i \in Slots(d) : e.slots[i].next = d.slots[i].next
    PROVE  \A j \in 0..Len(d.slots) : TraceOf(e, V)[j] = TraceOf(d, S)[j]
<1> DEFINE P == {j \in 0..Len(d.slots) : TraceOf(e, V)[j] = TraceOf(d, S)[j]}
<1>0. d \in Stores /\ e \in Stores /\ Chained(d) /\ Chained(e)
  BY DEF Alike
<1>1. None \in P
  BY <1>0, ChainIs, TraceIs
<1>2. ASSUME NEW i \in Slots(d), d.slots[i].next \in P PROVE i \in P
  <2> DEFINE m == d.slots[i].next
  <2>1. i \in 0..Len(d.slots) /\ i \in Slots(e) /\ e.slots[i].next = m /\ (i \in S <=> i \in V)
    BY <1>0, ChainIs DEF Alike
  <2>2. TraceOf(e, V)[m] = TraceOf(d, S)[m]
    BY <1>2
  <2>3. i \in S => TraceOf(d, S)[i] = <<i>> \o TraceOf(d, S)[m]
    BY ONLY <1>0, i \in Slots(d), TraceIs
  <2>4. i \notin S => TraceOf(d, S)[i] = TraceOf(d, S)[m]
    BY ONLY <1>0, i \in Slots(d), TraceIs
  <2> HIDE DEF m
  <2>5. i \in V => TraceOf(e, V)[i] = <<i>> \o TraceOf(e, V)[m]
    BY <1>0, <2>1, TraceIs
  <2>6. i \notin V => TraceOf(e, V)[i] = TraceOf(e, V)[m]
    BY <1>0, <2>1, TraceIs
  <2>7. TraceOf(e, V)[i] = TraceOf(d, S)[i]
    BY <2>1, <2>2, <2>3, <2>4, <2>5, <2>6
  <2> QED BY <2>1, <2>7
<1>3. 0..Len(d.slots) \subseteq P
  <2> HIDE DEF P
  <2> QED BY <1>0, <1>1, <1>2, ChainIs
<1> QED BY <1>3

(* A slot i is linked behind the tail.                                     *)
Behind(d, e, i) ==
    /\ i \in Slots(e) \ Slots(d) /\ e.slots[i].next = None
    /\ \A j \in Slots(d) : /\ d.slots[j].next # None => e.slots[j].next = d.slots[j].next
                           /\ d.slots[j].next = None => e.slots[j].next = i

(* A slot linked behind the last one comes last in what lies ahead.        *)
LEMMA TraceBehind ==
    ASSUME NEW d, NEW e, NEW S, NEW V, Alike(d, e, S, V), NEW i, Behind(d, e, i)
    PROVE  \A j \in Slots(d) :
               /\ i \in V => TraceOf(e, V)[j] = TraceOf(d, S)[j] \o <<i>>
               /\ i \notin V => TraceOf(e, V)[j] = TraceOf(d, S)[j]
<1> DEFINE P == {j \in 0..Len(d.slots) : j # None =>
                     /\ i \in V => TraceOf(e, V)[j] = TraceOf(d, S)[j] \o <<i>>
                     /\ i \notin V => TraceOf(e, V)[j] = TraceOf(d, S)[j]}
<1>0. d \in Stores /\ e \in Stores /\ Chained(d) /\ Chained(e) /\ i \in Slots(e)
  BY DEF Alike, Behind
<1>1. None \in P
  BY <1>0, ChainIs
<1>2. ASSUME NEW k \in Slots(d), d.slots[k].next \in P PROVE k \in P
  <2> DEFINE m == d.slots[k].next
             t == TraceOf(d, S)[m]
             u == TraceOf(e, V)[e.slots[k].next]
  <2>1. k \in 0..Len(d.slots) /\ k \in Slots(e) /\ (k \in S <=> k \in V) /\ m \in 0..Len(d.slots)
    BY <1>0, ChainIs DEF Alike
  <2>2. /\ k \in S => TraceOf(d, S)[k] = <<k>> \o t
        /\ k \notin S => TraceOf(d, S)[k] = t
        /\ t \in Seq(S \cap Slots(d))
    <3>1. t \in Seq(S \cap Slots(d))
      BY ONLY <1>0, <2>1, TraceIs
    <3>2. /\ k \in S => TraceOf(d, S)[k] = <<k>> \o t
          /\ k \notin S => TraceOf(d, S)[k] = t
      BY ONLY <1>0, k \in Slots(d), TraceIs
    <3> QED BY ONLY <3>1, <3>2
  <2>3. /\ k \in V => TraceOf(e, V)[k] = <<k>> \o u
        /\ k \notin V => TraceOf(e, V)[k] = u
    BY <1>0, <2>1, TraceIs
  <2>4. (i \in V => u = t \o <<i>>) /\ (i \notin V => u = t)
    <3>1. CASE m = None
      <4>1. e.slots[k].next = i /\ e.slots[i].next = None
        BY <3>1 DEF Behind
      <4>2. TraceOf(d, S)[None] = <<>> /\ TraceOf(e, V)[None] = <<>>
        BY <1>0, TraceIs
      <4>3. (i \in V => u = <<i>> \o <<>>) /\ (i \notin V => u = <<>>)
        <5>1. /\ i \in V => TraceOf(e, V)[i] = <<i>> \o TraceOf(e, V)[e.slots[i].next]
              /\ i \notin V => TraceOf(e, V)[i] = TraceOf(e, V)[e.slots[i].next]
          BY <1>0, TraceIs
        <5> QED BY <4>1, <4>2, <5>1
      <4>4. <<i>> \o <<>> = <<>> \o <<i>>
        OBVIOUS
      <4> QED BY <3>1, <4>2, <4>3, <4>4
    <3>2. CASE m # None
      <4>1. e.slots[k].next = m
        BY <3>2 DEF Behind
      <4> QED BY <1>2, <3>2, <4>1
    <3> QED BY <3>1, <3>2
  <2> HIDE DEF m, t, u
  <2>5. <<k>> \o (t \o <<i>>) = (<<k>> \o t) \o <<i>>
    <3> DEFINE W == Slots(e)
    <3>1. <<k>> \in Seq(W) /\ <<i>> \in Seq(W) /\ t \in Seq(W)
      BY <1>0, <2>1, <2>2 DEF Alike
    <3> HIDE DEF W
    <3> QED BY <3>1, ConcatAssociative
  <2> QED BY <2>1, <2>2, <2>3, <2>4, <2>5
<1>3. 0..Len(d.slots) \subseteq P
  <2> HIDE DEF P
  <2> QED BY <1>0, <1>1, <1>2, ChainIs
<1>4. \A j \in Slots(d) : j \in 0..Len(d.slots) /\ j # None
  BY <1>0, ChainIs
<1> QED BY <1>3, <1>4

-----------------------------------------------------------------------------
(* What a store shows. *)

Entries == [id : Nat, key : Keys \cup {Var}]
Entry(d, i) == [id |-> i, key |-> d.slots[i].key]

(* What is shown of slots, one by one.                                     *)
LEMMA ShownIs ==
    ASSUME NEW d \in Stores, NEW s \in Seq(Slots(d))
    PROVE  /\ Shown(d, s) \in Seq(Entries) /\ Len(Shown(d, s)) = Len(s) /\ Len(s) \in Nat
           /\ \A n \in 1..Len(s) : Shown(d, s)[n] = Entry(d, s[n]) /\ s[n] \in Slots(d)
<1>1. \A i \in Slots(d) : Entry(d, i) \in Entries
  <2> SUFFICES ASSUME NEW i \in Slots(d) PROVE Entry(d, i) \in Entries
    OBVIOUS
  <2>1. d.slots[i] \in SlotRecs /\ i \in Nat
    BY SlotIs DEF Slots, Stores
  <2>2. d.slots[i].key \in Keys \cup {Var}
    BY <2>1 DEF SlotRecs
  <2> QED BY <2>1, <2>2 DEF Entry, Entries
<1>2. Shown(d, s) = [n \in 1..Len(s) |-> Entry(d, s[n])]
  BY DEF Shown, Entry
<1>3. Len(s) \in Nat /\ \A n \in 1..Len(s) : s[n] \in Slots(d)
  OBVIOUS
<1> QED BY <1>1, <1>2, <1>3

(* A store shows the same of the slots of another if it has their keys.    *)
LEMMA ShownSame ==
    ASSUME NEW d \in Stores, NEW e \in Stores, Slots(d) \subseteq Slots(e),
           \A i \in Slots(d) : e.slots[i].key = d.slots[i].key
    PROVE  \A s \in Seq(Slots(d)) : Shown(e, s) = Shown(d, s)
<1> TAKE s \in Seq(Slots(d))
<1>1. \A n \in 1..Len(s) : e.slots[s[n]].key = d.slots[s[n]].key
  OBVIOUS
<1> QED BY <1>1 DEF Shown

(* Slots joined are shown joined.                                          *)
LEMMA ShownJoin ==
    ASSUME NEW d \in Stores, NEW a \in Seq(Slots(d)), NEW b \in Seq(Slots(d))
    PROVE  Shown(d, a \o b) = Shown(d, a) \o Shown(d, b)
<1> DEFINE c == a \o b
<1>1. /\ c \in Seq(Slots(d)) /\ Len(c) = Len(a) + Len(b) /\ Len(a) \in Nat /\ Len(b) \in Nat
      /\ \A k \in 1..Len(a) : c[k] = a[k]
      /\ \A k \in Len(a) + 1..Len(a) + Len(b) : c[k] = b[k - Len(a)]
  BY ConcatProperties
<1> HIDE DEF c
<1>2. /\ Shown(d, c) \in Seq(Entries) /\ Len(Shown(d, c)) = Len(c)
      /\ \A n \in 1..Len(c) : Shown(d, c)[n] = Entry(d, c[n])
  BY <1>1, ShownIs
<1>3. /\ Shown(d, a) \in Seq(Entries) /\ Len(Shown(d, a)) = Len(a)
      /\ \A n \in 1..Len(a) : Shown(d, a)[n] = Entry(d, a[n])
  BY ShownIs
<1>4. /\ Shown(d, b) \in Seq(Entries) /\ Len(Shown(d, b)) = Len(b)
      /\ \A n \in 1..Len(b) : Shown(d, b)[n] = Entry(d, b[n])
  BY ShownIs
<1> DEFINE sa == Shown(d, a)
           sb == Shown(d, b)
           sc == Shown(d, c)
<1> HIDE DEF sa, sb, sc
<1>5. /\ sa \o sb \in Seq(Entries) /\ Len(sa \o sb) = Len(c)
      /\ \A k \in 1..Len(a) : (sa \o sb)[k] = sa[k]
      /\ \A k \in Len(a) + 1..Len(a) + Len(b) : (sa \o sb)[k] = sb[k - Len(a)]
  BY <1>1, <1>3, <1>4, ConcatProperties DEF sa, sb
<1>6. ASSUME NEW k \in 1..Len(c) PROVE sc[k] = (sa \o sb)[k]
  <2>1. CASE k \in 1..Len(a)
    BY <1>1, <1>2, <1>3, <1>5, <2>1 DEF sa, sc
  <2>2. CASE k \notin 1..Len(a)
    <3>1. k \in Len(a) + 1..Len(a) + Len(b) /\ k - Len(a) \in 1..Len(b)
      BY <1>1, <2>2
    <3> QED BY <1>1, <1>2, <1>4, <1>5, <3>1 DEF sb, sc
  <2> QED BY <2>1, <2>2
<1>7. sc = sa \o sb
  <2>1. sc \in Seq(Entries) /\ Len(sc) = Len(c)
    BY <1>2 DEF sc
  <2> QED BY <1>5, <1>6, <2>1, SeqEqual
<1> QED BY <1>7 DEF sa, sb, sc, c

(* One slot is shown as one clause.                                        *)
LEMMA ShownOne ==
    ASSUME NEW d \in Stores, NEW i \in Slots(d)
    PROVE  Shown(d, <<i>>) = <<Entry(d, i)>> /\ Entry(d, i) \in Entries /\ Shown(d, <<>>) = <<>>
<1>1. <<i>> \in Seq(Slots(d)) /\ Len(<<i>>) = 1 /\ <<i>>[1] = i
  OBVIOUS
<1>2. /\ Shown(d, <<i>>) \in Seq(Entries) /\ Len(Shown(d, <<i>>)) = 1
      /\ Shown(d, <<i>>)[1] = Entry(d, i)
  BY <1>1, ShownIs
<1>3. Entry(d, i) \in Entries
  BY <1>2
<1>4. Shown(d, <<>>) = <<>>
  <2>1. <<>> \in Seq(Slots(d)) /\ Len(<<>>) = 0
    OBVIOUS
  <2>2. Shown(d, <<>>) \in Seq(Entries) /\ Len(Shown(d, <<>>)) = 0
    BY <2>1, ShownIs
  <2> QED BY <2>2
<1> QED BY <1>2, <1>3, <1>4

(* Those of the clauses in U that lie in S are what T takes of what the    *)
(* store shows of U.                                                       *)
Takes(d, T, U, S) ==
    /\ \A i \in Slots(d) : i \in S => i \in U
    /\ \A i \in Slots(d) : i \in U => (Entry(d, i) \in T <=> i \in S)

(* To filter what is shown is to show what is filtered.                    *)
LEMMA ShownOnly ==
    ASSUME NEW d \in Stores, Chained(d), NEW U, NEW S, NEW T, Takes(d, T, U, S)
    PROVE  \A j \in 0..Len(d.slots) : Only(Shown(d, TraceOf(d, U)[j]), T) = Shown(d, TraceOf(d, S)[j])
<1> DEFINE P == {j \in 0..Len(d.slots) : Only(Shown(d, TraceOf(d, U)[j]), T) = Shown(d, TraceOf(d, S)[j])}
<1>1. None \in P
  <2>1. TraceOf(d, U)[None] = <<>> /\ TraceOf(d, S)[None] = <<>>
    BY TraceIs
  <2>2. <<>> \in Seq(Slots(d)) /\ Len(<<>>) = 0
    OBVIOUS
  <2>3. Shown(d, <<>>) \in Seq(Entries) /\ Len(Shown(d, <<>>)) = 0
    BY <2>2, ShownIs
  <2>4. Shown(d, <<>>) = <<>>
    BY <2>3
  <2>5. Only(<<>>, T) = <<>>
    BY OnlyNone
  <2>6. None \in 0..Len(d.slots)
    BY ChainIs
  <2> QED BY <2>1, <2>4, <2>5, <2>6
<1>2. ASSUME NEW i \in Slots(d), d.slots[i].next \in P PROVE i \in P
  <2> DEFINE m == d.slots[i].next
             u == TraceOf(d, U)[m]
             s == TraceOf(d, S)[m]
             x == Entry(d, i)
             su == Shown(d, u)
             ss == Shown(d, s)
  <2>1. i \in 0..Len(d.slots) /\ m \in 0..Len(d.slots)
    BY ChainIs
  <2>2. /\ i \in U => TraceOf(d, U)[i] = <<i>> \o u
        /\ i \notin U => TraceOf(d, U)[i] = u
        /\ i \in S => TraceOf(d, S)[i] = <<i>> \o s
        /\ i \notin S => TraceOf(d, S)[i] = s
    BY TraceIs
  <2>3. u \in Seq(U \cap Slots(d)) /\ s \in Seq(S \cap Slots(d))
    BY <2>1, TraceIs
  <2>4. Only(su, T) = ss
    BY <1>2
  <2> HIDE DEF m, u, s
  <2>5. u \in Seq(Slots(d)) /\ s \in Seq(Slots(d)) /\ <<i>> \in Seq(Slots(d))
    BY <2>3
  <2>6. /\ Shown(d, <<i>> \o u) = Shown(d, <<i>>) \o su
        /\ Shown(d, <<i>> \o s) = Shown(d, <<i>>) \o ss
        /\ Shown(d, <<i>>) = <<x>> /\ x \in Entries
    BY <2>5, ShownJoin, ShownOne
  <2>7. su \in Seq(Entries)
    BY <2>5, ShownIs
  <2> HIDE DEF x, su, ss, P
  <2>8. /\ x \in T => Only(<<x>> \o su, T) = <<x>> \o Only(su, T)
        /\ x \notin T => Only(<<x>> \o su, T) = Only(su, T)
    <3>1. x \in Entries
      BY <2>6
    <3> QED BY ONLY <2>7, <3>1, OnlyCons, SMTT(40)
  <2>9. CASE i \in U
    <3>1. x \in T <=> i \in S
      BY <2>9 DEF x, Takes
    <3>2. Only(Shown(d, TraceOf(d, U)[i]), T) = Only(<<x>> \o su, T)
      BY <2>2, <2>6, <2>9
    <3>3. Shown(d, TraceOf(d, S)[i]) = IF i \in S THEN <<x>> \o ss ELSE ss
      BY <2>2, <2>6 DEF ss
    <3> QED BY <2>1, <2>4, <2>8, <3>1, <3>2, <3>3 DEF P
  <2>10. CASE i \notin U
    <3>1. i \notin S
      BY <2>10 DEF Takes
    <3> QED BY <2>1, <2>2, <2>4, <2>10, <3>1 DEF su, ss, P
  <2> QED BY <2>9, <2>10
<1>3. 0..Len(d.slots) \subseteq P
  <2> HIDE DEF P
  <2> QED BY <1>1, <1>2, ChainIs
<1> QED BY <1>3

(* The operators of the abstract module on sequences are those of this     *)
(* one.                                                                    *)
LEMMA ViewOnly ==
    /\ \A s, S : View!Only(s, S) = Only(s, S)
    /\ \A s : View!ToSet(s) = ToSet(s) /\ View!Front(s) = Front(s) /\ View!Last(s) = Last(s)
BY DEF View!Only, Only, View!ToSet, ToSet, View!Front, Front, View!Last, Last

-----------------------------------------------------------------------------
(* Steps that leave the chain and the index as they are. *)

(* Every list of slots is the same in both, and shows the same.            *)
LEMMA KinTraces ==
    ASSUME NEW d \in Stores, Chained(d), NEW e, Kin(d, e)
    PROVE  /\ Slots(e) = Slots(d) /\ e \in Stores /\ Chained(e)
           /\ \A S : \A j \in 0..Len(d.slots) : TraceOf(e, S)[j] = TraceOf(d, S)[j]
           /\ \A S : Packet(e, S) = Packet(d, S)
           /\ \A s \in Seq(Slots(d)) : Shown(e, s) = Shown(d, s)
<1>1. Slots(e) = Slots(d) /\ e \in Stores /\ Len(e.slots) = Len(d.slots)
  BY DEF Kin, Slots
<1>2. Chained(e)
  <2>1. PICK rank : Ranks(d, rank)
    BY DEF Chained
  <2>2. Ranks(e, rank)
    BY <1>1, <2>1 DEF Ranks, Kin
  <2>3. e.head \in 0..Len(e.slots) /\ e.tail \in 0..Len(e.slots) /\ (e.head = None <=> e.tail = None)
    BY <1>1 DEF Kin, Chained
  <2> QED BY <2>2, <2>3 DEF Chained
<1>3. \A i \in Slots(d) : e.slots[i].next = d.slots[i].next /\ e.slots[i].key = d.slots[i].key
  BY DEF Kin
<1>4. \A S : Alike(d, e, S, S)
  BY <1>1, <1>2 DEF Alike
<1>5. \A S : \A j \in 0..Len(d.slots) : TraceOf(e, S)[j] = TraceOf(d, S)[j]
  <2> TAKE S
  <2>1. Alike(d, e, S, S)
    BY <1>4
  <2> QED BY ONLY <1>3, <2>1, TraceSame
<1>6. \A S : Packet(e, S) = Packet(d, S)
  <2>1. e.head = d.head /\ d.head \in 0..Len(d.slots)
    BY ChainIs DEF Kin
  <2> QED BY <1>5, <2>1, PacketIsTrace
<1>7. \A s \in Seq(Slots(d)) : Shown(e, s) = Shown(d, s)
  BY <1>1, <1>3, ShownSame
<1> QED BY <1>1, <1>2, <1>5, <1>6, <1>7

(* A store that differs in marks only is sound with the other.             *)
LEMMA KinSound ==
    ASSUME NEW d, Sound(d), NEW e, Kin(d, e)
    PROVE  Sound(e)
<1>0. d \in Stores /\ Chained(d) /\ Whole(d) /\ IxServes(d)
  BY DEF Sound
<1>1. Slots(e) = Slots(d) /\ e \in Stores /\ Chained(e) /\ \A S : Packet(e, S) = Packet(d, S)
  BY <1>0, KinTraces
<1>2. Whole(e)
  <2>1. /\ e.tail = d.tail
        /\ \A i \in Slots(d) : e.slots[i].next = d.slots[i].next
    BY DEF Kin
  <2> QED BY <1>0, <1>1, <2>1 DEF Whole
<1>3. \A key : ChainOf(e, key) = ChainOf(d, key)
  <2> TAKE key
  <2>1. {i \in Slots(e) : e.slots[i].key = key} = {i \in Slots(d) : d.slots[i].key = key}
    BY <1>1 DEF Kin
  <2> QED BY <1>1, <2>1 DEF ChainOf
<1>4. IxServes(e)
  <2>1. /\ e.ix = d.ix /\ e.ixOff = d.ixOff
        /\ \A i \in Slots(d) : e.slots[i].key = d.slots[i].key
    BY DEF Kin
  <2> QED BY <1>0, <1>1, <1>3, <2>1 DEF IxServes
<1> QED BY <1>1, <1>2, <1>4 DEF Sound

(* What a goal sees, if no more changed than the erasure of clauses it     *)
(* cannot tell from others.                                                *)
StaysAt(d, e, i, gen) ==
    \/ e.slots[i].erased = d.slots[i].erased
    \/ d.slots[i].ref >= gen
    \/ /\ d.slots[i].erased = 0 \/ d.slots[i].erased >= gen
       /\ e.slots[i].erased = 0 \/ e.slots[i].erased >= gen

(* A goal whose clauses stay for it sees the same slots.                   *)
LEMMA KinSees ==
    ASSUME NEW d \in Stores, NEW e, Kin(d, e), NEW g, g.gen \in Nat,
           \A i \in Slots(d) : StaysAt(d, e, i, g.gen)
    PROVE  Seen(e, g) = Seen(d, g)
<1>1. Slots(e) = Slots(d)
  BY DEF Kin, Slots
<1>2. ASSUME NEW i \in Slots(d)
      PROVE  (Visible(e.slots[i], g.gen) /\ ~Rejects(e, i, g.key))
             <=> (Visible(d.slots[i], g.gen) /\ ~Rejects(d, i, g.key))
  <2>1. e.slots[i].key = d.slots[i].key /\ e.slots[i].ref = d.slots[i].ref /\ d.slots[i].ref \in Nat
        /\ d.slots[i].erased \in Nat /\ e \in Stores
    BY SlotIs DEF Kin
  <2>2. Rejects(e, i, g.key) <=> Rejects(d, i, g.key)
    BY <2>1 DEF Rejects
  <2>3. Visible(e.slots[i], g.gen) <=> Visible(d.slots[i], g.gen)
    <3>1. CASE d.slots[i].ref >= g.gen
      <4>1. ~(d.slots[i].ref < g.gen)
        BY <2>1, <3>1
      <4> QED BY <2>1, <4>1 DEF Visible
    <3>2. CASE ~(d.slots[i].ref >= g.gen)
      <4>1. StaysAt(d, e, i, g.gen)
        OBVIOUS
      <4> QED BY <2>1, <3>2, <4>1 DEF Visible, StaysAt
    <3> QED BY <3>1, <3>2
  <2> QED BY <2>2, <2>3
<1> QED BY <1>1, <1>2 DEF Seen

(* What is left to a goal is the same then.                                *)
LEMMA KinRuns ==
    ASSUME NEW d, Sound(d), NEW e, Kin(d, e), NEW g, Plain(g), g.gen \in Nat, Sees(d, g),
           \A i \in Slots(d) : StaysAt(d, e, i, g.gen)
    PROVE  Sees(e, g) /\ Shown(e, Remaining(e, g)) = Shown(d, Remaining(d, g))
<1>0. d \in Stores /\ Chained(d)
  BY DEF Sound
<1>1. Sound(e)
  BY KinSound
<1>2. Seen(e, g) = Seen(d, g)
  BY <1>0, KinSees
<1>3. Sees(e, g)
  BY <1>2 DEF Sees
<1>4. Remaining(d, g) = TraceOf(d, Seen(d, g))[g.at] /\ Remaining(e, g) = TraceOf(e, Seen(e, g))[g.at]
  BY <1>1, <1>3, RemainingAt DEF Sees
<1>5. g.at \in 0..Len(d.slots)
  BY <1>0, ChainIs DEF Sees, Seen
<1>6. Remaining(e, g) = Remaining(d, g)
  BY <1>0, <1>2, <1>4, <1>5, KinTraces
<1>7. Remaining(d, g) \in Seq(Slots(d))
  <2>1. TraceOf(d, Seen(d, g))[g.at] \in Seq(Seen(d, g) \cap Slots(d))
    BY <1>0, <1>5, TraceIs
  <2> QED BY <1>4, <2>1
<1> QED BY <1>0, <1>3, <1>6, <1>7, KinTraces

-----------------------------------------------------------------------------
(* A clause comes. *)

Grown(d, e, c, front) ==
    /\ e \in Stores /\ Chained(e) /\ Slots(e) = Slots(d) \cup {NewSlot(d)} /\ NewSlot(d) \notin Slots(d)
    /\ NewSlot(d) # None
    /\ Joins(d, e, c, front)
    /\ e.head = IF front \/ d.head = None THEN NewSlot(d) ELSE d.head
    /\ \A j \in Slots(d) : e.slots[j].ref = d.slots[j].ref /\ e.slots[j].erased = d.slots[j].erased
    /\ e.slots[NewSlot(d)].ref = d.nextRef /\ e.slots[NewSlot(d)].erased = 0

(* The new slot comes before the others or after them. *)
LEMMA GrownTraces ==
    ASSUME NEW d \in Stores, Chained(d), Whole(d), NEW e, NEW c, NEW front \in BOOLEAN,
           Grown(d, e, c, front), NEW S, NEW V, Alike(d, e, S, V)
    PROVE  LET i == NewSlot(d)
           IN  /\ i \notin V => /\ Packet(e, V) = Packet(d, S)
                                /\ \A j \in Slots(d) : TraceOf(e, V)[j] = TraceOf(d, S)[j]
               /\ i \in V /\ front => Packet(e, V) = <<i>> \o Packet(d, S)
               /\ i \in V /\ ~front => Packet(e, V) = Packet(d, S) \o <<i>>
<1> DEFINE i == NewSlot(d)
<1>1. /\ e \in Stores /\ Chained(e) /\ i \in Slots(e) /\ i \notin Slots(d) /\ i # None
      /\ \A j \in Slots(d) : j \in Slots(e) /\ j \in 0..Len(d.slots) /\ j # None
      /\ d.head \in 0..Len(d.slots) /\ (d.head # None => d.head \in Slots(d))
      /\ (d.head = None <=> d.tail = None)
  BY ChainIs DEF Grown, Chained
<1>3. /\ Packet(e, V) = TraceOf(e, V)[e.head] /\ Packet(d, S) = TraceOf(d, S)[d.head]
  BY PacketIsTrace
<1>4. /\ i \in V => TraceOf(e, V)[i] = <<i>> \o TraceOf(e, V)[e.slots[i].next]
      /\ i \notin V => TraceOf(e, V)[i] = TraceOf(e, V)[e.slots[i].next]
      /\ TraceOf(e, V)[None] = <<>> /\ TraceOf(d, S)[None] = <<>>
  <2>1. TraceOf(d, S)[None] = <<>>
    BY TraceIs
  <2>2. /\ TraceOf(e, V)[None] = <<>>
        /\ \A j \in Slots(e) : j \in V => TraceOf(e, V)[j] = <<j>> \o TraceOf(e, V)[e.slots[j].next]
        /\ \A j \in Slots(e) : j \notin V => TraceOf(e, V)[j] = TraceOf(e, V)[e.slots[j].next]
    <3>1. e \in Stores /\ Chained(e)
      BY <1>1
    <3> QED BY ONLY <3>1, TraceIs
  <2> HIDE DEF i
  <2> QED BY <1>1, <2>1, <2>2
<1>5. CASE front
  <2>1. /\ e.head = i /\ e.slots[i].next = d.head
        /\ \A j \in Slots(d) : e.slots[j].next = d.slots[j].next
    BY <1>5 DEF Grown, Joins
  <2>2. \A j \in 0..Len(d.slots) : TraceOf(e, V)[j] = TraceOf(d, S)[j]
    BY ONLY Alike(d, e, S, V), <2>1, TraceSame
  <2>3. TraceOf(e, V)[d.head] = TraceOf(d, S)[d.head]
    BY <1>1, <2>2
  <2> HIDE DEF i
  <2> QED BY <1>1, <1>3, <1>4, <1>5, <2>1, <2>2, <2>3 DEF i
<1>6. CASE ~front
  <2>1. Behind(d, e, i)
    <3>1. e.slots[i].next = None
      BY <1>6 DEF Grown, Joins
    <3>2. ASSUME NEW j \in Slots(d)
          PROVE  /\ d.slots[j].next # None => e.slots[j].next = d.slots[j].next
                 /\ d.slots[j].next = None => e.slots[j].next = i
      <4>1. j = d.tail <=> d.slots[j].next = None
        BY <1>1 DEF Whole
      <4>2. /\ j = d.tail => e.slots[j].next = i
            /\ j # d.tail => e.slots[j].next = d.slots[j].next
        BY <1>6 DEF Grown, Joins
      <4> QED BY <4>1, <4>2
    <3> QED BY <1>1, <3>1, <3>2 DEF Behind
  <2> HIDE DEF i
  <2>2. \A j \in Slots(d) : /\ i \in V => TraceOf(e, V)[j] = TraceOf(d, S)[j] \o <<i>>
                            /\ i \notin V => TraceOf(e, V)[j] = TraceOf(d, S)[j]
    BY ONLY Alike(d, e, S, V), <2>1, TraceBehind
  <2>3. e.slots[i].next = None
    BY <2>1 DEF Behind
  <2>4. CASE d.head = None
    <3>1. e.head = i
      BY <2>4 DEF Grown, i
    <3>2. <<i>> \o <<>> = <<>> \o <<i>>
      OBVIOUS
    <3> QED BY <1>3, <1>4, <1>6, <2>2, <2>3, <2>4, <3>1, <3>2 DEF i
  <2>5. CASE d.head # None
    <3>1. e.head = d.head /\ d.head \in Slots(d)
      BY <1>1, <1>6, <2>5 DEF Grown
    <3> QED BY <1>3, <1>6, <2>2, <3>1 DEF i
  <2> QED BY <2>4, <2>5
<1> QED BY <1>5, <1>6

(* A new slot that is not listed changes no list.                          *)
LEMMA GrownOutside ==
    ASSUME NEW d \in Stores, Chained(d), Whole(d), NEW e, NEW c, NEW front \in BOOLEAN,
           Grown(d, e, c, front), NEW S, NEW V, Alike(d, e, S, V), NewSlot(d) \notin V
    PROVE  Packet(e, V) = Packet(d, S) /\ \A j \in Slots(d) : TraceOf(e, V)[j] = TraceOf(d, S)[j]
<1>1. LET i == NewSlot(d)
      IN  /\ i \notin V => /\ Packet(e, V) = Packet(d, S)
                           /\ \A j \in Slots(d) : TraceOf(e, V)[j] = TraceOf(d, S)[j]
          /\ i \in V /\ front => Packet(e, V) = <<i>> \o Packet(d, S)
          /\ i \in V /\ ~front => Packet(e, V) = Packet(d, S) \o <<i>>
  BY GrownTraces
<1> QED BY <1>1

(* A new slot that is listed comes first or last.                          *)
LEMMA GrownInside ==
    ASSUME NEW d \in Stores, Chained(d), Whole(d), NEW e, NEW c, NEW front \in BOOLEAN,
           Grown(d, e, c, front), NEW S, NEW V, Alike(d, e, S, V), NewSlot(d) \in V
    PROVE  \/ Packet(e, V) = <<NewSlot(d)>> \o Packet(d, S)
           \/ Packet(e, V) = Packet(d, S) \o <<NewSlot(d)>>
<1>1. LET i == NewSlot(d)
      IN  /\ i \notin V => /\ Packet(e, V) = Packet(d, S)
                           /\ \A j \in Slots(d) : TraceOf(e, V)[j] = TraceOf(d, S)[j]
          /\ i \in V /\ front => Packet(e, V) = <<i>> \o Packet(d, S)
          /\ i \in V /\ ~front => Packet(e, V) = Packet(d, S) \o <<i>>
  BY GrownTraces
<1> QED BY <1>1

(* With one clause more, all slots are still chained.                      *)
LEMMA GrownWhole ==
    ASSUME NEW d \in Stores, Chained(d), Whole(d), NEW e, NEW c, NEW front \in BOOLEAN,
           Grown(d, e, c, front)
    PROVE  Whole(e)
<1> DEFINE i == NewSlot(d)
           p == Packet(d, Slots(d))
           q == Packet(e, Slots(e))
<1>1. /\ Slots(e) = Slots(d) \cup {i} /\ i \notin Slots(d) /\ i # None
      /\ (d.head = None <=> d.tail = None)
      /\ \A j \in Slots(d) : j # None
      /\ (d.tail # None => d.tail \in Slots(d) /\ d.slots[d.tail].next = None)
      /\ \A j \in Slots(d) : (d.slots[j].next = None => j = d.tail) /\ j \in ToSet(p)
  BY ChainIs DEF Grown, Chained, Whole
<1>2. /\ \A j \in Slots(d) : /\ ~front /\ j = d.tail => e.slots[j].next = i
                             /\ front \/ j # d.tail => e.slots[j].next = d.slots[j].next
      /\ e.slots[i].next = IF front THEN d.head ELSE None
      /\ e.tail = IF ~front \/ d.tail = None THEN i ELSE d.tail
  BY DEF Grown, Joins
<1>3. (front => q = <<i>> \o p) /\ (~front => q = p \o <<i>>)
  <2>1. Slots(d) \cap Slots(d) = Slots(e) \cap Slots(d) /\ i \in Slots(e)
    BY <1>1
  <2>2. Alike(d, e, Slots(d), Slots(e))
    BY <2>1 DEF Alike, Grown
  <2> QED BY <2>1, <2>2, GrownTraces
<1>4. ToSet(q) = ToSet(p) \cup {i}
  <2>1. p \in Seq(Slots(d) \cap Slots(d))
    <3>1. d.head \in 0..Len(d.slots)
      BY DEF Chained
    <3> QED BY <3>1, TraceIs, PacketIsTrace
  <2> HIDE DEF p, q, i
  <2>2. p \in Seq(Slots(e)) /\ <<i>> \in Seq(Slots(e))
    BY <1>1, <2>1
  <2>3. ToSet(<<i>>) = {i}
    BY DEF ToSet
  <2>4. ToSet(<<i>> \o p) = ToSet(<<i>>) \cup ToSet(p) /\ ToSet(p \o <<i>>) = ToSet(p) \cup ToSet(<<i>>)
    BY ONLY <2>2, ToSetConcat
  <2> QED BY <1>3, <2>3, <2>4
<1> HIDE DEF i, p, q
<1>5. e.tail # None => e.tail \in Slots(e) /\ e.slots[e.tail].next = None
  BY <1>1, <1>2
<1>6. \A j \in Slots(e) : (e.slots[j].next = None => j = e.tail) /\ j \in ToSet(q)
  BY <1>1, <1>2, <1>4
<1> QED BY <1>5, <1>6 DEF Whole, q

(* The index keeps up.                                                     *)
LEMMA SameWhole ==
    ASSUME NEW d \in Stores, Chained(d), NEW e, Reindexed(d, e)
    PROVE  /\ Slots(e) = Slots(d) /\ Chained(e)
           /\ \A S : Packet(e, S) = Packet(d, S)
           /\ \A key : ChainOf(e, key) = ChainOf(d, key)
           /\ Whole(d) => Whole(e)
<1>1. Slots(e) = Slots(d) /\ e \in Stores /\ e.slots = d.slots /\ e.head = d.head /\ e.tail = d.tail
  BY DEF Reindexed, Slots
<1>2. Chained(e)
  BY <1>1 DEF Chained, Ranks
<1>3. \A S : Packet(e, S) = Packet(d, S)
  <2> TAKE S
  <2>1. Alike(d, e, S, S)
    BY <1>1, <1>2 DEF Alike
  <2>2. \A i \in Slots(d) : e.slots[i].next = d.slots[i].next
    BY <1>1
  <2>3. \A j \in 0..Len(d.slots) : TraceOf(e, S)[j] = TraceOf(d, S)[j]
    BY ONLY <2>1, <2>2, TraceSame
  <2>4. d.head \in 0..Len(d.slots)
    BY DEF Chained
  <2> QED BY <1>1, <2>3, <2>4, PacketIsTrace
<1>4. \A key : ChainOf(e, key) = ChainOf(d, key)
  BY <1>1, <1>3 DEF ChainOf
<1>5. Whole(d) => Whole(e)
  BY <1>1, <1>3 DEF Whole
<1> QED BY <1>1, <1>2, <1>3, <1>4, <1>5

(* pl_ix_build lists every clause of a key in its place.                   *)
LEMMA BuildServes ==
    ASSUME NEW d \in Stores, Chained(d), ~d.ixOff, Reindexed(d, IxBuild(d))
    PROVE  IxServes(IxBuild(d))
<1> DEFINE e == IxBuild(d)
<1>1. CASE \E i \in Slots(d) : d.slots[i].key = Var
  <2>1. e = [d EXCEPT !.ix = NoIx, !.ixOff = TRUE]
    BY <1>1 DEF IxBuild
  <2>2. e.ix = NoIx
    BY <2>1 DEF Stores
  <2> QED BY <2>2 DEF IxServes
<1>2. CASE ~\E i \in Slots(d) : d.slots[i].key = Var
  <2> DEFINE of == [key \in Keys |-> ChainOf(d, key)]
             x == [cap |-> d.cap, of |-> of]
  <2>1. e = [d EXCEPT !.ix = x]
    BY <1>2 DEF IxBuild
  <2>2. e.ix = x /\ e.ixOff = d.ixOff
    BY <2>1 DEF Stores
  <2> HIDE DEF e
  <2>3. \A key \in Keys : e.ix.of[key] = ChainOf(e, key)
    <3>1. \A key \in Keys : e.ix.of[key] = ChainOf(d, key)
      BY <2>2
    <3> HIDE DEF of, x
    <3>2. \A key : ChainOf(e, key) = ChainOf(d, key)
      BY SameWhole DEF e
    <3> QED BY <3>1, <3>2
  <2>4. \A i \in Slots(e) : e.slots[i].key # Var
    <3>1. Slots(e) = Slots(d) /\ e.slots = d.slots
      BY DEF Reindexed, Slots, e
    <3> QED BY <1>2, <3>1
  <2> QED BY <2>2, <2>3, <2>4 DEF IxServes, e
<1> QED BY <1>1, <1>2

(* pl_ix_link adds the new clause to its key's list, first or last.        *)
LEMMA LinkServes ==
    ASSUME NEW d \in Stores, Chained(d), Whole(d), IxServes(d), NEW l, NEW c, NEW front \in BOOLEAN,
           Grown(d, l, c, front), l.ix = d.ix, l.ixOff = d.ixOff, l.ix # NoIx,
           l.slots[NewSlot(d)].key # Var
    PROVE  IxServes(IxLink(l, NewSlot(d), front))
<1> DEFINE i == NewSlot(d)
           k == l.slots[i].key
           e == IxLink(l, i, front)
           s == IF front THEN <<i>> \o l.ix.of[k] ELSE Append(l.ix.of[k], i)
           x == [l.ix EXCEPT !.of = [l.ix.of EXCEPT ![k] = s]]
<1>1. /\ l \in Stores /\ Chained(l) /\ i \in Slots(l) /\ i \notin Slots(d)
      /\ \A j \in Slots(l) : j = i \/ j \in Slots(d)
      /\ \A j \in Slots(d) : j \in Slots(l) /\ l.slots[j].key = d.slots[j].key
  BY DEF Grown, Joins
<1>2. /\ \A key \in Keys : l.ix.of[key] = ChainOf(d, key)
      /\ \A j \in Slots(d) : d.slots[j].key # Var
      /\ ~l.ixOff
  BY DEF IxServes
<1> HIDE DEF i
<1>3. k \in Keys
  BY <1>1, SlotIs DEF SlotRecs, i
<1>4. l.ix \in [cap : Nat, of : [Keys -> Seq(Nat)]]
  BY <1>1 DEF Stores, Indexes
<1>5. Reindexed(l, e)
  <2>1. i \in Nat
    BY <1>1 DEF Slots, Stores
  <2>2. l.ix.of[k] \in Seq(Nat)
    <3> HIDE DEF k
    <3>1. l.ix.of \in [Keys -> Seq(Nat)]
      BY <1>4
    <3> QED BY <1>3, <3>1
  <2>3. s \in Seq(Nat)
    <3>1. <<i>> \in Seq(Nat)
      BY <2>1
    <3> HIDE DEF k
    <3> QED BY <2>1, <2>2, <3>1, ConcatProperties, AppendProperties
  <2>4. e = [l EXCEPT !.ix = x]
    BY <1>1, <1>3, <1>4 DEF IxLink, Stores
  <2> HIDE DEF s, k
  <2>5. x \in Indexes
    BY <1>3, <1>4, <2>3 DEF Indexes
  <2> HIDE DEF x
  <2> QED BY <1>1, <2>4, <2>5 DEF Reindexed, Stores
<1>6. e.ix = x /\ e.ixOff = l.ixOff
  <2>1. e = [l EXCEPT !.ix = x]
    BY <1>1, <1>3, <1>4 DEF IxLink, Stores
  <2> HIDE DEF x
  <2> QED BY <1>1, <2>1 DEF Stores
<1> HIDE DEF e
<1>7. /\ Slots(e) = Slots(l) /\ e.slots = l.slots
      /\ \A key : ChainOf(e, key) = ChainOf(l, key)
  <2>1. e.slots = l.slots
    BY <1>5 DEF Reindexed
  <2> QED BY <1>1, <1>5, <2>1, SameWhole
<1>8. \A j \in Slots(e) : e.slots[j].key # Var
  BY <1>1, <1>2, <1>7 DEF i
<1>9. ASSUME NEW key \in Keys PROVE e.ix.of[key] = ChainOf(e, key)
  <2> DEFINE S == {j \in Slots(d) : d.slots[j].key = key}
             V == {j \in Slots(l) : l.slots[j].key = key}
  <2>1. S \cap Slots(d) = V \cap Slots(d)
    BY <1>1
  <2>2. ChainOf(d, key) = Packet(d, S) /\ ChainOf(l, key) = Packet(l, V)
    BY DEF ChainOf
  <2>3. i \in V <=> key = k
    BY <1>1
  <2> HIDE DEF S, V
  <2>4. /\ i \notin V => Packet(l, V) = Packet(d, S)
        /\ i \in V /\ front => Packet(l, V) = <<i>> \o Packet(d, S)
        /\ i \in V /\ ~front => Packet(l, V) = Packet(d, S) \o <<i>>
    <3>1. Alike(d, l, S, V)
      BY <1>1, <2>1 DEF Alike, i
    <3> QED BY <3>1, GrownTraces DEF i
  <2>5. e.ix.of[key] = IF key = k THEN s ELSE l.ix.of[key]
    <3> HIDE DEF s, k
    <3> QED BY <1>3, <1>4, <1>6
  <2>6. l.ix.of[key] = Packet(d, S)
    BY <1>2, <2>2
  <2>7. Append(l.ix.of[key], i) = l.ix.of[key] \o <<i>>
    <3>0. i \in Nat
      BY <1>1 DEF Slots, Stores
    <3>1. l.ix.of[key] \in Seq(Nat) /\ i \in Nat
      <4>1. l.ix.of \in [Keys -> Seq(Nat)]
        BY <1>4
      <4> QED BY <3>0, <4>1
    <3> HIDE DEF i
    <3> DEFINE y == l.ix.of[key]
    <3>2. y \in Seq(Nat)
      BY <3>1
    <3> HIDE DEF y
    <3>3. Append(y, i) = y \o <<i>>
      BY <3>1, <3>2, AppendIsConcat
    <3> QED BY <3>3 DEF y
  <2> HIDE DEF k
  <2>8. ChainOf(l, key) = e.ix.of[key]
    <3>1. CASE key = k
      BY <2>2, <2>3, <2>4, <2>5, <2>6, <2>7, <3>1
    <3>2. CASE key # k
      BY <2>2, <2>3, <2>4, <2>5, <2>6, <3>2
    <3> QED BY <3>1, <3>2
  <2> QED BY <1>7, <2>8
<1> QED BY <1>2, <1>6, <1>8, <1>9 DEF IxServes, e, i

(* The index keeps its promise over an assert, built, extended or given    *)
(* up.                                                                     *)
LEMMA NotedServes ==
    ASSUME NEW d \in Stores, Chained(d), Whole(d), IxServes(d), NEW l, NEW c, NEW front \in BOOLEAN,
           Grown(d, l, c, front), l.ix = d.ix, l.ixOff = d.ixOff
    PROVE  /\ Reindexed(l, IxNote(l, NewSlot(d), front))
           /\ IxServes(IxNote(l, NewSlot(d), front))
<1> DEFINE i == NewSlot(d)
           e == IxNote(l, i, front)
<1>1. l \in Stores /\ Chained(l) /\ i \in Slots(l)
  BY DEF Grown
<1>2. Reindexed(l, e)
  <2> HIDE DEF i
  <2> QED BY <1>1, IndexedIs
<1>3. d.ixOff => d.ix = NoIx
  BY DEF IxServes
<1>4. CASE l.ixOff
  <2>1. e = l
    BY <1>4 DEF IxNote
  <2>2. l.ix = NoIx
    BY <1>3, <1>4
  <2> QED BY <1>2, <2>1, <2>2 DEF IxServes
<1>5. CASE ~l.ixOff /\ l.slots[i].key = Var
  <2>1. e = [l EXCEPT !.ix = NoIx, !.ixOff = TRUE]
    BY <1>5 DEF IxNote
  <2>2. e.ix = NoIx
    BY <1>1, <2>1 DEF Stores
  <2> QED BY <1>2, <2>2 DEF IxServes
<1>6. CASE ~l.ixOff /\ l.slots[i].key # Var /\ e = IxBuild(l)
  <2> HIDE DEF e
  <2>1. Reindexed(l, IxBuild(l))
    BY <1>2, <1>6
  <2>2. IxServes(IxBuild(l))
    BY <1>1, <1>6, <2>1, BuildServes
  <2> QED BY <1>2, <1>6, <2>2 DEF e
<1>7. CASE ~l.ixOff /\ l.slots[i].key # Var /\ e # IxBuild(l)
  <2>1. CASE l.ix = NoIx
    <3>1. e = l
      BY <1>7, <2>1 DEF IxNote
    <3> QED BY <1>2, <2>1, <3>1 DEF IxServes
  <2>2. CASE l.ix # NoIx
    <3>1. e = IxLink(l, i, front)
      BY <1>7, <2>2 DEF IxNote
    <3>2. IxServes(IxLink(l, i, front))
      BY <1>7, <2>2, LinkServes
    <3> QED BY <1>2, <3>1, <3>2
  <2> QED BY <2>1, <2>2
<1> QED BY <1>4, <1>5, <1>6, <1>7

(* Marks on a store with one clause more.                                  *)
LEMMA KinGrown ==
    ASSUME NEW d \in Stores, NEW s, NEW e, NEW c, NEW front \in BOOLEAN, Grown(d, s, c, front), Kin(s, e),
           \A j \in Slots(s) : e.slots[j].erased = s.slots[j].erased
    PROVE  Grown(d, e, c, front)
<1> DEFINE i == NewSlot(d)
<1>1. s \in Stores /\ Chained(s) /\ Slots(s) = Slots(d) \cup {i} /\ i \notin Slots(d) /\ i # None
  BY DEF Grown
<1>2. Slots(e) = Slots(s) /\ e \in Stores /\ Chained(e)
  BY <1>1, KinTraces
<1> HIDE DEF i
<1>3. /\ i \in Slots(s) /\ \A j \in Slots(d) : j \in Slots(s)
      /\ \A j \in Slots(s) : /\ e.slots[j].key = s.slots[j].key /\ e.slots[j].ref = s.slots[j].ref
                             /\ e.slots[j].next = s.slots[j].next /\ e.slots[j].erased = s.slots[j].erased
      /\ e.head = s.head /\ e.tail = s.tail
  BY <1>1 DEF Kin
<1>4. Joins(d, e, c, front)
  <2>1. Joins(d, s, c, front)
    BY DEF Grown
  <2> QED BY <1>3, <2>1 DEF Joins, i
<1>5. /\ e.head = IF front \/ d.head = None THEN i ELSE d.head
      /\ \A j \in Slots(d) : e.slots[j].ref = d.slots[j].ref /\ e.slots[j].erased = d.slots[j].erased
      /\ e.slots[i].ref = d.nextRef /\ e.slots[i].erased = 0
  BY <1>3 DEF Grown, i
<1> QED BY <1>1, <1>2, <1>4, <1>5 DEF Grown, i

(* Storing, linking and indexing a clause add one to the chain.            *)
LEMMA BoundGrows ==
    ASSUME NEW d, StoreInv(d), Sound(d), NEW c \in Clauses, NEW front \in BOOLEAN
    PROVE  Grown(d, Bound(d, c, front), c, front) /\ Sound(Bound(d, c, front))
<1> DEFINE i == NewSlot(d)
           l == Linked(Stored(d, c), i, front)
           e == IxNote(l, i, front)
<1>1. /\ l \in Stores /\ Len(l.slots) = i /\ Chained(l)
      /\ \A j \in Slots(d) : /\ l.slots[j].ref = d.slots[j].ref
                             /\ l.slots[j].erased = d.slots[j].erased
      /\ l.slots[i].ref = d.nextRef /\ l.slots[i].erased = 0
      /\ l.head = IF front \/ d.head = None THEN i ELSE d.head
      /\ Joins(d, l, c, front) /\ l.ix = d.ix /\ l.ixOff = d.ixOff
  BY LinkedIs
<1>2. d \in Stores /\ Chained(d) /\ Whole(d) /\ IxServes(d)
  BY DEF Sound
<1>3. Len(d.slots) \in Nat /\ i = Len(d.slots) + 1
  BY <1>2 DEF NewSlot, Stores
<1>4. e = Bound(d, c, front)
  BY DEF Bound
<1> HIDE DEF i, l
<1>5. Slots(l) = Slots(d) \cup {i} /\ i \notin Slots(d) /\ i # None
  BY <1>1, <1>3 DEF Slots, None
<1>6. Grown(d, l, c, front)
  BY <1>1, <1>5 DEF Grown, i
<1>7. Whole(l)
  BY <1>2, <1>6, GrownWhole
<1>8. Reindexed(l, e) /\ IxServes(e)
  BY <1>1, <1>2, <1>6, NotedServes DEF i
<1> HIDE DEF e
<1>9. Slots(e) = Slots(l) /\ Chained(e) /\ Whole(e)
  BY <1>1, <1>7, <1>8, SameWhole
<1>10. e \in Stores /\ e.slots = l.slots /\ e.head = l.head /\ e.tail = l.tail
  BY <1>8 DEF Reindexed
<1>11. Grown(d, e, c, front)
  <2>1. Joins(d, e, c, front)
    BY <1>1, <1>10 DEF Joins
  <2> QED BY <1>1, <1>5, <1>9, <1>10, <2>1 DEF Grown, i
<1> QED BY <1>4, <1>8, <1>9, <1>10, <1>11 DEF Sound

(* A clause that comes is at its end of the packet and in the index.       *)
LEMMA PlacedGrows ==
    ASSUME NEW d, StoreInv(d), Sound(d), NEW c \in Clauses, NEW front \in BOOLEAN,
           ~(c.rule /\ d.mode # "code" /\ HeadDead(d) /\ ~front)
    PROVE  LET e == Place(Bound(d, c, front), NewSlot(d), c.rule)
           IN  Grown(d, e, c, front) /\ Sound(e)
<1> DEFINE s == Bound(d, c, front)
           e == Place(s, NewSlot(d), c.rule)
<1>1. Grown(d, s, c, front) /\ Sound(s)
  BY BoundGrows
<1>2. Recoded(s, e)
  BY PlacedKeeps
<1> HIDE DEF s, e
<1>3. Kin(s, e) /\ \A j \in Slots(s) : e.slots[j].erased = s.slots[j].erased
  BY <1>2, RecodedKin
<1>4. d \in Stores
  BY DEF Sound
<1>5. Grown(d, e, c, front)
  BY <1>1, <1>3, <1>4, KinGrown
<1>6. Sound(e)
  BY <1>1, <1>3, KinSound
<1> QED BY <1>5, <1>6 DEF e, s

-----------------------------------------------------------------------------
(* What the goals, the store and the transactions show of another store. *)

(* What the invariants say of one goal.                                    *)
LEMMA GoalPlain ==
    ASSUME NEW d, NEW gs, GoalStack(gs), GoalsSee(d, gs), NEW n \in 1..Len(gs)
    PROVE  /\ Plain(gs[n]) /\ gs[n].gen \in Nat /\ Sees(d, gs[n]) /\ gs[n].gen <= d.nextRef
           /\ gs[n].key \in Keys \cup {AnyKey} /\ gs[n].code \in BOOLEAN
<1>1. PICK S : gs[n] \in GoalRecs(S)
  BY GoalIs
<1>2. Sees(d, gs[n]) /\ gs[n].gen <= d.nextRef
  BY DEF GoalsSee
<1> QED BY <1>1, <1>2 DEF GoalRecs, Plain, Sees

(* No goal can tell what changed. *)
GoalsStay(d, e, gs) == \A n \in 1..Len(gs) : \A i \in Slots(d) : StaysAt(d, e, i, gs[n].gen)
Later(d, e) == d.nextRef \in Nat /\ e.nextRef \in Nat /\ d.nextRef <= e.nextRef

(* Goals go on as before when no clause they see comes or goes.            *)
LEMMA KinGoals ==
    ASSUME NEW d, Sound(d), NEW e, Kin(d, e), Later(d, e), NEW gs, GoalStack(gs), GoalsSee(d, gs),
           GoalsStay(d, e, gs)
    PROVE  GoalsSee(e, gs) /\ RunningOf(e, gs) = RunningOf(d, gs)
<1>1. ASSUME NEW n \in 1..Len(gs)
      PROVE  Sees(e, gs[n]) /\ gs[n].gen <= e.nextRef /\ Shown(e, Remaining(e, gs[n])) = Shown(d, Remaining(d, gs[n]))
  <2> DEFINE g == gs[n]
  <2>1. Plain(g) /\ g.gen \in Nat /\ Sees(d, g) /\ g.gen <= d.nextRef
    BY GoalPlain
  <2>2. \A i \in Slots(d) : StaysAt(d, e, i, g.gen)
    BY DEF GoalsStay
  <2> HIDE DEF g
  <2>3. Sees(e, g) /\ Shown(e, Remaining(e, g)) = Shown(d, Remaining(d, g))
    BY <2>1, <2>2, KinRuns
  <2>4. g.gen <= e.nextRef
    BY <2>1 DEF Later
  <2> QED BY <2>3, <2>4 DEF g
<1>2. GoalsSee(e, gs)
  BY <1>1 DEF GoalsSee
<1>3. [n \in 1..Len(gs) |-> Shown(e, Remaining(e, gs[n]))] = [n \in 1..Len(gs) |-> Shown(d, Remaining(d, gs[n]))]
  BY <1>1
<1> QED BY <1>2, <1>3 DEF RunningOf

(* Goals go on as before when a clause is asserted after they were         *)
(* called.                                                                 *)
LEMMA GrownGoals ==
    ASSUME NEW d, Sound(d), NEW e, Sound(e), NEW c, NEW front \in BOOLEAN, Grown(d, e, c, front), Later(d, e),
           NEW gs, GoalStack(gs), GoalsSee(d, gs)
    PROVE  GoalsSee(e, gs) /\ RunningOf(e, gs) = RunningOf(d, gs)
<1>0. /\ d \in Stores /\ Chained(d) /\ Whole(d) /\ e \in Stores /\ d.nextRef \in Nat
      /\ Slots(e) = Slots(d) \cup {NewSlot(d)} /\ NewSlot(d) \notin Slots(d)
  BY DEF Sound, Grown, Stores
<1>1. ASSUME NEW n \in 1..Len(gs)
      PROVE  Sees(e, gs[n]) /\ gs[n].gen <= e.nextRef /\ Shown(e, Remaining(e, gs[n])) = Shown(d, Remaining(d, gs[n]))
  <2> DEFINE g == gs[n]
             S == Seen(d, g)
             V == Seen(e, g)
             i == NewSlot(d)
  <2>1. Plain(g) /\ g.gen \in Nat /\ Sees(d, g) /\ g.gen <= d.nextRef
    BY GoalPlain
  <2> HIDE DEF g
  <2>2. i \notin V
    <3>1. e.slots[i].ref = d.nextRef
      BY DEF Grown
    <3>2. ~(e.slots[i].ref < g.gen)
      BY <1>0, <2>1, <3>1
    <3> QED BY <3>2 DEF Seen, Visible
  <2>3. ASSUME NEW j \in Slots(d) PROVE j \in V <=> j \in S
    <3>1. e.slots[j].key = d.slots[j].key /\ e.slots[j].ref = d.slots[j].ref
          /\ e.slots[j].erased = d.slots[j].erased /\ j \in Slots(e)
      BY <1>0 DEF Grown, Joins
    <3> QED BY <3>1 DEF Seen, Visible, Rejects
  <2>4. S \cap Slots(d) = V \cap Slots(d)
    BY <2>3
  <2>5. g.at \in Slots(d) /\ g.at \in S /\ g.at \in V
    BY <2>1, <2>3 DEF Sees, Seen
  <2>6. Sees(e, g)
    BY <2>1, <2>5 DEF Sees
  <2>7. Remaining(d, g) = TraceOf(d, S)[g.at] /\ Remaining(e, g) = TraceOf(e, V)[g.at]
    BY <2>1, <2>5, RemainingAt
  <2> HIDE DEF S, V, i
  <2>8. \A j \in Slots(d) : TraceOf(e, V)[j] = TraceOf(d, S)[j]
    <3>1. NewSlot(d) \notin V /\ d \in Stores /\ Chained(d) /\ Whole(d) /\ Grown(d, e, c, front)
      BY <1>0, <2>2 DEF i
    <3>3. Alike(d, e, S, V)
      BY <1>0, <2>4 DEF Alike, Grown
    <3> QED BY ONLY <3>3, <3>1, front \in BOOLEAN, GrownOutside
  <2>9. TraceOf(d, S)[g.at] \in Seq(Slots(d))
    <3>1. g.at \in 0..Len(d.slots)
      BY <1>0, <2>5, ChainIs
    <3>2. TraceOf(d, S)[g.at] \in Seq(S \cap Slots(d))
      BY <1>0, <3>1, TraceIs
    <3> QED BY <3>2
  <2>10. \A s \in Seq(Slots(d)) : Shown(e, s) = Shown(d, s)
    <3>1. \A j \in Slots(d) : e.slots[j].key = d.slots[j].key
      BY DEF Grown, Joins
    <3> QED BY <1>0, <3>1, ShownSame
  <2>11. g.gen <= e.nextRef
    BY <2>1 DEF Later
  <2> QED BY <2>5, <2>6, <2>7, <2>8, <2>9, <2>10, <2>11 DEF g
<1>2. GoalsSee(e, gs)
  BY <1>1 DEF GoalsSee
<1>3. [n \in 1..Len(gs) |-> Shown(e, Remaining(e, gs[n]))] = [n \in 1..Len(gs) |-> Shown(d, Remaining(d, gs[n]))]
  BY <1>1
<1> QED BY <1>2, <1>3 DEF RunningOf

(* All that is live now, as a trace from the head. *)
Alive(d) == {i \in Slots(d) : ~Erased(d, i)}

(* A packet is a sequence of its own slots.                                *)
LEMMA PacketSeq ==
    ASSUME NEW d \in Stores, Chained(d), NEW S
    PROVE  Packet(d, S) \in Seq(Slots(d)) /\ Packet(d, S) \in Seq(S \cap Slots(d))
<1>1. d.head \in 0..Len(d.slots)
  BY DEF Chained
<1>2. TraceOf(d, S)[d.head] \in Seq(S \cap Slots(d))
  BY <1>1, TraceIs
<1>3. Packet(d, S) \in Seq(S \cap Slots(d))
  BY <1>2, PacketIsTrace
<1> QED BY <1>3

(* Only what lies among the slots matters. *)
LEMMA PacketWithin ==
    ASSUME NEW d \in Stores, Chained(d), NEW S, NEW V, S \cap Slots(d) = V \cap Slots(d)
    PROVE  Packet(d, S) = Packet(d, V)
<1>1. Alike(d, d, S, V)
  BY DEF Alike
<1>2. \A j \in 0..Len(d.slots) : TraceOf(d, V)[j] = TraceOf(d, S)[j]
  BY ONLY <1>1, TraceSame
<1>3. d.head \in 0..Len(d.slots)
  BY DEF Chained
<1> QED BY <1>2, <1>3, PacketIsTrace

(* What is shown of a store depends on its links, keys and marks alone.    *)
LEMMA KinShows ==
    ASSUME NEW d, Sound(d), NEW e, Kin(d, e)
    PROVE  /\ \A S : Shown(e, Packet(e, S)) = Shown(d, Packet(d, S))
           /\ Alive(e) = Alive(d) => StoreOf(e) = StoreOf(d)
<1>1. d \in Stores /\ Chained(d)
  BY DEF Sound
<1>2. /\ \A S : Packet(e, S) = Packet(d, S)
      /\ \A s \in Seq(Slots(d)) : Shown(e, s) = Shown(d, s)
  BY <1>1, KinTraces
<1>3. \A S : Packet(d, S) \in Seq(Slots(d))
  BY <1>1, PacketSeq
<1>4. \A S : Shown(e, Packet(e, S)) = Shown(d, Packet(d, S))
  BY <1>2, <1>3
<1>5. StoreOf(d) = Shown(d, Packet(d, Alive(d))) /\ StoreOf(e) = Shown(e, Packet(e, Alive(e)))
  BY DEF StoreOf, Live, Alive
<1> QED BY <1>4, <1>5

-----------------------------------------------------------------------------
(* The logs. *)

RecsFrom(ts, n) == UNION {ToSet(ts[m].log) : m \in n..Len(ts)}

(* A record is known by its kind and its slot.                             *)
LEMMA RecIs ==
    ASSUME NEW r \in Recs
    PROVE  /\ r.kind = "erase" <=> r = Rec("erase", r.slot)
           /\ r.kind # "erase" <=> r = Rec("asserta", r.slot) \/ r = Rec("assertz", r.slot)
           /\ r = Rec(r.kind, r.slot)
<1>1. r = [kind |-> r.kind, slot |-> r.slot] /\ r.kind \in {"erase", "asserta", "assertz"}
  BY DEF Recs
<1>2. \A k, i : Rec(k, i).kind = k /\ Rec(k, i) = [kind |-> k, slot |-> i]
  BY DEF Rec
<1> QED BY <1>1, <1>2

(* The members of a sequence and of its set.                               *)
LEMMA SetIs ==
    ASSUME NEW V, NEW s \in Seq(V)
    PROVE  /\ \A k \in 1..Len(s) : s[k] \in ToSet(s) /\ s[k] \in V
           /\ \A x \in ToSet(s) : x \in V /\ \E k \in 1..Len(s) : s[k] = x
<1>1. \A k \in 1..Len(s) : s[k] \in V
  OBVIOUS
<1> QED BY <1>1 DEF ToSet

(* Logs joined are in order when the newer asserts nothing the older       *)
(* names.                                                                  *)
LEMMA OrderedJoin ==
    ASSUME NEW a \in Seq(Recs), NEW b \in Seq(Recs), Ordered(a), Ordered(b),
           \A r \in ToSet(a) : r.kind # "erase" => \A s \in ToSet(b) : s.slot # r.slot
    PROVE  Ordered(a \o b)
<1> DEFINE c == a \o b
<1>1. /\ Len(c) = Len(a) + Len(b) /\ Len(a) \in Nat /\ Len(b) \in Nat
      /\ \A k \in 1..Len(a) : c[k] = a[k]
      /\ \A k \in Len(a) + 1..Len(a) + Len(b) : c[k] = b[k - Len(a)]
  BY ConcatProperties
<1>2. /\ \A k \in 1..Len(a) : a[k] \in ToSet(a)
      /\ \A k \in 1..Len(b) : b[k] \in ToSet(b)
  BY SetIs
<1> HIDE DEF c
<1> SUFFICES ASSUME NEW k \in 1..Len(c), c[k].kind # "erase", NEW l \in k + 1..Len(c)
             PROVE  c[l].slot # c[k].slot
  BY DEF Ordered, c
<1>3. CASE l <= Len(a)
  <2>1. k \in 1..Len(a) /\ l \in k + 1..Len(a) /\ l \in 1..Len(a)
    BY <1>1, <1>3
  <2> QED BY <1>1, <2>1 DEF Ordered
<1>4. CASE l > Len(a) /\ k <= Len(a)
  <2>1. k \in 1..Len(a) /\ l \in Len(a) + 1..Len(a) + Len(b) /\ l - Len(a) \in 1..Len(b)
    BY <1>1, <1>4
  <2> QED BY <1>1, <1>2, <2>1
<1>5. CASE k > Len(a)
  <2>1. /\ k \in Len(a) + 1..Len(a) + Len(b) /\ l \in Len(a) + 1..Len(a) + Len(b)
        /\ k - Len(a) \in 1..Len(b) /\ l - Len(a) \in (k - Len(a)) + 1..Len(b)
    BY <1>1, <1>5
  <2> QED BY <1>1, <2>1 DEF Ordered
<1> QED BY <1>1, <1>3, <1>4, <1>5

(* The transactions up to the n-th, whose log goes on with some records.   *)
Rejoined(ts, us, n, recs) ==
    /\ ts \in Seq(Txs) /\ us \in Seq(Txs) /\ recs \in Seq(Recs) /\ n \in 1..Len(ts) /\ Len(us) = n
    /\ \A k \in 1..n : us[k].goals = ts[k].goals
    /\ \A k \in 1..n - 1 : us[k] = ts[k]
    /\ us[n].log = recs \o ts[n].log

(* What a transaction is made of.                                          *)
LEMMA TxIs ==
    ASSUME NEW ts \in Seq(Txs), NEW n \in 1..Len(ts)
    PROVE  ts[n] \in Txs /\ ts[n].log \in Seq(Recs) /\ ts[n].goals \in Nat
<1>1. ts[n] \in Txs
  OBVIOUS
<1> QED BY <1>1 DEF Txs

(* Records put before the log of the newest transaction.                   *)
LEMMA RejoinedIs ==
    ASSUME NEW ts \in Seq(Txs), NEW n \in 1..Len(ts), NEW recs \in Seq(Recs)
    PROVE  Rejoined(ts, Stacked(ts, n - 1, [ts[n] EXCEPT !.log = recs \o @]), n, recs)
<1> DEFINE old == ts[n]
           tx == [old EXCEPT !.log = recs \o @]
           us == Stacked(ts, n - 1, tx)
<1>1. n - 1 \in 0..Len(ts) /\ n - 1 + 1 = n /\ old \in Txs /\ \A k \in 1..n : k = n \/ k \in 1..n - 1
  OBVIOUS
<1> HIDE DEF old
<1>2. tx \in Txs /\ tx.log = recs \o old.log /\ tx.goals = old.goals
  BY <1>1, JoinCount DEF Txs
<1> HIDE DEF tx
<1>3. us \in Seq(Txs) /\ Len(us) = n - 1 + 1 /\ (\A k \in 1..n - 1 : us[k] = ts[k]) /\ us[n - 1 + 1] = tx
  BY <1>1, <1>2, StackedIs
<1> HIDE DEF us
<1>4. Len(us) = n /\ us[n] = tx
  BY <1>1, <1>3
<1>5. \A k \in 1..n : us[k].goals = ts[k].goals
  BY <1>1, <1>2, <1>3, <1>4 DEF old
<1>6. Rejoined(ts, us, n, recs)
  BY <1>2, <1>3, <1>4, <1>5 DEF Rejoined, old
<1> QED BY <1>6 DEF us, tx, old

(* What the logs hold once records have joined one.                        *)
LEMMA RejoinedLogs ==
    ASSUME NEW ts, NEW us, NEW n, NEW recs, Rejoined(ts, us, n, recs)
    PROVE  /\ \A m \in 1..n : m = n \/ m \in 1..n - 1
           /\ \A m \in 1..n - 1 : ToSet(us[m].log) = ToSet(ts[m].log) /\ us[m] = ts[m] /\ m \in 1..Len(ts) /\ m \in 1..n
           /\ ToSet(us[n].log) = ToSet(recs) \cup ToSet(ts[n].log)
           /\ \A m \in 1..n : RecsFrom(us, m) = ToSet(recs) \cup UNION {ToSet(ts[k].log) : k \in m..n}
<1>1. n \in Nat /\ n >= 1 /\ ts \in Seq(Txs) /\ recs \in Seq(Recs) /\ n \in 1..Len(ts) /\ Len(us) = n
  BY DEF Rejoined
<1>2. \A m \in 1..n : m = n \/ m \in 1..n - 1
  BY <1>1
<1>3. \A m \in 1..n - 1 : ToSet(us[m].log) = ToSet(ts[m].log) /\ us[m] = ts[m] /\ m \in 1..Len(ts) /\ m \in 1..n
  BY <1>1 DEF Rejoined
<1>4. ToSet(us[n].log) = ToSet(recs) \cup ToSet(ts[n].log)
  <2>1. ts[n].log \in Seq(Recs)
    BY <1>1, TxIs
  <2>2. us[n].log = recs \o ts[n].log
    BY DEF Rejoined
  <2>3. ToSet(recs \o ts[n].log) = ToSet(recs) \cup ToSet(ts[n].log)
    BY ONLY <1>1, <2>1, ToSetConcat
  <2> QED BY <2>2, <2>3
<1>5. ASSUME NEW m \in 1..n PROVE RecsFrom(us, m) = ToSet(recs) \cup UNION {ToSet(ts[k].log) : k \in m..n}
  <2>1. n \in m..n /\ \A k \in m..n : k = n \/ (k \in 1..n - 1 /\ k # n)
    BY <1>1
  <2>2. \A k \in m..n : k # n => ToSet(us[k].log) = ToSet(ts[k].log)
    BY <1>3, <2>1
  <2> QED BY <1>1, <1>4, <2>1, <2>2 DEF RecsFrom
<1> QED BY <1>2, <1>3, <1>4, <1>5

(* What goals do not tell apart, once records have joined a log.           *)
LEMMA RejoinedCover ==
    ASSUME NEW d, NEW gs, NEW ts, NEW us, NEW n, NEW recs, Rejoined(ts, us, n, recs), LogsCover(d, ts, gs),
           \A r \in ToSet(recs) : \A k \in 1..ts[n].goals : Covers(d, r, gs[k].gen)
    PROVE  LogsCover(d, us, gs)
<1>1. /\ \A m \in 1..n : m = n \/ m \in 1..n - 1
      /\ \A m \in 1..n - 1 : ToSet(us[m].log) = ToSet(ts[m].log) /\ m \in 1..Len(ts) /\ m \in 1..n
      /\ ToSet(us[n].log) = ToSet(recs) \cup ToSet(ts[n].log)
  BY RejoinedLogs
<1>2. Len(us) = n /\ n \in 1..Len(ts) /\ \A k \in 1..n : us[k].goals = ts[k].goals
  BY DEF Rejoined
<1> SUFFICES ASSUME NEW m \in 1..n, NEW r \in ToSet(us[m].log), NEW k \in 1..us[m].goals
             PROVE  Covers(d, r, gs[k].gen)
  BY <1>2 DEF LogsCover
<1>3. CASE m = n
  <2>1. r \in ToSet(recs) \/ r \in ToSet(ts[n].log)
    BY <1>1, <1>3
  <2>2. k \in 1..ts[n].goals
    BY <1>2, <1>3
  <2> QED BY <1>2, <2>1, <2>2 DEF LogsCover
<1>4. CASE m \in 1..n - 1
  <2>1. r \in ToSet(ts[m].log) /\ m \in 1..Len(ts) /\ k \in 1..ts[m].goals
    BY <1>1, <1>2, <1>4
  <2> QED BY <2>1 DEF LogsCover
<1> QED BY <1>1, <1>3, <1>4

(* The order of the logs, once records have joined one.                    *)
LEMMA RejoinedOrder ==
    ASSUME NEW ts, NEW us, NEW n, NEW recs, Rejoined(ts, us, n, recs), LogsOrder(ts), Ordered(recs),
           \A r \in ToSet(recs) : r.kind # "erase" =>
               \A m \in 1..n : \A s \in ToSet(ts[m].log) : s.slot # r.slot
    PROVE  LogsOrder(us)
<1>1. /\ \A m \in 1..n : m = n \/ m \in 1..n - 1
      /\ \A m \in 1..n - 1 : ToSet(us[m].log) = ToSet(ts[m].log) /\ us[m] = ts[m] /\ m \in 1..Len(ts) /\ m \in 1..n
      /\ ToSet(us[n].log) = ToSet(recs) \cup ToSet(ts[n].log)
  BY RejoinedLogs
<1>2. Len(us) = n /\ n \in 1..Len(ts) /\ ts \in Seq(Txs) /\ recs \in Seq(Recs) /\ us[n].log = recs \o ts[n].log
      /\ n \in 1..n /\ n \in Nat
  BY DEF Rejoined
<1>3. \A m \in 1..Len(ts) : Ordered(ts[m].log)
  BY DEF LogsOrder
<1>4. ASSUME NEW m \in 1..n PROVE Ordered(us[m].log)
  <2>1. CASE m = n
    <3>1. Ordered(recs \o ts[n].log)
      <4>1. ts[n].log \in Seq(Recs)
        BY <1>2, TxIs
      <4> QED BY <1>2, <1>3, <4>1, OrderedJoin
    <3> QED BY <1>2, <2>1, <3>1
  <2>2. CASE m \in 1..n - 1
    BY <1>1, <1>3, <2>2
  <2> QED BY <1>1, <2>1, <2>2
<1>5. ASSUME NEW m \in 1..n, NEW r \in ToSet(us[m].log), r.kind # "erase", NEW m2 \in 1..m - 1,
             NEW s \in ToSet(us[m2].log)
      PROVE  s.slot # r.slot
  <2>1. m2 \in 1..n - 1
    BY <1>2
  <2>2. s \in ToSet(ts[m2].log) /\ m2 \in 1..n
    BY <1>1, <2>1
  <2>3. CASE r \in ToSet(ts[m].log)
    <3>1. m \in 1..Len(ts)
      BY <1>1, <1>2
    <3> QED BY <1>5, <2>2, <2>3, <3>1 DEF LogsOrder
  <2>4. CASE r \notin ToSet(ts[m].log)
    <3>1. r \in ToSet(recs)
      BY <1>1, <2>4
    <3> QED BY <1>5, <2>2, <3>1
  <2> QED BY <2>3, <2>4
<1> QED BY <1>2, <1>4, <1>5 DEF LogsOrder

(* An update joins its records to the log of the newest transaction.       *)
LEMMA LoggedJoins ==
    ASSUME txs \in Seq(Txs), txs # <<>>, NEW recs \in Seq(Recs)
    PROVE  Rejoined(txs, Logged(recs), Len(txs), recs)
<1>1. Len(txs) \in 1..Len(txs)
  OBVIOUS
<1>2. Logged(recs) = Stacked(txs, Len(txs) - 1, [txs[Len(txs)] EXCEPT !.log = recs \o @])
  BY DEF Logged, Front, Last, Stacked
<1> QED BY <1>1, <1>2, RejoinedIs

(* The slots live before a transaction, from the records since.            *)
LEMMA LiveBeforeIs ==
    ASSUME NEW d, NEW ts, NEW n
    PROVE  LiveBefore(d, ts, n) = {i \in Slots(d) :
               /\ ~Erased(d, i) \/ Rec("erase", i) \in RecsFrom(ts, n)
               /\ Rec("asserta", i) \notin RecsFrom(ts, n) /\ Rec("assertz", i) \notin RecsFrom(ts, n)}
BY DEF LiveBefore, RecsFrom

(* What the n first transactions save, of whatever store. *)
LEMMA SavedSame ==
    ASSUME NEW d, NEW e, NEW ts, NEW us, NEW n, Len(us) = n,
           \A m \in 1..n : us[m].goals = ts[m].goals /\ m \in 1..Len(ts),
           \A m \in 1..n : Shown(e, Packet(e, LiveBefore(e, us, m))) = Shown(d, Packet(d, LiveBefore(d, ts, m)))
    PROVE  SavedOf(e, us) = [m \in 1..n |-> SavedOf(d, ts)[m]]
<1>1. \A m \in 1..n : SavedOf(d, ts)[m] = [store |-> Shown(d, Packet(d, LiveBefore(d, ts, m))), goals |-> ts[m].goals]
  BY DEF SavedOf
<1> QED BY <1>1 DEF SavedOf

(* The saved clauses and goals, one by one.                                *)
LEMMA SavedAll ==
    ASSUME NEW d, NEW ts \in Seq(Txs)
    PROVE  /\ SavedOf(d, ts) = [m \in 1..Len(ts) |-> SavedOf(d, ts)[m]]
           /\ Len(SavedOf(d, ts)) = Len(ts) /\ DOMAIN SavedOf(d, ts) = 1..Len(ts)
           /\ \A m \in 1..Len(ts) : SavedOf(d, ts)[m].goals = ts[m].goals
                                    /\ SavedOf(d, ts)[m].store = Shown(d, Packet(d, LiveBefore(d, ts, m)))
<1>1. Len(ts) \in Nat
  OBVIOUS
<1> QED BY <1>1 DEF SavedOf

(* The clauses shown are those of the slots shown.                         *)
LEMMA ShownSet ==
    ASSUME NEW d, Sound(d), NEW S
    PROVE  ToSet(Shown(d, Packet(d, S))) = {Entry(d, i) : i \in S \cap Slots(d)}
<1> DEFINE s == Packet(d, S)
<1>0. d \in Stores /\ Chained(d) /\ d.head \in 0..Len(d.slots)
  BY DEF Sound, Chained
<1>1. s \in Seq(Slots(d)) /\ s \in Seq(S \cap Slots(d))
  BY <1>0, PacketSeq
<1>2. \A i \in S \cap Slots(d) : i \in ToSet(s)
  <2> TAKE i \in S \cap Slots(d)
  <2>1. i \in ToSet(TraceOf(d, Slots(d))[d.head])
    BY PacketIsTrace DEF Sound, Whole
  <2> QED BY <1>0, <2>1, TraceHas, PacketIsTrace
<1> HIDE DEF s
<1>3. /\ Shown(d, s) \in Seq(Entries) /\ Len(Shown(d, s)) = Len(s)
      /\ \A n \in 1..Len(s) : Shown(d, s)[n] = Entry(d, s[n])
  BY <1>0, <1>1, ShownIs
<1>4. \A x \in ToSet(Shown(d, s)) : x \in {Entry(d, i) : i \in S \cap Slots(d)}
  <2> TAKE x \in ToSet(Shown(d, s))
  <2>1. PICK n \in 1..Len(s) : Shown(d, s)[n] = x
    BY <1>3, SetIs
  <2>2. s[n] \in S \cap Slots(d)
    BY <1>1, SetIs
  <2> QED BY <1>3, <2>1, <2>2
<1>5. \A i \in S \cap Slots(d) : Entry(d, i) \in ToSet(Shown(d, s))
  <2> TAKE i \in S \cap Slots(d)
  <2>1. PICK n \in 1..Len(s) : s[n] = i
    BY <1>1, <1>2, SetIs
  <2>2. Shown(d, s)[n] = Entry(d, i)
    BY <1>3, <2>1
  <2>3. n \in 1..Len(Shown(d, s))
    BY <1>3
  <2>4. Shown(d, s)[n] \in ToSet(Shown(d, s))
    BY <1>3, <2>3, SetIs
  <2> QED BY <2>2, <2>4
<1> QED BY <1>4, <1>5 DEF s

(* What is left of what a store shows of U is what it shows of S.          *)
LEMMA ShownLess ==
    ASSUME NEW d, Sound(d), NEW U, NEW S, S \cap Slots(d) \subseteq U
    PROVE  Shown(d, Packet(d, S)) = Only(Shown(d, Packet(d, U)), ToSet(Shown(d, Packet(d, S))))
<1> DEFINE T == ToSet(Shown(d, Packet(d, S)))
<1>0. d \in Stores /\ Chained(d) /\ d.head \in 0..Len(d.slots)
  BY DEF Sound, Chained
<1>1. T = {Entry(d, i) : i \in S \cap Slots(d)}
  BY ShownSet
<1> HIDE DEF T
<1>2. \A i \in Slots(d) : i \in S => i \in U
  OBVIOUS
<1>3. \A i \in Slots(d) : i \in U => (Entry(d, i) \in T <=> i \in S)
  <2>1. \A i, j : Entry(d, i) = Entry(d, j) => i = j
    <3> TAKE i, j
    <3>1. Entry(d, i).id = i /\ Entry(d, j).id = j
      BY DEF Entry
    <3> QED BY <3>1
  <2> QED BY <1>1, <2>1
<1>4. \A j \in 0..Len(d.slots) : Only(Shown(d, TraceOf(d, U)[j]), T) = Shown(d, TraceOf(d, S)[j])
  <2>1. Takes(d, T, U, S)
    BY <1>2, <1>3 DEF Takes
  <2> QED BY ONLY <1>0, <2>1, ShownOnly
<1> QED BY <1>0, <1>4, PacketIsTrace DEF T

-----------------------------------------------------------------------------
(* Clauses are erased, or one comes. *)

(* The store and the goals in the words of the invariants together.        *)
LEMMA BothInvs ==
    ASSUME DbInv, ViewInv
    PROVE  /\ Sound(db) /\ db \in Stores /\ db.nextRef \in Nat /\ StoreInv(db)
           /\ GoalStack(goals) /\ GoalsSee(db, goals) /\ Len(goals) \in Nat
           /\ txs \in Seq(Txs) /\ Nested(txs, goals) /\ LogsSpare(db, txs) /\ Len(txs) \in Nat
           /\ LogsCover(db, txs, goals) /\ LogsOrder(txs)
           /\ \A m \in 1..Len(txs) : txs[m].log \in Seq(Recs)
                                     /\ \A r \in ToSet(txs[m].log) : r \in Recs /\ r.slot \in Slots(db)
           /\ \A m \in 1..Len(txs) : txs[m].goals \in Nat /\ \A k \in 1..txs[m].goals : k \in 1..Len(goals)
           /\ \A k \in 1..Len(goals) : goals[k].gen \in Nat /\ goals[k].gen <= db.nextRef
<1>1. /\ Sound(db) /\ db \in Stores /\ db.nextRef \in Nat /\ StoreInv(db)
      /\ GoalStack(goals) /\ GoalsSee(db, goals) /\ Len(goals) \in Nat
      /\ txs \in Seq(Txs) /\ Nested(txs, goals) /\ LogsSpare(db, txs) /\ Len(txs) \in Nat
      /\ LogsCover(db, txs, goals) /\ LogsOrder(txs)
  BY BaseIs DEF DbInv, ViewInv, Sound, StoreInv, Stores
<1>2. ASSUME NEW m \in 1..Len(txs)
      PROVE  /\ txs[m].log \in Seq(Recs)
             /\ \A r \in ToSet(txs[m].log) : r \in Recs /\ r.slot \in Slots(db)
             /\ txs[m].goals \in Nat /\ \A k \in 1..txs[m].goals : k \in 1..Len(goals)
  <2>1. txs[m].log \in Seq(Recs) /\ txs[m].goals \in Nat /\ txs[m].goals <= Len(goals)
    BY <1>1, TxIs DEF Nested
  <2>2. ASSUME NEW r \in ToSet(txs[m].log) PROVE r \in Recs /\ r.slot \in Slots(db)
    <3>1. r \in Recs /\ \E k \in 1..Len(txs[m].log) : txs[m].log[k] = r
      BY <2>1, SetIs
    <3> QED BY <1>1, <3>1 DEF LogsSpare, LogSpares
  <2> QED BY <1>1, <2>1, <2>2
<1>3. \A k \in 1..Len(goals) : goals[k].gen \in Nat /\ goals[k].gen <= db.nextRef
  BY <1>1, GoalPlain
<1> QED BY <1>1, <1>2, <1>3

(* Records of erasures, one for each clause in J. *)
Erasures(recs, J) == recs \in Seq(Recs) /\ ToSet(recs) = {Rec("erase", j) : j \in J}

(* Records that are all erasures are in order and name what was erased.    *)
LEMMA ErasuresAre ==
    ASSUME NEW recs, NEW J, Erasures(recs, J)
    PROVE  /\ Ordered(recs) /\ recs \in Seq(Recs)
           /\ \A r \in ToSet(recs) : r.kind = "erase" /\ r.slot \in J
           /\ \A i : /\ Rec("erase", i) \in ToSet(recs) <=> i \in J
                     /\ Rec("asserta", i) \notin ToSet(recs) /\ Rec("assertz", i) \notin ToSet(recs)
<1>1. \A k, i, l, j : Rec(k, i).kind = k /\ Rec(k, i).slot = i /\ (Rec(k, i) = Rec(l, j) => k = l /\ i = j)
  <2>1. \A k, i : Rec(k, i).kind = k /\ Rec(k, i).slot = i
    BY DEF Rec
  <2> TAKE k, i, l, j
  <2> QED BY <2>1
<1>2. \A r \in ToSet(recs) : r.kind = "erase" /\ r.slot \in J
  BY <1>1 DEF Erasures
<1>3. Ordered(recs)
  <2>1. \A k \in 1..Len(recs) : recs[k] \in ToSet(recs)
    BY SetIs DEF Erasures
  <2> QED BY <1>2, <2>1 DEF Ordered
<1> QED BY <1>1, <1>2, <1>3 DEF Erasures

Clears(J, recs) ==
    /\ Marked(db, db', J, db.nextRef) /\ Later(db, db')
    /\ J \subseteq Alive(db) /\ Erasures(recs, J)
    /\ txs' = Logged(recs) /\ goals' = goals

(* Erasing live clauses removes some from the view and changes no goal.    *)
LEMMA ClearsStep ==
    ASSUME DbInv, ViewInv, NEW J, NEW recs, Clears(J, recs)
    PROVE  ViewInv' /\ View!RemoveSome
<1> DEFINE m == db.nextRef
<1>0. /\ Sound(db) /\ db \in Stores /\ m \in Nat /\ StoreInv(db)
      /\ GoalStack(goals) /\ GoalsSee(db, goals) /\ Len(goals) \in Nat
      /\ txs \in Seq(Txs) /\ Nested(txs, goals) /\ LogsSpare(db, txs) /\ Len(txs) \in Nat
      /\ LogsCover(db, txs, goals) /\ LogsOrder(txs)
  BY BothInvs
<1>1. /\ Kin(db, db') /\ Later(db, db') /\ goals' = goals /\ txs' = Logged(recs)
      /\ \A j \in Slots(db) : /\ j \in J => db'.slots[j].erased # 0 /\ db'.slots[j].erased >= m
                              /\ j \notin J => db'.slots[j].erased = db.slots[j].erased
      /\ \A j \in J : j \in Slots(db) /\ db.slots[j].erased = 0
      /\ Slots(db') = Slots(db)
  BY DEF Clears, Marked, Alive, Erased, Kin, Slots
<1>2. /\ Ordered(recs) /\ recs \in Seq(Recs)
      /\ \A r \in ToSet(recs) : r.kind = "erase" /\ r.slot \in J
      /\ \A i : /\ Rec("erase", i) \in ToSet(recs) <=> i \in J
                /\ Rec("asserta", i) \notin ToSet(recs) /\ Rec("assertz", i) \notin ToSet(recs)
  BY ErasuresAre DEF Clears
<1>3. \A k \in 1..Len(goals) : goals[k].gen \in Nat /\ goals[k].gen <= m
  BY BothInvs
<1>4. Sound(db')
  BY <1>0, <1>1, KinSound
<1>5. \A j \in Slots(db) : db'.slots[j].erased \in Nat
  <2>1. db' \in Stores
    BY <1>4 DEF Sound
  <2> QED BY <1>1, <2>1, SlotIs
<1>6. GoalsSee(db', goals) /\ RunningOf(db', goals) = RunningOf(db, goals)
  <2>1. GoalsStay(db, db', goals)
    <3> SUFFICES ASSUME NEW k \in 1..Len(goals), NEW i \in Slots(db) PROVE StaysAt(db, db', i, goals[k].gen)
      BY DEF GoalsStay
    <3>1. CASE i \in J
      <4>1. db'.slots[i].erased >= goals[k].gen
        BY <1>0, <1>1, <1>3, <1>5, <3>1
      <4> QED BY <1>1, <3>1, <4>1 DEF StaysAt
    <3>2. CASE i \notin J
      BY <1>1, <3>2 DEF StaysAt
    <3> QED BY <3>1, <3>2
  <2> QED BY <1>0, <1>1, <2>1, KinGoals
<1>7. LogsCover(db', txs, goals)
  <2> SUFFICES ASSUME NEW k \in 1..Len(txs), NEW r \in ToSet(txs[k].log), NEW n \in 1..txs[k].goals
               PROVE  Covers(db', r, goals[n].gen)
    BY DEF LogsCover
  <2>1. r \in Recs /\ r.slot \in Slots(db) /\ n \in 1..Len(goals)
    BY BothInvs
  <2>2. Covers(db, r, goals[n].gen)
    BY <1>0 DEF LogsCover
  <2>3. db'.slots[r.slot].ref = db.slots[r.slot].ref
    BY <1>1, <2>1 DEF Kin
  <2>4. CASE r.slot \in J
    <3>1. db'.slots[r.slot].erased >= goals[n].gen
      BY <1>0, <1>1, <1>3, <1>5, <2>1, <2>4
    <3> QED BY <2>2, <2>3, <3>1 DEF Covers
  <2>5. CASE r.slot \notin J
    BY <1>1, <2>1, <2>2, <2>3, <2>5 DEF Covers
  <2> QED BY <2>4, <2>5
<1>8. StoreOf(db') = Only(StoreOf(db), ToSet(StoreOf(db')))
  <2>1. /\ StoreOf(db) = Shown(db, Packet(db, Alive(db)))
        /\ StoreOf(db') = Shown(db', Packet(db', Alive(db')))
    BY DEF StoreOf, Live, Alive
  <2>2. Shown(db', Packet(db', Alive(db'))) = Shown(db, Packet(db, Alive(db')))
    BY <1>0, <1>1, KinShows
  <2>3. Alive(db') \cap Slots(db) \subseteq Alive(db)
    BY <1>1 DEF Alive, Erased
  <2> QED BY <1>0, <2>1, <2>2, <2>3, ShownLess
<1>9. /\ LogsCover(db', txs', goals) /\ LogsOrder(txs')
      /\ SavedOf(db', txs') = SavedOf(db, txs)
  <2>1. CASE txs = <<>>
    <3>1. txs' = txs
      BY <1>1, <2>1 DEF Logged
    <3>2. SavedOf(db', txs) = SavedOf(db, txs)
      BY <2>1 DEF SavedOf
    <3> QED BY <1>0, <1>7, <3>1, <3>2
  <2>2. CASE txs # <<>>
    <3> DEFINE l == Len(txs)
    <3>1. Rejoined(txs, txs', l, recs) /\ l \in 1..l
      BY <1>0, <1>1, <1>2, <2>2, LoggedJoins
    <3>2. \A r \in ToSet(recs) : \A k \in 1..txs[l].goals : Covers(db', r, goals[k].gen)
      <4> SUFFICES ASSUME NEW r \in ToSet(recs), NEW k \in 1..txs[l].goals PROVE Covers(db', r, goals[k].gen)
        OBVIOUS
      <4>1. r.kind = "erase" /\ r.slot \in J /\ r.slot \in Slots(db)
        BY <1>1, <1>2
      <4>2. k \in 1..Len(goals)
        BY <3>1, BothInvs
      <4>3. db'.slots[r.slot].erased >= goals[k].gen
        BY <1>0, <1>1, <1>3, <1>5, <4>1, <4>2
      <4> QED BY <4>1, <4>3 DEF Covers
    <3>3. LogsCover(db', txs', goals)
      BY <1>7, <3>1, <3>2, RejoinedCover
    <3>4. LogsOrder(txs')
      <4>1. \A r \in ToSet(recs) : r.kind # "erase" =>
                \A k \in 1..l : \A s \in ToSet(txs[k].log) : s.slot # r.slot
        BY <1>2
      <4> HIDE DEF l
      <4> QED BY <1>0, <1>2, <3>1, <4>1, RejoinedOrder
    <3>5. Len(txs') = l /\ \A k \in 1..l : txs'[k].goals = txs[k].goals
      BY <3>1 DEF Rejoined
    <3>6. ASSUME NEW k \in 1..l PROVE LiveBefore(db', txs', k) = LiveBefore(db, txs, k)
      <4>1. RecsFrom(txs', k) = ToSet(recs) \cup RecsFrom(txs, k)
        <5>1. RecsFrom(txs', k) = ToSet(recs) \cup UNION {ToSet(txs[n].log) : n \in k..l}
          BY <3>1, RejoinedLogs
        <5> QED BY <5>1 DEF RecsFrom
      <4>2. ASSUME NEW i \in Slots(db)
            PROVE  (/\ ~Erased(db', i) \/ Rec("erase", i) \in RecsFrom(txs', k)
                    /\ Rec("asserta", i) \notin RecsFrom(txs', k) /\ Rec("assertz", i) \notin RecsFrom(txs', k))
                   <=>
                   (/\ ~Erased(db, i) \/ Rec("erase", i) \in RecsFrom(txs, k)
                    /\ Rec("asserta", i) \notin RecsFrom(txs, k) /\ Rec("assertz", i) \notin RecsFrom(txs, k))
        <5>1. /\ Rec("asserta", i) \in RecsFrom(txs', k) <=> Rec("asserta", i) \in RecsFrom(txs, k)
              /\ Rec("assertz", i) \in RecsFrom(txs', k) <=> Rec("assertz", i) \in RecsFrom(txs, k)
              /\ Rec("erase", i) \in RecsFrom(txs', k) <=> i \in J \/ Rec("erase", i) \in RecsFrom(txs, k)
          BY <1>2, <4>1
        <5>2. CASE i \in J
          BY <1>1, <5>1, <5>2 DEF Erased
        <5>3. CASE i \notin J
          BY <1>1, <5>1, <5>3 DEF Erased
        <5> QED BY <5>2, <5>3
      <4> QED BY <1>1, <4>2, LiveBeforeIs
    <3>7. ASSUME NEW k \in 1..l
          PROVE  Shown(db', Packet(db', LiveBefore(db', txs', k))) = Shown(db, Packet(db, LiveBefore(db, txs, k)))
      BY <1>0, <1>1, <3>6, KinShows
    <3>8. SavedOf(db', txs') = [k \in 1..l |-> SavedOf(db, txs)[k]]
      <4> HIDE DEF l
      <4>1. \A k \in 1..l : k \in 1..Len(txs)
        BY DEF l
      <4> QED BY ONLY <3>5, <3>7, <4>1, SavedSame
    <3> QED BY <1>0, <3>3, <3>4, <3>8, SavedAll
  <2> QED BY <2>1, <2>2
<1>10. db'.nextRef > 0 /\ Whole(db') /\ IxServes(db')
  BY <1>1, <1>4 DEF ViewInv, Later, Sound
<1>11. ViewInv'
  BY <1>1, <1>6, <1>9, <1>10 DEF ViewInv
<1>12. View!RemoveSome
  <2>2. StoreOf(db') = View!Only(StoreOf(db), View!ToSet(StoreOf(db')))
    BY ONLY <1>8, ViewOnly
  <2>3. RunningOf(db', goals') = RunningOf(db, goals) /\ SavedOf(db', txs') = SavedOf(db, txs)
    BY ONLY <1>1, <1>6, <1>9
  <2> QED BY ONLY <2>2, <2>3 DEF View!RemoveSome
<1> QED BY <1>11, <1>12

(* Codes went, and then a clause came. *)
LEMMA RecodedGrown ==
    ASSUME NEW d \in Stores, NEW r, Recoded(d, r), NEW e, NEW c, NEW front \in BOOLEAN, Grown(r, e, c, front)
    PROVE  Grown(d, e, c, front)
<1>1. /\ NewSlot(r) = NewSlot(d) /\ Slots(r) = Slots(d) /\ r.head = d.head /\ r.tail = d.tail /\ r.nextRef = d.nextRef
      /\ \A j \in Slots(d) : /\ r.slots[j].ref = d.slots[j].ref /\ r.slots[j].next = d.slots[j].next
                             /\ r.slots[j].erased = d.slots[j].erased /\ r.slots[j].key = d.slots[j].key
  BY DEF Recoded, NewSlot, Slots
<1>2. Joins(d, e, c, front)
  <2>1. Joins(r, e, c, front)
    BY DEF Grown
  <2>2. \A j \in Slots(d) : /\ e.slots[j].key = d.slots[j].key
                            /\ ~front /\ j = d.tail => e.slots[j].next = NewSlot(d)
                            /\ front \/ j # d.tail => e.slots[j].next = d.slots[j].next
    BY <1>1, <2>1 DEF Joins
  <2>3. /\ e.slots[NewSlot(d)].key = c.key
        /\ e.slots[NewSlot(d)].next = IF front THEN d.head ELSE None
        /\ e.tail = IF ~front \/ d.tail = None THEN NewSlot(d) ELSE d.tail
    BY <1>1, <2>1 DEF Joins
  <2> QED BY <2>2, <2>3 DEF Joins
<1> QED BY <1>1, <1>2 DEF Grown

(* A clause more, at one end of what the store shows. *)
LEMMA GrownShows ==
    ASSUME NEW d, Sound(d), NEW e, Sound(e), NEW c, NEW front \in BOOLEAN, Grown(d, e, c, front)
    PROVE  /\ StoreOf(d) \in Seq(Entries)
           /\ \E x \in Entries : StoreOf(e) = <<x>> \o StoreOf(d) \/ StoreOf(e) = StoreOf(d) \o <<x>>
           /\ \A S, V : Alike(d, e, S, V) /\ NewSlot(d) \notin V => Shown(e, Packet(e, V)) = Shown(d, Packet(d, S))
<1> DEFINE i == NewSlot(d)
           p == Packet(d, Alive(d))
<1>1. d \in Stores /\ Chained(d) /\ Whole(d) /\ e \in Stores
  BY DEF Sound
<1>2. /\ Slots(e) = Slots(d) \cup {i} /\ i \notin Slots(d) /\ i \in Slots(e)
      /\ \A j \in Slots(d) : e.slots[j].erased = d.slots[j].erased /\ e.slots[j].key = d.slots[j].key
      /\ e.slots[i].erased = 0
  BY DEF Grown, Joins
<1>3. \A s \in Seq(Slots(d)) : Shown(e, s) = Shown(d, s) /\ s \in Seq(Slots(e))
  <2>1. \A s \in Seq(Slots(d)) : Shown(e, s) = Shown(d, s)
    BY ONLY <1>1, <1>2, ShownSame
  <2>2. Slots(d) \subseteq Slots(e)
    BY <1>2
  <2> QED BY <2>1, <2>2
<1>4. StoreOf(d) = Shown(d, p) /\ StoreOf(e) = Shown(e, Packet(e, Alive(e)))
  BY DEF StoreOf, Live, Alive
<1>5. p \in Seq(Slots(d)) /\ Shown(d, p) \in Seq(Entries)
  BY <1>1, PacketSeq, ShownIs
<1>6. Alike(d, e, Alive(d), Alive(e)) /\ i \in Alive(e)
  <2>1. Alive(e) = Alive(d) \cup {i}
    BY <1>2 DEF Alive, Erased
  <2>2. Alive(d) \cap Slots(d) = Alive(e) \cap Slots(d)
    BY <1>2, <2>1
  <2> QED BY <1>1, <1>2, <2>1, <2>2 DEF Alike, Grown
<1>7. Packet(e, Alive(e)) = <<i>> \o p \/ Packet(e, Alive(e)) = p \o <<i>>
  BY ONLY <1>1, <1>6, front \in BOOLEAN, Grown(d, e, c, front), GrownInside
<1>8. /\ Shown(e, <<i>>) = <<Entry(e, i)>> /\ Entry(e, i) \in Entries
      /\ Shown(e, p) = Shown(d, p) /\ <<i>> \in Seq(Slots(e)) /\ p \in Seq(Slots(e))
  BY <1>1, <1>2, <1>3, <1>5, ShownOne
<1>9. /\ Shown(e, <<i>> \o p) = Shown(e, <<i>>) \o Shown(e, p)
      /\ Shown(e, p \o <<i>>) = Shown(e, p) \o Shown(e, <<i>>)
  BY ONLY <1>1, <1>8, ShownJoin
<1>10. StoreOf(e) = <<Entry(e, i)>> \o StoreOf(d) \/ StoreOf(e) = StoreOf(d) \o <<Entry(e, i)>>
  BY ONLY <1>4, <1>7, <1>8, <1>9
<1>11. ASSUME NEW S, NEW V, Alike(d, e, S, V), i \notin V
       PROVE  Shown(e, Packet(e, V)) = Shown(d, Packet(d, S))
  <2>1. Packet(e, V) = Packet(d, S)
    BY ONLY <1>1, <1>11, front \in BOOLEAN, Grown(d, e, c, front), GrownOutside
  <2>2. Packet(d, S) \in Seq(Slots(d))
    BY <1>1, PacketSeq
  <2> QED BY <1>3, <2>1, <2>2
<1> QED BY <1>4, <1>5, <1>8, <1>10, <1>11

Adds(c, front, rec) ==
    /\ Grown(db, db', c, front) /\ Sound(db') /\ db'.nextRef = db.nextRef + 1
    /\ rec \in {Rec("asserta", NewSlot(db)), Rec("assertz", NewSlot(db))}
    /\ txs' = Logged(<<rec>>) /\ goals' = goals

(* Asserting a clause adds one to an end of the view and changes no goal.  *)
LEMMA AddStep ==
    ASSUME DbInv, ViewInv, NEW c, NEW front \in BOOLEAN, NEW rec, Adds(c, front, rec)
    PROVE  ViewInv' /\ View!Add
<1> DEFINE i == NewSlot(db)
           recs == <<rec>>
<1>0. /\ Sound(db) /\ db \in Stores /\ db.nextRef \in Nat /\ StoreInv(db)
      /\ GoalStack(goals) /\ GoalsSee(db, goals) /\ Len(goals) \in Nat
      /\ txs \in Seq(Txs) /\ Nested(txs, goals) /\ LogsSpare(db, txs) /\ Len(txs) \in Nat
      /\ LogsCover(db, txs, goals) /\ LogsOrder(txs)
  BY BothInvs
<1>1. /\ Grown(db, db', c, front) /\ Sound(db') /\ db'.nextRef = db.nextRef + 1
      /\ goals' = goals /\ txs' = Logged(recs) /\ Later(db, db')
  BY <1>0 DEF Adds, Later
<1>2. /\ Slots(db') = Slots(db) \cup {i} /\ i \notin Slots(db) /\ i \in Nat
      /\ \A j \in Slots(db) : db'.slots[j].ref = db.slots[j].ref /\ db'.slots[j].erased = db.slots[j].erased
      /\ db'.slots[i].ref = db.nextRef /\ db'.slots[i].erased = 0
      /\ db' \in Stores /\ Chained(db')
  BY <1>0, <1>1 DEF Grown, NewSlot, Stores
<1>3. /\ rec \in Recs /\ recs \in Seq(Recs) /\ ToSet(recs) = {rec} /\ rec.slot = i /\ rec.kind # "erase"
      /\ Ordered(recs)
      /\ Rec("asserta", i) = rec \/ Rec("assertz", i) = rec
      /\ \A kind, j : j # i => Rec(kind, j) # rec
  <2>1. \A kind, j : Rec(kind, j).slot = j /\ Rec(kind, j).kind = kind
    BY DEF Rec
  <2>2. rec.slot = i /\ rec.kind # "erase" /\ (Rec("asserta", i) = rec \/ Rec("assertz", i) = rec)
    BY <2>1 DEF Adds
  <2>3. rec \in Recs
    BY <1>2 DEF Adds, Rec, Recs
  <2>4. recs \in Seq(Recs) /\ ToSet(recs) = {rec} /\ Len(recs) = 1
    BY <2>3 DEF ToSet
  <2>5. Ordered(recs)
    BY <2>4 DEF Ordered
  <2>6. \A kind, j : j # i => Rec(kind, j) # rec
    BY <2>1, <2>2
  <2> QED BY <2>2, <2>3, <2>4, <2>5, <2>6
<1>4. GoalsSee(db', goals) /\ RunningOf(db', goals) = RunningOf(db, goals)
  BY <1>0, <1>1, GrownGoals
<1>5. LogsCover(db', txs, goals)
  <2> SUFFICES ASSUME NEW k \in 1..Len(txs), NEW r \in ToSet(txs[k].log), NEW n \in 1..txs[k].goals
               PROVE  Covers(db', r, goals[n].gen)
    BY DEF LogsCover
  <2>1. r \in Recs /\ r.slot \in Slots(db) /\ n \in 1..Len(goals)
    BY BothInvs
  <2>2. Covers(db, r, goals[n].gen)
    BY <1>0 DEF LogsCover
  <2> QED BY <1>2, <2>1, <2>2 DEF Covers
<1>6. /\ StoreOf(db) \in Seq(Entries)
      /\ \E x \in Entries : StoreOf(db') = <<x>> \o StoreOf(db) \/ StoreOf(db') = StoreOf(db) \o <<x>>
      /\ \A S, V : Alike(db, db', S, V) /\ i \notin V => Shown(db', Packet(db', V)) = Shown(db, Packet(db, S))
  <2>1. Sound(db) /\ Sound(db') /\ Grown(db, db', c, front)
    BY ONLY <1>0, <1>1
  <2>2. /\ StoreOf(db) \in Seq(Entries)
        /\ \E x \in Entries : StoreOf(db') = <<x>> \o StoreOf(db) \/ StoreOf(db') = StoreOf(db) \o <<x>>
        /\ \A S, V : Alike(db, db', S, V) /\ NewSlot(db) \notin V
                          => Shown(db', Packet(db', V)) = Shown(db, Packet(db, S))
    BY ONLY <2>1, front \in BOOLEAN, GrownShows, ZenonT(40)
  <2> QED BY ONLY <2>2 DEF i
<1>7. /\ LogsCover(db', txs', goals) /\ LogsOrder(txs')
      /\ SavedOf(db', txs') = SavedOf(db, txs)
  <2>1. CASE txs = <<>>
    <3>1. txs' = txs
      BY <1>1, <2>1 DEF Logged
    <3>2. SavedOf(db', txs) = SavedOf(db, txs)
      BY <2>1 DEF SavedOf
    <3> QED BY <1>0, <1>5, <3>1, <3>2
  <2>2. CASE txs # <<>>
    <3> DEFINE l == Len(txs)
    <3>1. Rejoined(txs, txs', l, recs) /\ l \in 1..l
      <4>1. l \in 1..l
        BY <1>0, <2>2
      <4> HIDE DEF recs
      <4>2. Rejoined(txs, Logged(recs), l, recs)
        BY ONLY <1>0, <1>3, <2>2, LoggedJoins
      <4> QED BY ONLY <1>1, <4>1, <4>2
    <3>2. \A r \in ToSet(recs) : \A k \in 1..txs[l].goals : Covers(db', r, goals[k].gen)
      <4> SUFFICES ASSUME NEW k \in 1..txs[l].goals PROVE Covers(db', rec, goals[k].gen)
        BY <1>3
      <4>1. k \in 1..Len(goals)
        BY <3>1, BothInvs
      <4>2. goals[k].gen \in Nat /\ goals[k].gen <= db.nextRef
        BY <4>1, BothInvs
      <4> QED BY <1>0, <1>2, <1>3, <4>2 DEF Covers
    <3>3. LogsCover(db', txs', goals)
      BY <1>5, <3>1, <3>2, RejoinedCover
    <3>4. LogsOrder(txs')
      <4>1. \A r \in ToSet(recs) : r.kind # "erase" =>
                \A k \in 1..l : \A s \in ToSet(txs[k].log) : s.slot # r.slot
        <5>1. \A k \in 1..l : \A s \in ToSet(txs[k].log) : s.slot \in Slots(db)
          BY BothInvs
        <5> QED BY <1>2, <1>3, <5>1
      <4> HIDE DEF l
      <4> QED BY <1>0, <1>3, <3>1, <4>1, RejoinedOrder
    <3>5. Len(txs') = l /\ \A k \in 1..l : txs'[k].goals = txs[k].goals
      BY <3>1 DEF Rejoined
    <3>6. ASSUME NEW k \in 1..l
          PROVE  /\ LiveBefore(db', txs', k) \cap Slots(db) = LiveBefore(db, txs, k)
                 /\ i \notin LiveBefore(db', txs', k) /\ LiveBefore(db, txs, k) \subseteq Slots(db)
      <4>1. RecsFrom(txs', k) = {rec} \cup RecsFrom(txs, k)
        <5>1. RecsFrom(txs', k) = ToSet(recs) \cup UNION {ToSet(txs[n].log) : n \in k..l}
          BY <3>1, RejoinedLogs
        <5> QED BY <1>3, <5>1 DEF RecsFrom
      <4>2. i \notin LiveBefore(db', txs', k)
        BY <1>3, <4>1, LiveBeforeIs
      <4>3. ASSUME NEW j \in Slots(db)
            PROVE  (/\ ~Erased(db', j) \/ Rec("erase", j) \in RecsFrom(txs', k)
                    /\ Rec("asserta", j) \notin RecsFrom(txs', k) /\ Rec("assertz", j) \notin RecsFrom(txs', k))
                   <=>
                   (/\ ~Erased(db, j) \/ Rec("erase", j) \in RecsFrom(txs, k)
                    /\ Rec("asserta", j) \notin RecsFrom(txs, k) /\ Rec("assertz", j) \notin RecsFrom(txs, k))
        <5>1. \A kind : Rec(kind, j) \in RecsFrom(txs', k) <=> Rec(kind, j) \in RecsFrom(txs, k)
          BY <1>2, <1>3, <4>1, <4>3
        <5> QED BY <1>2, <5>1 DEF Erased
      <4> QED BY <1>2, <4>2, <4>3, LiveBeforeIs
    <3>7. ASSUME NEW k \in 1..l
          PROVE  Shown(db', Packet(db', LiveBefore(db', txs', k))) = Shown(db, Packet(db, LiveBefore(db, txs, k)))
      <4>1. Alike(db, db', LiveBefore(db, txs, k), LiveBefore(db', txs', k))
        BY <1>0, <1>2, <3>6 DEF Alike, StoreInv
      <4> QED BY <1>6, <3>6, <4>1
    <3>8. SavedOf(db', txs') = [k \in 1..l |-> SavedOf(db, txs)[k]]
      <4> HIDE DEF l
      <4>1. \A k \in 1..l : k \in 1..Len(txs)
        BY DEF l
      <4> QED BY ONLY <3>5, <3>7, <4>1, SavedSame
    <3> QED BY <1>0, <3>3, <3>4, <3>8, SavedAll
  <2> QED BY <2>1, <2>2
<1>8. ViewInv'
  <2>1. db'.nextRef > 0 /\ Whole(db') /\ IxServes(db')
    BY <1>0, <1>1 DEF Sound
  <2> QED BY <1>1, <1>4, <1>7, <2>1 DEF ViewInv
<1>9. View!Add
  <2>1. PICK x \in Entries : StoreOf(db') = <<x>> \o StoreOf(db) \/ StoreOf(db') = StoreOf(db) \o <<x>>
    BY <1>6
  <2>2. Len(StoreOf(db')) = Len(StoreOf(db)) + 1
    BY <1>6, <2>1
  <2>3. StoreOf(db) = Tail(StoreOf(db')) \/ StoreOf(db) = Front(StoreOf(db'))
    <3>1. CASE StoreOf(db') = <<x>> \o StoreOf(db)
      BY <1>6, <3>1
    <3>2. CASE StoreOf(db') = StoreOf(db) \o <<x>>
      BY <1>6, <3>2 DEF Front
    <3> QED BY <2>1, <3>1, <3>2
  <2>4. StoreOf(db) = Tail(StoreOf(db')) \/ StoreOf(db) = View!Front(StoreOf(db'))
    BY ONLY <2>3, ViewOnly
  <2>5. RunningOf(db', goals') = RunningOf(db, goals) /\ SavedOf(db', txs') = SavedOf(db, txs)
    BY ONLY <1>1, <1>4, <1>7
  <2> QED BY ONLY <2>2, <2>4, <2>5 DEF View!Add
<1> QED BY <1>8, <1>9

(* What an erasure leaves, codes then being reclaimed. *)
LEMMA Clearing ==
    ASSUME DbInv, NEW e, StoreInv(e), NEW J, Marked(db, e, J, db.nextRef), db.nextRef <= e.nextRef,
           GoalsServed(e, goals, e.nextRef), J \subseteq Alive(db),
           NEW ok \in BOOLEAN, db' = Reclaim(e, ok),
           NEW recs, Erasures(recs, J), txs' = Logged(recs), goals' = goals
    PROVE  Clears(J, recs)
<1>1. e \in Stores /\ e.nextRef \in Nat /\ db.nextRef \in Nat
  BY StoreIs DEF DbInv
<1>2. Recoded(e, db')
  BY <1>1, ReclaimKeeps
<1>3. Kin(e, db') /\ (\A i \in Slots(e) : db'.slots[i].erased = e.slots[i].erased) /\ db'.nextRef = e.nextRef
  BY <1>2, RecodedKin
<1>4. Kin(db, e) /\ Slots(e) = Slots(db)
  BY DEF Marked, Kin, Slots
<1>5. Kin(db, db')
  BY <1>3, <1>4, KinOn
<1>6. Marked(db, db', J, db.nextRef)
  BY <1>3, <1>4, <1>5 DEF Marked
<1> QED BY <1>1, <1>3, <1>6 DEF Clears, Later

(* Erasing one by one marks those slots, and logs each.                    *)
LEMMA ErasedMarks ==
    ASSUME DbInv, NEW S, \A i \in S : i \in Slots(db) /\ ~Erased(db, i), NEW seq \in Seq(S),
           NEW k \in Nat, NEW gens,
           \A n \in 1..Len(seq) : /\ gens[n] \in Nat /\ db.nextRef <= gens[n]
                                  /\ gens[n] < db.nextRef + k
    PROVE  LET e == EraseEach([db EXCEPT !.nextRef = @ + k], seq, gens)
               records == Reverse([n \in 1..Len(seq) |-> Rec("erase", seq[n])])
               J == {seq[n] : n \in 1..Len(seq)}
           IN  /\ Marked(db, e, J, db.nextRef) /\ J \subseteq Alive(db) /\ Erasures(records, J)
               /\ db.nextRef <= e.nextRef
<1> DEFINE d == [db EXCEPT !.nextRef = @ + k]
           m == db.nextRef
           e == EraseEach(d, seq, gens)
           list == [n \in 1..Len(seq) |-> Rec("erase", seq[n])]
           records == Reverse(list)
           J == {seq[n] : n \in 1..Len(seq)}
<1>0. StoreInv(db) /\ db \in Stores /\ m \in Nat /\ m + k \in Nat /\ m <= m + k
  BY StoreIs DEF DbInv, Stores
<1>1. Settled(db, d, m) /\ d.slots = db.slots /\ d.nextRef = m + k
  BY <1>0, LaterIs
<1>a. d.head = db.head /\ d.tail = db.tail /\ d.ix = db.ix /\ d.ixOff = db.ixOff
  BY <1>0 DEF Stores
<1> HIDE DEF d
<1>2. StoreInv(d) /\ d \in Stores /\ Slots(d) = Slots(db)
  BY <1>1 DEF Settled, StoreInv, Slots
<1>3. \A n \in 1..Len(seq) : seq[n] \in S
  OBVIOUS
<1>4. seq \in Seq(Slots(d)) /\ \A n \in 1..Len(seq) : Stays(d, seq[n], m)
  <2>1. S \subseteq Slots(d)
    BY <1>2
  <2>2. \A n \in 1..Len(seq) : d.slots[seq[n]].erased = 0
    BY <1>1, <1>3 DEF Erased
  <2>3. seq \in Seq(Slots(d))
    BY <2>1
  <2> QED BY <2>2, <2>3 DEF Stays
<1>5. \A n \in 1..Len(seq) : gens[n] \in Nat /\ gens[n] # 0 /\ m <= gens[n] /\ gens[n] < d.nextRef
  <2> SUFFICES ASSUME NEW n \in 1..Len(seq)
               PROVE  gens[n] \in Nat /\ gens[n] # 0 /\ m <= gens[n] /\ gens[n] < d.nextRef
    OBVIOUS
  <2>1. seq[n] \in Slots(db)
    BY <1>3
  <2>2. db.slots[seq[n]].ref \in Nat /\ db.slots[seq[n]].ref < m
    BY <1>0, <2>1, SlotIs DEF StoreInv, Dated
  <2> QED BY <1>0, <1>1, <2>2
<1>6. Unseen(d, e, m) /\ Marked(d, e, J, m)
  <2> HIDE DEF m
  <2> QED BY <1>0, <1>2, <1>4, <1>5, EraseEachKeeps
<1> HIDE DEF e
<1>7. Marked(db, e, J, m)
  <2>1. Kin(db, d)
    BY <1>1, <1>2, <1>a DEF Kin
  <2>2. Kin(db, e)
    BY <1>6, <2>1, KinOn DEF Marked
  <2> HIDE DEF J, m
  <2> QED BY <1>1, <1>2, <1>6, <2>2 DEF Marked
<1>8. e.nextRef = m + k
  BY <1>1, <1>6 DEF Unseen
<1>9. J \subseteq Alive(db)
  BY <1>3 DEF Alive
<1>10. Erasures(records, J)
  <2>1. \A i \in S : Rec("erase", i) \in Recs
    <3>1. \A i \in S : i \in Nat
      BY <1>0 DEF Slots, Stores
    <3> QED BY <3>1 DEF Rec, Recs
  <2>2. list \in Seq(Recs) /\ Len(list) = Len(seq) /\ Len(seq) \in Nat
    BY <1>3, <2>1
  <2>3. ToSet(list) = {Rec("erase", j) : j \in J}
    BY <2>2 DEF ToSet
  <2> HIDE DEF list, J
  <2>4. records \in Seq(Recs) /\ Len(records) = Len(list)
    BY <2>2, ReversedIs
  <2>5. ToSet(records) = ToSet(list)
    <3>1. \A n \in 1..Len(list) : records[n] = list[Len(list) - n + 1] /\ Len(list) - n + 1 \in 1..Len(list)
      BY <2>2 DEF Reverse
    <3>2. ASSUME NEW x \in ToSet(list) PROVE x \in ToSet(records)
      <4>1. PICK n \in 1..Len(list) : list[n] = x
        BY <2>2, SetIs
      <4>2. Len(list) - n + 1 \in 1..Len(list) /\ Len(list) - (Len(list) - n + 1) + 1 = n
        BY <2>2
      <4>3. records[Len(list) - n + 1] = x
        BY <3>1, <4>1, <4>2
      <4> QED BY <2>4, <4>2, <4>3, SetIs
    <3>3. ASSUME NEW x \in ToSet(records) PROVE x \in ToSet(list)
      <4>1. PICK n \in 1..Len(list) : records[n] = x
        BY <2>4, SetIs
      <4>2. list[Len(list) - n + 1] = x /\ Len(list) - n + 1 \in 1..Len(list)
        BY ONLY <3>1, <4>1
      <4> QED BY ONLY <2>2, <4>2, SetIs
    <3> QED BY <3>2, <3>3
  <2> QED BY <2>3, <2>4, <2>5 DEF Erasures
<1> QED BY <1>0, <1>7, <1>8, <1>9, <1>10 DEF e, d, records

(* erase/1 and retract/1 remove from the view.                             *)
LEMMA EraseViews ==
    ASSUME DbInv, ViewInv, NEW i \in 1..MaxSlots, Erase(i)
    PROVE  ViewInv' /\ View!RemoveSome
<1> DEFINE m == db.nextRef
           b == Bump(db)
           p == IF txs = <<>> THEN b.pins ELSE b.pins + 1
           e == EraseSlot(b, i, m)
           rec == Rec("erase", i)
<1>0. /\ StoreInv(db) /\ db \in Stores /\ m \in Nat /\ db.pins \in Nat /\ GoalsServed(db, goals, m)
      /\ i \in Slots(db) /\ ~Erased(db, i)
  BY StoreIs DEF DbInv, Erase, Stores
<1>1. /\ Settled(db, b, m) /\ b.slots = db.slots /\ b.nextRef = m + 1 /\ b.pins = db.pins
      /\ b.head = db.head /\ b.tail = db.tail /\ b.ix = db.ix /\ b.ixOff = db.ixOff
  <2>1. Settled(db, b, m) /\ b.slots = db.slots /\ b.nextRef = m + 1 /\ b.pins = db.pins
    BY <1>0, BumpIs
  <2>2. b.head = db.head /\ b.tail = db.tail /\ b.ix = db.ix /\ b.ixOff = db.ixOff
    BY <1>0 DEF Bump, Stores
  <2> QED BY <2>1, <2>2
<1> HIDE DEF b
<1>2. StoreInv(b) /\ b \in Stores /\ i \in Slots(b) /\ Stays(b, i, m) /\ b.mode = db.mode
      /\ Slots(b) = Slots(db)
  BY <1>0, <1>1 DEF Settled, StoreInv, Slots, Stays, Erased
<1>3. m # 0
  <2>1. db.slots[i].ref \in Nat /\ db.slots[i].ref < m
    BY <1>0, SlotIs DEF StoreInv, Dated
  <2> QED BY <1>0, <2>1
<1>4. e = Noted(b, i, m, p) /\ p \in Nat
  BY <1>0, <1>2, EraseSlotIs
<1>5. Unseen(b, e, m)
  <2> HIDE DEF m
  <2> QED BY <1>0, <1>1, <1>2, <1>3, <1>4, NotedKeeps
<1>6. Marked(db, e, {i}, m)
  <2>1. Kin(db, b)
    BY <1>1, <1>2 DEF Kin
  <2>2. Marked(db, b, {}, m)
    BY <1>1, <2>1 DEF Marked
  <2>3. Marked(db, e, {} \cup {i}, m)
    <3> HIDE DEF m, e, p
    <3> QED BY <1>0, <1>2, <1>3, <1>4, <2>2, MarkedOn
  <2>4. {} \cup {i} = {i}
    OBVIOUS
  <2> QED BY <2>3, <2>4
<1> HIDE DEF e, p
<1>7. StoreInv(e) /\ e.nextRef = m + 1 /\ m <= e.nextRef
  BY <1>0, <1>1, <1>5 DEF Unseen
<1>8. GoalsServed(e, goals, e.nextRef)
  <2>1. GoalsServed(b, goals, m)
    BY <1>0, <1>1 DEF Settled
  <2>2. GoalsServed(e, goals, m)
    BY <1>0, <1>2, <1>5, <2>1, UnseenServes
  <2> HIDE DEF m
  <2> QED BY <1>0, <1>7, <2>2, ServedLater
<1>9. Erasures(<<rec>>, {i}) /\ {i} \subseteq Alive(db)
  <2>1. rec \in Recs
    BY <1>0 DEF Rec, Recs, Slots, Stores
  <2>2. ToSet(<<rec>>) = {rec} /\ {rec} = {Rec("erase", j) : j \in {i}}
    BY DEF ToSet
  <2> HIDE DEF rec
  <2> QED BY <1>0, <2>1, <2>2 DEF Erasures, Alive
<1>10. PICK ok \in BOOLEAN : db' = Reclaim(e, ok)
  BY DEF Erase, e, b
<1>11. txs' = Logged(<<rec>>) /\ goals' = goals
  BY DEF Erase
<1> HIDE DEF rec
<1>12. Clears({i}, <<rec>>)
  BY <1>6, <1>7, <1>8, <1>9, <1>10, <1>11, Clearing
<1> QED BY <1>12, ClearsStep

(* retractall/1 removes from the view.                                     *)
LEMMA RetractAllViews ==
    ASSUME DbInv, ViewInv, NEW key \in Keys \cup {AnyKey}, RetractAll(key)
    PROVE  ViewInv' /\ View!RemoveSome
<1> DEFINE hits == {i \in Slots(db) : ~Erased(db, i) /\ ~Rejects(db, i, key)}
           from == IF db.ix = NoIx \/ key = AnyKey THEN [i \in Slots(db) |-> i] ELSE db.ix.of[key]
           seq  == Only(from, hits)
           k == Len(seq)
           gens == [n \in DOMAIN seq |-> db.nextRef + n - 1]
           e == EraseEach([db EXCEPT !.nextRef = @ + k], seq, gens)
           records == Reverse([n \in 1..Len(seq) |-> Rec("erase", seq[n])])
           J == {seq[n] : n \in 1..Len(seq)}
<1>1. db \in Stores /\ db.nextRef \in Nat
  BY StoreIs DEF DbInv
<1>2. Len(from) \in Nat
  <2>1. [i \in Slots(db) |-> i] \in Seq(Nat)
    BY <1>1 DEF Slots, Stores
  <2>2. db.ix # NoIx /\ key # AnyKey => db.ix.of[key] \in Seq(Nat)
    BY <1>1 DEF Stores, Indexes
  <2>3. from \in Seq(Nat)
    BY <2>1, <2>2
  <2> HIDE DEF from
  <2> QED BY <2>3
<1>3. seq \in Seq(hits)
  <2> HIDE DEF from, hits
  <2> QED BY <1>2, OnlyIs
<1>4. \A i \in hits : i \in Slots(db) /\ ~Erased(db, i)
  OBVIOUS
<1>5. PICK ok \in BOOLEAN : db' = Reclaim(e, ok) /\ txs' = Logged(records) /\ goals' = goals
  BY DEF RetractAll
<1> HIDE DEF hits, seq
<1>6. k \in Nat /\ \A n \in 1..Len(seq) : /\ gens[n] \in Nat /\ db.nextRef <= gens[n]
                                          /\ gens[n] < db.nextRef + k
  BY <1>1, <1>3
<1> HIDE DEF k, gens
<1>7. StoreInv(e) /\ GoalsServed(e, goals, e.nextRef)
  BY <1>3, <1>4, <1>6, ErasedAll
<1>8. /\ Marked(db, e, J, db.nextRef) /\ J \subseteq Alive(db) /\ Erasures(records, J)
      /\ db.nextRef <= e.nextRef
  BY ONLY DbInv, <1>3, <1>4, <1>6, ErasedMarks
<1> HIDE DEF e, records, J
<1>9. Clears(J, records)
  BY <1>5, <1>7, <1>8, Clearing
<1> QED BY <1>9, ClearsStep

(* abolish/1 removes from the view.                                        *)
LEMMA AbolishViews ==
    ASSUME DbInv, ViewInv, Abolish
    PROVE  ViewInv' /\ View!RemoveSome
<1> DEFINE hits == {i \in Slots(db) : ~Erased(db, i)}
           from == [i \in Slots(db) |-> i]
           seq  == Only(from, hits)
           gens == [n \in DOMAIN seq |-> db.nextRef]
           b == [db EXCEPT !.nextRef = @ + 1]
           e == EraseEach(b, seq, gens)
           off == Off(e, db.slots = <<>>)
           records == Reverse([n \in 1..Len(seq) |-> Rec("erase", seq[n])])
           J == {seq[n] : n \in 1..Len(seq)}
<1>1. db \in Stores /\ db.nextRef \in Nat
  BY StoreIs DEF DbInv
<1>2. seq \in Seq(hits)
  <2>1. from \in Seq(Nat)
    BY <1>1 DEF Slots, Stores
  <2>2. Len(from) \in Nat
    <3> HIDE DEF from
    <3> QED BY <2>1
  <2> HIDE DEF from, hits
  <2> QED BY <2>2, OnlyIs
<1>3. \A i \in hits : i \in Slots(db) /\ ~Erased(db, i)
  OBVIOUS
<1>4. PICK ok \in BOOLEAN :
          /\ db' = Reclaim([EraseEach(Bump(db), seq, gens) EXCEPT
                                !.mode = IF @ = "data" THEN "fresh" ELSE @,
                                !.way = IF db.slots = <<>> THEN @ ELSE "absent"], ok)
          /\ txs' = Logged(records) /\ goals' = goals
  BY DEF Abolish
<1>5. Bump(db) = b
  BY DEF Bump
<1> HIDE DEF hits, seq, b
<1>6. \A n \in 1..Len(seq) : /\ gens[n] \in Nat /\ db.nextRef <= gens[n]
                             /\ gens[n] < db.nextRef + 1
  BY <1>1, <1>2
<1> HIDE DEF gens
<1>7. StoreInv(e) /\ GoalsServed(e, goals, e.nextRef)
  BY <1>2, <1>3, <1>6, ErasedAll DEF b
<1>8. /\ Marked(db, e, J, db.nextRef) /\ J \subseteq Alive(db) /\ Erasures(records, J)
      /\ db.nextRef <= e.nextRef
  BY ONLY DbInv, <1>2, <1>3, <1>6, 1 \in Nat, ErasedMarks DEF e, b
<1> HIDE DEF e, records, J
<1>9. db' = Reclaim(off, ok)
  BY <1>4, <1>5 DEF e, Off
<1>10. /\ StoreInv(off) /\ Recoded(e, off) /\ off.nextRef = e.nextRef
       /\ \A gs, m : GoalsServed(e, gs, m) => GoalsServed(off, gs, m)
  BY <1>7, OffIs
<1> HIDE DEF off
<1>11. Marked(db, off, J, db.nextRef)
  <2>1. Kin(e, off) /\ \A i \in Slots(e) : off.slots[i].erased = e.slots[i].erased
    BY <1>10, RecodedKin
  <2>2. Kin(db, e) /\ Slots(e) = Slots(db)
    BY <1>8 DEF Marked, Kin, Slots
  <2>3. Kin(db, off)
    BY <2>1, <2>2, KinOn
  <2> QED BY <1>8, <2>1, <2>2, <2>3 DEF Marked
<1>12. GoalsServed(off, goals, off.nextRef) /\ db.nextRef <= off.nextRef
  BY <1>7, <1>8, <1>10
<1>13. Clears(J, records)
  BY <1>4, <1>8, <1>9, <1>10, <1>11, <1>12, Clearing
<1> QED BY <1>13, ClearsStep

(* asserta/1 and assertz/1 add to the view.                                *)
LEMMA AssertViews ==
    ASSUME DbInv, ViewInv, Strict, NEW c \in Clauses, NEW front \in BOOLEAN, AssertClause(c, front)
    PROVE  ViewInv' /\ View!Add
<1>1. PICK ok \in BOOLEAN :
          LET i == Len(db.slots) + 1
              r == Reclaim(db, ok)
              s == IxNote(Linked(Stored(r, c), i, front), i, front)
          IN  /\ db' = Place(s, i, c.rule)
              /\ txs' = Logged(<<Rec(IF front THEN "asserta" ELSE "assertz", i)>>)
  BY DEF AssertClause
<1> DEFINE i == Len(db.slots) + 1
           r == Reclaim(db, ok)
           rec == Rec(IF front THEN "asserta" ELSE "assertz", i)
           e == Place(Bound(r, c, front), NewSlot(r), c.rule)
<1>0. /\ StoreInv(db) /\ Sound(db) /\ db \in Stores /\ db.nextRef \in Nat
      /\ GoalsServed(db, goals, db.nextRef)
  BY BothInvs DEF DbInv
<1>2. StoreInv(r) /\ Recoded(db, r) /\ r.mode = db.mode
  BY <1>0, ReclaimKeeps
<1> HIDE DEF r
<1>3. r.nextRef = db.nextRef /\ NewSlot(r) = i /\ (HeadDead(r) <=> HeadDead(db))
  BY <1>0, <1>2, RecodedKeeps DEF Recoded, NewSlot, HeadDead, Chained, StoreInv, Slots, None
<1>4. ~(c.rule /\ r.mode # "code" /\ HeadDead(r) /\ ~front)
  BY <1>2, <1>3 DEF AssertClause
<1>5. Sound(r)
  <2>1. Kin(db, r)
    BY <1>2, RecodedKin
  <2> QED BY <1>0, <2>1, KinSound
<1>6. e.nextRef = db.nextRef + 1
  BY <1>2, <1>3, <1>4, PlacedKeeps
<1>7. Grown(r, e, c, front) /\ Sound(e)
  BY <1>2, <1>4, <1>5, PlacedGrows
<1>8. db' = e /\ txs' = Logged(<<rec>>) /\ goals' = goals
  <2>1. Bound(r, c, front) = IxNote(Linked(Stored(r, c), i, front), i, front)
    BY <1>3 DEF Bound
  <2> QED BY <1>1, <1>3, <2>1 DEF r, AssertClause
<1> HIDE DEF e
<1>9. Grown(db, db', c, front)
  BY ONLY <1>0, <1>2, <1>7, <1>8, front \in BOOLEAN, RecodedGrown
<1>10. rec \in {Rec("asserta", NewSlot(db)), Rec("assertz", NewSlot(db))}
  BY DEF NewSlot
<1> HIDE DEF rec
<1>11. Adds(c, front, rec)
  BY <1>6, <1>7, <1>8, <1>9, <1>10 DEF Adds
<1> QED BY <1>11, AddStep

-----------------------------------------------------------------------------
(* Goals come, go on and leave. *)

(* What goals show of a store, as a stack.                                 *)
LEMMA RunningIs ==
    ASSUME NEW d, NEW gs, Len(gs) \in Nat
    PROVE  /\ Len(RunningOf(d, gs)) = Len(gs) /\ DOMAIN RunningOf(d, gs) = 1..Len(gs)
           /\ \A n \in 1..Len(gs) : RunningOf(d, gs)[n] = Shown(d, Remaining(d, gs[n]))
BY DEF RunningOf

(* The store got codes at most.                                            *)
LEMMA RecodedGoals ==
    ASSUME NEW d, Sound(d), d.nextRef \in Nat, NEW e, Recoded(d, e)
    PROVE  /\ Sound(e) /\ StoreOf(e) = StoreOf(d) /\ Later(d, e)
           /\ \A ts : SavedOf(e, ts) = SavedOf(d, ts)
           /\ \A ts, gs : LogsCover(d, ts, gs) /\ (\A m \in 1..Len(ts) : \A r \in ToSet(ts[m].log) : r.slot \in Slots(d))
                             => LogsCover(e, ts, gs)
           /\ \A gs : GoalsStay(d, e, gs)
           /\ \A g : Seen(e, g) = Seen(d, g)
           /\ \A S : \A j \in 0..Len(d.slots) : TraceOf(e, S)[j] = TraceOf(d, S)[j]
<1>1. /\ Kin(d, e) /\ (\A i \in Slots(d) : e.slots[i].erased = d.slots[i].erased) /\ e.nextRef = d.nextRef
      /\ Slots(e) = Slots(d) /\ \A i \in Slots(d) : e.slots[i].ref = d.slots[i].ref /\ e.slots[i].key = d.slots[i].key
  BY RecodedKin DEF Kin, Slots
<1>2. Sound(e) /\ Later(d, e)
  BY <1>1, KinSound DEF Later
<1>3. Alive(e) = Alive(d)
  BY <1>1 DEF Alive, Erased
<1>4. StoreOf(e) = StoreOf(d)
  BY <1>1, <1>3, KinShows
<1>5. ASSUME NEW ts PROVE SavedOf(e, ts) = SavedOf(d, ts)
  <2>1. \A n : LiveBefore(e, ts, n) = LiveBefore(d, ts, n)
    BY <1>1 DEF LiveBefore, Erased
  <2>2. \A S : Shown(e, Packet(e, S)) = Shown(d, Packet(d, S))
    BY <1>1, KinShows
  <2> QED BY <2>1, <2>2 DEF SavedOf
<1>6. ASSUME NEW ts, NEW gs, LogsCover(d, ts, gs), \A m \in 1..Len(ts) : \A r \in ToSet(ts[m].log) : r.slot \in Slots(d)
      PROVE  LogsCover(e, ts, gs)
  <2> SUFFICES ASSUME NEW m \in 1..Len(ts), NEW r \in ToSet(ts[m].log), NEW n \in 1..ts[m].goals
               PROVE  Covers(e, r, gs[n].gen)
    BY DEF LogsCover
  <2>1. Covers(d, r, gs[n].gen) /\ r.slot \in Slots(d)
    BY <1>6 DEF LogsCover
  <2> QED BY <1>1, <2>1 DEF Covers
<1>7. \A gs : GoalsStay(d, e, gs)
  BY <1>1 DEF GoalsStay, StaysAt
<1>8. ASSUME NEW g PROVE Seen(e, g) = Seen(d, g)
  BY <1>1 DEF Seen, Visible, Rejects
<1>9. \A S : \A j \in 0..Len(d.slots) : TraceOf(e, S)[j] = TraceOf(d, S)[j]
  BY <1>1, KinTraces DEF Sound
<1> QED BY <1>2, <1>4, <1>5, <1>6, <1>7, <1>8, <1>9

(* The goals of the view, one by one.                                      *)
LEMMA RunningSeq ==
    ASSUME NEW d, Sound(d), NEW gs, GoalStack(gs), GoalsSee(d, gs)
    PROVE  /\ RunningOf(d, gs) \in Seq(Seq(Entries)) /\ Len(RunningOf(d, gs)) = Len(gs) /\ Len(gs) \in Nat
           /\ \A n \in 1..Len(gs) : RunningOf(d, gs)[n] = Shown(d, Remaining(d, gs[n]))
<1>1. Len(gs) \in Nat
  BY DEF GoalStack
<1>2. ASSUME NEW n \in 1..Len(gs) PROVE Shown(d, Remaining(d, gs[n])) \in Seq(Entries)
  <2>1. Plain(gs[n]) /\ Sees(d, gs[n])
    BY GoalPlain
  <2>2. gs[n].at \in Seen(d, gs[n]) /\ gs[n].at \in Slots(d)
    BY <2>1 DEF Sees, Seen
  <2>3. Remaining(d, gs[n]) = TraceOf(d, Seen(d, gs[n]))[gs[n].at]
    BY <2>1, <2>2, RemainingAt
  <2>4. d \in Stores /\ Chained(d)
    BY DEF Sound
  <2>5. gs[n].at \in 0..Len(d.slots)
    BY <2>2, <2>4 DEF Slots, Stores
  <2>6. Remaining(d, gs[n]) \in Seq(Seen(d, gs[n]) \cap Slots(d))
    BY <2>3, <2>4, <2>5, TraceIs
  <2>7. Remaining(d, gs[n]) \in Seq(Slots(d))
    BY <2>6
  <2> QED BY <2>4, <2>7, ShownIs
<1> QED BY <1>1, <1>2 DEF RunningOf

(* A store is its own with no codes got.                                   *)
LEMMA RecodedSelf ==
    ASSUME NEW d \in Stores
    PROVE  Recoded(d, d)
BY DEF Recoded

(* The transactions are as they were, the store got codes at most, and of  *)
(* the goals the first n are as they were.                                 *)
Keeps(n) ==
    /\ n \in Base..Len(goals) /\ txs' = txs /\ Recoded(db, db')
    /\ Len(goals') >= n /\ \A k \in 1..n : goals'[k] = goals[k]
    /\ \A k \in n + 1..Len(goals') : Sees(db, goals'[k]) /\ goals'[k].gen <= db.nextRef

(* Where only codes and the youngest goals change, the view's rest stays.  *)
LEMMA KeepsStep ==
    ASSUME DbInv, ViewInv, DbInv', NEW n, Keeps(n)
    PROVE  /\ ViewInv' /\ StoreOf(db') = StoreOf(db) /\ SavedOf(db', txs') = SavedOf(db, txs)
           /\ RunningOf(db, goals) \in Seq(Seq(Entries)) /\ Len(RunningOf(db, goals)) = Len(goals)
           /\ RunningOf(db', goals') \in Seq(Seq(Entries)) /\ Len(RunningOf(db', goals')) = Len(goals')
           /\ Len(goals) \in Nat /\ Len(goals') \in Nat
           /\ \A k \in 1..Len(goals) : RunningOf(db, goals)[k] = Shown(db, Remaining(db, goals[k]))
           /\ \A k \in 1..n : RunningOf(db', goals')[k] = RunningOf(db, goals)[k]
           /\ \A k \in 1..Len(goals') : RunningOf(db', goals')[k] = Shown(db, Remaining(db, goals'[k]))
<1>0. /\ Sound(db) /\ db \in Stores /\ db.nextRef \in Nat
      /\ GoalStack(goals) /\ GoalsSee(db, goals) /\ Len(goals) \in Nat
      /\ LogsCover(db, txs, goals) /\ LogsOrder(txs) /\ Base \in Nat
      /\ \A m \in 1..Len(txs) : \A r \in ToSet(txs[m].log) : r.slot \in Slots(db)
      /\ \A m \in 1..Len(txs) : txs[m].goals \in Nat /\ txs[m].goals <= Base
  BY BothInvs, BaseIs
<1>1. /\ n \in Nat /\ Base <= n /\ n <= Len(goals) /\ txs' = txs /\ Recoded(db, db')
      /\ Len(goals') >= n /\ \A k \in 1..n : goals'[k] = goals[k]
      /\ \A k \in n + 1..Len(goals') : Sees(db, goals'[k]) /\ goals'[k].gen <= db.nextRef
  BY <1>0 DEF Keeps
<1>2. GoalStack(goals')
  BY DEF DbInv
<1>3. Len(goals') \in Nat
  BY <1>2 DEF GoalStack
<1>4. GoalsSee(db, goals')
  <2> SUFFICES ASSUME NEW k \in 1..Len(goals') PROVE Sees(db, goals'[k]) /\ goals'[k].gen <= db.nextRef
    BY DEF GoalsSee
  <2>1. CASE k <= n
    BY <1>0, <1>1, <2>1 DEF GoalsSee
  <2>2. CASE ~(k <= n)
    BY <1>1, <1>3, <2>2
  <2> QED BY <2>1, <2>2
<1>5. /\ Sound(db') /\ StoreOf(db') = StoreOf(db) /\ Later(db, db')
      /\ SavedOf(db', txs) = SavedOf(db, txs) /\ LogsCover(db', txs, goals)
      /\ GoalsStay(db, db', goals') /\ Kin(db, db') /\ db'.nextRef = db.nextRef
  BY <1>0, <1>1, RecodedGoals, RecodedKin
<1>6. GoalsSee(db', goals') /\ RunningOf(db', goals') = RunningOf(db, goals')
  BY ONLY <1>0, <1>2, <1>4, <1>5, KinGoals
<1>7. /\ RunningOf(db, goals) \in Seq(Seq(Entries)) /\ Len(RunningOf(db, goals)) = Len(goals)
      /\ \A k \in 1..Len(goals) : RunningOf(db, goals)[k] = Shown(db, Remaining(db, goals[k]))
  BY <1>0, RunningSeq
<1>8. /\ RunningOf(db, goals') \in Seq(Seq(Entries)) /\ Len(RunningOf(db, goals')) = Len(goals')
      /\ \A k \in 1..Len(goals') : RunningOf(db, goals')[k] = Shown(db, Remaining(db, goals'[k]))
  BY <1>0, <1>2, <1>4, RunningSeq
<1>9. \A k \in 1..n : RunningOf(db', goals')[k] = RunningOf(db, goals)[k]
  BY <1>0, <1>1, <1>3, <1>6, <1>7, <1>8
<1>10. LogsCover(db', txs, goals')
  <2> SUFFICES ASSUME NEW m \in 1..Len(txs), NEW r \in ToSet(txs[m].log), NEW k \in 1..txs[m].goals
               PROVE  Covers(db', r, goals'[k].gen)
    BY DEF LogsCover
  <2>1. Covers(db', r, goals[k].gen)
    BY <1>5 DEF LogsCover
  <2>2. goals'[k] = goals[k]
    BY <1>0, <1>1
  <2> QED BY <2>1, <2>2
<1>11. ViewInv'
  <2>1. db'.nextRef > 0 /\ Whole(db') /\ IxServes(db')
    BY <1>5 DEF ViewInv, Sound
  <2> QED BY <1>0, <1>1, <1>6, <1>10, <2>1 DEF ViewInv
<1> QED BY <1>0, <1>1, <1>3, <1>5, <1>6, <1>7, <1>8, <1>9, <1>11

(* The view has its transactions open where the slots have. *)
LEMMA ViewBaseIs ==
    ASSUME DbInv
    PROVE  View!Base = Base
<1>1. txs \in Seq(Txs) /\ Len(txs) \in Nat
  BY BaseIs DEF DbInv
<1>2. Len(SavedOf(db, txs)) = Len(txs) /\ \A m \in 1..Len(txs) : SavedOf(db, txs)[m].goals = txs[m].goals
  BY <1>1, SavedAll
<1>3. CASE txs = <<>>
  <2>1. SavedOf(db, txs) = <<>>
    BY <1>3 DEF SavedOf
  <2> QED BY <1>3, <2>1 DEF View!Base, Base
<1>4. CASE txs # <<>>
  <2>1. Len(txs) # 0 /\ Len(txs) \in 1..Len(txs)
    BY <1>1, <1>4
  <2>2. SavedOf(db, txs) # <<>>
    BY <1>2, <2>1
  <2>3. View!Base = SavedOf(db, txs)[Len(txs)].goals
    BY <1>2, <2>2 DEF View!Base, View!Last
  <2> QED BY <1>2, <1>4, <2>1, <2>3 DEF Base, Last
<1> QED BY <1>3, <1>4

(* Leaving the youngest goal is the view's Cut.                            *)
LEMMA CutViews ==
    ASSUME DbInv, ViewInv, Cut
    PROVE  ViewInv' /\ View!Cut
<1> DEFINE n == Len(goals) - 1
           R == RunningOf(db, goals)
<1>0. /\ Base \in Nat /\ Len(goals) \in Nat /\ Len(goals) > Base /\ db \in Stores
      /\ goals' = SubSeq(goals, 1, n) /\ txs' = txs /\ db' = db /\ GoalStack(goals)
  BY BaseIs DEF Cut, Front, DbInv, StoreInv
<1>1. /\ n \in 0..Len(goals) /\ Len(goals') = n
      /\ \A k \in 1..n : goals'[k] = goals[k]
  <2>1. PICK S : goals \in Seq(GoalRecs(S))
    BY <1>0 DEF GoalStack
  <2>2. n \in 0..Len(goals)
    BY <1>0
  <2> HIDE DEF n
  <2> QED BY <1>0, <2>1, <2>2
<1>2. DbInv'
  BY CutKeeps
<1>3. Keeps(n)
  BY <1>0, <1>1, RecodedSelf DEF Keeps
<1>4. /\ ViewInv' /\ StoreOf(db') = StoreOf(db) /\ SavedOf(db', txs') = SavedOf(db, txs)
      /\ R \in Seq(Seq(Entries)) /\ Len(R) = Len(goals)
      /\ RunningOf(db', goals') \in Seq(Seq(Entries)) /\ Len(RunningOf(db', goals')) = n
      /\ \A k \in 1..n : RunningOf(db', goals')[k] = R[k]
  BY <1>1, <1>2, <1>3, KeepsStep
<1> HIDE DEF R
<1>5. RunningOf(db', goals') = Front(R)
  BY <1>0, <1>4 DEF Front
<1>6. Len(R) > View!Base
  BY <1>0, <1>4, ViewBaseIs
<1>7. View!Cut
  BY ONLY <1>4, <1>5, <1>6, ViewOnly DEF View!Cut, R
<1> QED BY <1>4, <1>7

(* What a goal that begins now is to run, is what it sees.                 *)
LEMMA DueIs ==
    ASSUME DbInv, ViewInv, NEW key \in Keys \cup {AnyKey}, NEW g, g.gen = db.nextRef, g.key = key
    PROVE  View!Only(StoreOf(db), {c \in View!ToSet(StoreOf(db)) : View!Answers(c, key)}) =
               Shown(db, TraceOf(db, Seen(db, g))[db.head])
<1> DEFINE S == Seen(db, g)
           U == Alive(db)
           T == {c \in View!ToSet(StoreOf(db)) : View!Answers(c, key)}
<1>0. Sound(db) /\ db \in Stores /\ Chained(db) /\ db.nextRef \in Nat /\ Dated(db) /\ db.head \in 0..Len(db.slots)
  BY BothInvs DEF Sound, StoreInv, Chained
<1>1. StoreOf(db) = Shown(db, Packet(db, U)) /\ Packet(db, U) = TraceOf(db, U)[db.head]
  BY PacketIsTrace DEF StoreOf, Live, Alive
<1>2. ToSet(StoreOf(db)) = {Entry(db, i) : i \in U}
  <2>1. ToSet(Shown(db, Packet(db, U))) = {Entry(db, i) : i \in U \cap Slots(db)}
    BY <1>0, ShownSet
  <2>2. U \cap Slots(db) = U
    BY DEF Alive
  <2> QED BY <1>1, <2>1, <2>2
<1>3. \A i \in Slots(db) : View!Answers(Entry(db, i), key) <=> ~Rejects(db, i, key)
  BY DEF View!Answers, Entry, Rejects
<1>4. \A i \in Slots(db) : i \in S <=> i \in U /\ ~Rejects(db, i, key)
  <2> SUFFICES ASSUME NEW i \in Slots(db) PROVE Visible(db.slots[i], g.gen) <=> ~Erased(db, i)
    BY DEF Seen, Alive
  <2>1. db.slots[i].ref < db.nextRef /\ db.slots[i].erased < db.nextRef /\ db.slots[i].erased \in Nat
    BY <1>0, SlotIs DEF Dated
  <2> QED BY <1>0, <2>1 DEF Visible, Erased
<1>5. Takes(db, T, U, S)
  <2>1. \A i \in Slots(db) : i \in S => i \in U
    BY <1>4
  <2>2. ASSUME NEW i \in Slots(db), i \in U PROVE Entry(db, i) \in T <=> i \in S
    <3>1. Entry(db, i) \in View!ToSet(StoreOf(db))
      BY <1>2, <2>2, ViewOnly
    <3> QED BY <1>3, <1>4, <2>2, <3>1
  <2> HIDE DEF S, U, T
  <2> QED BY <2>1, <2>2 DEF Takes
<1>6. Only(Shown(db, TraceOf(db, U)[db.head]), T) = Shown(db, TraceOf(db, S)[db.head])
  <2> HIDE DEF S, U, T
  <2> QED BY <1>0, <1>5, ShownOnly
<1> QED BY <1>1, <1>6, ViewOnly

(* A goal that starts at its first clause is one the view calls.           *)
LEMMA CallStep ==
    ASSUME DbInv, ViewInv, DbInv', NEW key \in Keys \cup {AnyKey}, NEW g, Plain(g), g.gen = db.nextRef, g.key = key,
           g.at = First(db, Seen(db, g), db.head), Recoded(db, db'), txs' = txs,
           goals' = IF g.at = None THEN goals ELSE Append(goals, g)
    PROVE  ViewInv' /\ View!Call(key)
<1> DEFINE S == Seen(db, g)
           n == Len(goals)
           R == RunningOf(db, goals)
           R2 == RunningOf(db', goals')
           due == Shown(db, TraceOf(db, S)[db.head])
<1>0. /\ Sound(db) /\ db \in Stores /\ Chained(db) /\ db.nextRef \in Nat /\ db.head \in 0..Len(db.slots)
      /\ Base \in Nat /\ Len(goals) \in Nat /\ Base <= Len(goals) /\ GoalStack(goals)
  BY BothInvs, BaseIs DEF Sound, Chained
<1>1. /\ g.at \in 0..Len(db.slots) /\ (g.at # None => g.at \in S)
      /\ TraceOf(db, S)[g.at] = TraceOf(db, S)[db.head]
      /\ TraceOf(db, S)[None] = <<>>
  <2>1. g.at \in 0..Len(db.slots) /\ TraceOf(db, S)[g.at] = TraceOf(db, S)[db.head]
        /\ (g.at # None => g.at \in S \cap Slots(db))
    BY <1>0, FirstIs
  <2> QED BY <1>0, <2>1, TraceIs
<1>2. View!Only(StoreOf(db), {c \in View!ToSet(StoreOf(db)) : View!Answers(c, key)}) = due
  BY DueIs
<1>3. /\ Len(goals') = (IF g.at = None THEN n ELSE n + 1)
      /\ \A k \in 1..n : goals'[k] = goals[k]
      /\ g.at # None => goals'[n + 1] = g
  <2>1. PICK V : goals \in Seq(GoalRecs(V))
    BY <1>0 DEF GoalStack
  <2>2. CASE g.at = None
    BY <2>1, <2>2
  <2>3. CASE g.at # None
    BY <2>1, <2>3
  <2> QED BY <2>2, <2>3
<1>4. Keeps(n)
  <2>1. \A k \in n + 1..Len(goals') : Sees(db, goals'[k]) /\ goals'[k].gen <= db.nextRef
    <3> SUFFICES ASSUME NEW k \in n + 1..Len(goals') PROVE Sees(db, goals'[k]) /\ goals'[k].gen <= db.nextRef
      OBVIOUS
    <3>1. g.at # None /\ k = n + 1
      BY <1>0, <1>3
    <3>2. g.at \in Seen(db, g)
      BY ONLY <1>1, <3>1
    <3>3. Sees(db, g)
      BY ONLY <3>2, Plain(g) DEF Sees, Plain
    <3>4. goals'[k] = g
      BY ONLY <1>3, <3>1
    <3> QED BY ONLY <1>0, <3>3, <3>4, g.gen = db.nextRef
  <2>2. n \in Base..Len(goals) /\ Len(goals') >= n
    BY <1>0, <1>3
  <2> QED BY <1>3, <2>1, <2>2 DEF Keeps
<1>5. /\ ViewInv' /\ StoreOf(db') = StoreOf(db) /\ SavedOf(db', txs') = SavedOf(db, txs)
      /\ R \in Seq(Seq(Entries)) /\ Len(R) = n
      /\ R2 \in Seq(Seq(Entries)) /\ Len(R2) = Len(goals')
      /\ \A k \in 1..n : R2[k] = R[k]
      /\ \A k \in 1..Len(goals') : R2[k] = Shown(db, Remaining(db, goals'[k]))
  BY <1>4, KeepsStep
<1>6. R2 = IF due = <<>> THEN R ELSE Append(R, due)
  <2>1. CASE g.at = None
    <3>1. TraceOf(db, S)[db.head] = <<>>
      BY <1>1, <2>1
    <3>2. due = <<>>
      BY <3>1 DEF Shown
    <3>3. Len(R) \in Nat /\ Len(R2) = Len(R) /\ \A k \in 1..Len(R) : R2[k] = R[k]
      BY ONLY <1>0, <1>3, <1>5, <2>1
    <3>4. R \in Seq(Seq(Entries)) /\ R2 \in Seq(Seq(Entries))
      BY ONLY <1>5
    <3> HIDE DEF due, R, R2
    <3>5. R2 = R
      BY ONLY <3>3, <3>4, SeqEqual
    <3> QED BY ONLY <3>2, <3>5
  <2>2. CASE g.at # None
    <3>0. g.at \in Seen(db, g) /\ g.at \in S \cap Slots(db) /\ g.at \in Slots(db)
      <4>1. g.at \in Seen(db, g)
        BY ONLY <1>1, <2>2
      <4> QED BY ONLY <4>1 DEF Seen
    <3>1. Remaining(db, g) = TraceOf(db, S)[g.at] /\ Remaining(db, g) = <<g.at>> \o TraceOf(db, S)[db.slots[g.at].next]
      BY ONLY <1>0, <3>0, Plain(g), RemainingAt
    <3>2. due = Shown(db, Remaining(db, g))
      BY <1>1, <3>1
    <3>3. TraceOf(db, S)[db.head] \in Seq(S \cap Slots(db))
      BY <1>0, TraceIs
    <3>4. TraceOf(db, S)[db.head] \in Seq(Slots(db))
      BY <3>3
    <3>5. Len(TraceOf(db, S)[db.head]) # 0
      <4>1. db.slots[g.at].next \in 0..Len(db.slots)
        BY ONLY <1>0, <3>0, ChainIs
      <4>2. TraceOf(db, S)[db.slots[g.at].next] \in Seq(S \cap Slots(db)) /\ g.at \in S \cap Slots(db)
        BY ONLY <1>0, <3>0, <4>1, TraceIs
      <4> HIDE DEF S
      <4>3. Len(<<g.at>> \o TraceOf(db, S)[db.slots[g.at].next]) # 0
        BY <4>2
      <4> QED BY <1>1, <3>1, <4>3
    <3>6. due \in Seq(Entries) /\ Len(due) # 0
      BY <1>0, <3>4, <3>5, ShownIs
    <3> HIDE DEF due, R, R2
    <3>7. R2[n + 1] = due
      <4>1. n + 1 \in 1..Len(goals') /\ goals'[n + 1] = g
        BY <1>0, <1>3, <2>2
      <4> QED BY ONLY <1>5, <3>2, <4>1
    <3>8. Append(R, due) \in Seq(Seq(Entries)) /\ Len(Append(R, due)) = n + 1
          /\ Append(R, due)[n + 1] = due /\ \A k \in 1..n : Append(R, due)[k] = R[k]
      BY <1>0, <1>5, <3>6
    <3>9. \A k \in 1..n + 1 : R2[k] = Append(R, due)[k]
      BY <1>0, <1>5, <3>7, <3>8
    <3>10. R2 = Append(R, due)
      BY <1>0, <1>3, <1>5, <2>2, <3>8, <3>9
    <3>11. due # <<>>
      BY <3>6
    <3> QED BY <3>10, <3>11
  <2> QED BY <2>1, <2>2
<1>7. View!Call(key)
  <2> HIDE DEF due
  <2> QED BY ONLY <1>2, <1>5, <1>6 DEF View!Call, R, R2
<1> QED BY <1>5, <1>7

(* A goal that walks begins at the first clause it sees. *)
LEMMA WalkFirst ==
    ASSUME NEW d, Sound(d), NEW f, Plain(f)
    PROVE  Stop(d, f, CandFirst(d, f.key)) = First(d, Seen(d, f), d.head)
<1> DEFINE U == Answering(d, f.key)
           V == Seen(d, f)
<1>1. d \in Stores /\ Chained(d) /\ d.head \in 0..Len(d.slots) /\ f.key \in Keys \cup {AnyKey}
  BY DEF Sound, Chained, Plain
<1>2. CandFirst(d, f.key) = First(d, U, d.head)
  BY <1>1, CandFirstIs
<1>3. First(d, U, d.head) \in U \cup {None}
  <2> HIDE DEF U
  <2> QED BY <1>1, FirstIs
<1>4. Stop(d, f, First(d, U, d.head)) = First(d, V, First(d, U, d.head))
  BY <1>3, StopAtIs
<1>5. V \subseteq U
  BY DEF Seen, Answering
<1> HIDE DEF U, V
<1>6. First(d, V, First(d, U, d.head)) = First(d, V, d.head)
  BY <1>1, <1>5, FirstFirst
<1> QED BY <1>2, <1>4, <1>6 DEF V

(* So does one that enters compiled code. *)
LEMMA EntersFirst ==
    ASSUME NEW d, Sound(d), StoreInv(d), NEW f, Plain(f), d.way \notin {"none", "absent"},
           f.code = (d.way = "code")
    PROVE  EntersAt(d, f) = First(d, Seen(d, f), d.head)
<1> DEFINE V == Seen(d, f)
<1>1. d \in Stores /\ Chained(d) /\ d.head \in 0..Len(d.slots)
  BY DEF Sound, Chained
<1>2. CASE d.way = "code"
  <2>1. f.code /\ f.key = AnyKey /\ d.entry = d.head /\ d.head \in Slots(d)
    BY <1>1, <1>2, StoreIs DEF Plain, StoreInv, EntersAtHead
  <2>2. EntersAt(d, f) = IF Visible(d.slots[d.head], f.gen) THEN d.head ELSE Stop(d, f, d.head)
    BY <1>2, <2>1 DEF EntersAt
  <2>3. d.head \in Answering(d, f.key)
    BY <2>1 DEF Answering, Rejects
  <2>4. Stop(d, f, d.head) = First(d, V, d.head)
    BY <2>3, StopAtIs
  <2>5. CASE Visible(d.slots[d.head], f.gen)
    <3>1. d.head \in V
      BY <2>1, <2>5 DEF Seen, Rejects
    <3> HIDE DEF V
    <3>2. First(d, V, d.head) = d.head
      BY ONLY <1>1, <2>1, <3>1, FirstIs
    <3> QED BY <2>2, <2>5, <3>2 DEF V
  <2> QED BY <2>2, <2>4, <2>5
<1>3. CASE d.way # "code"
  <2>1. EntersAt(d, f) = Stop(d, f, CandFirst(d, f.key))
    BY <1>3 DEF EntersAt
  <2> QED BY <2>1, WalkFirst
<1> QED BY <1>2, <1>3

(* A call of the predicate is a call of the view, or finds no way in.      *)
LEMMA CallViews ==
    ASSUME DbInv, ViewInv, NEW key \in Keys \cup {AnyKey}, Call(key)
    PROVE  ViewInv' /\ ((\E k \in Keys \cup {AnyKey} : View!Call(k)) \/ UNCHANGED <<db, goals, txs>>)
<1> DEFINE f == Fresh(db, key)
           at == EntersAt(db, f)
           g == [f EXCEPT !.at = at]
<1>0. StoreInv(db) /\ db \in Stores /\ Sound(db) /\ db.nextRef \in Nat
  BY BothInvs
<1>1. /\ f.gen = db.nextRef /\ f.code = (db.way = "code") /\ f.key \in Keys \cup {AnyKey}
      /\ (f.code => f.key = AnyKey) /\ f \in GoalRecs({None})
  BY <1>0 DEF Fresh, GoalRecs
<1> HIDE DEF f
<1>2. g.gen = db.nextRef /\ g.code = f.code /\ g.key = f.key /\ g.at = at /\ Plain(g) /\ Plain(f)
  BY <1>1 DEF GoalRecs, Plain
<1>3. g = Called(db, key)
  BY DEF Called, f
<1> HIDE DEF g
<1>4. /\ db' = IF g.code THEN Ensure(db, g.at) ELSE db
      /\ goals' = IF g.at = None THEN goals ELSE Append(goals, g)
      /\ txs' = txs
  BY <1>3 DEF Call
<1>5. CASE db.way \in {"none", "absent"}
  <2>1. at = None /\ g.code # TRUE
    BY <1>1, <1>2, <1>5 DEF EntersAt
  <2>2. db' = db /\ goals' = goals /\ txs' = txs
    BY <1>2, <1>4, <2>1
  <2> QED BY <2>2 DEF ViewInv
<1>6. CASE db.way \notin {"none", "absent"}
  <2>1. at = First(db, Seen(db, f), db.head)
    BY <1>0, <1>1, <1>2, <1>6, EntersFirst
  <2> HIDE DEF at
  <2>2. Seen(db, f) = Seen(db, g)
    BY <1>1, <1>2 DEF Seen
  <2>3. g.at = First(db, Seen(db, g), db.head) /\ g.at \in 0..Len(db.slots)
    <3>1. db.head \in 0..Len(db.slots) /\ Chained(db)
      BY <1>0 DEF Sound, Chained
    <3>2. First(db, Seen(db, g), db.head) \in 0..Len(db.slots)
      BY ONLY <1>0, <3>1, FirstIs
    <3> QED BY ONLY <1>2, <2>1, <2>2, <3>2
  <2>4. Recoded(db, db')
    <3>1. CASE g.code
      <4>1. db.mode = "code"
        BY <1>0, <1>1, <1>2, <3>1 DEF StoreInv, EntersAtHead
      <4> QED BY <1>0, <1>4, <2>3, <3>1, <4>1, EnsureKeeps
    <3>2. CASE ~g.code
      BY <1>0, <1>4, <3>2, RecodedSelf
    <3> QED BY <3>1, <3>2
  <2>5. DbInv'
    BY CallKeeps
  <2>6. ViewInv' /\ View!Call(f.key)
    BY ONLY DbInv, ViewInv, <1>1, <1>2, <1>4, <2>3, <2>4, <2>5, CallStep
  <2> QED BY <1>1, <2>6
<1> QED BY <1>5, <1>6

(* clause/2 and retract/1 start as calls of the view do.                   *)
LEMMA CallWalkViews ==
    ASSUME DbInv, ViewInv, NEW key \in Keys \cup {AnyKey}, CallWalk(key)
    PROVE  ViewInv' /\ View!Call(key)
<1> DEFINE f == [key |-> key, gen |-> db.nextRef, code |-> FALSE, at |-> None]
           at == Stop(db, f, CandFirst(db, key))
           g == [f EXCEPT !.at = at]
<1>0. db \in Stores /\ Sound(db) /\ db.nextRef \in Nat
  BY BothInvs
<1>1. /\ goals' = IF at = None THEN goals ELSE Append(goals, [f EXCEPT !.at = at])
      /\ db' = db /\ txs' = txs
  BY DEF CallWalk
<1>2. Plain(f) /\ f.key = key
  BY DEF Plain
<1>3. at = First(db, Seen(db, f), db.head)
  <2> HIDE DEF f
  <2> QED BY <1>0, <1>2, WalkFirst
<1> HIDE DEF at
<1>4. g.gen = db.nextRef /\ g.code = FALSE /\ g.key = key /\ g.at = at /\ Plain(g)
  BY DEF Plain
<1>5. Seen(db, f) = Seen(db, g)
  BY DEF Seen
<1> HIDE DEF f, g
<1>6. goals' = IF g.at = None THEN goals ELSE Append(goals, g)
  BY <1>1, <1>4 DEF g
<1>7. Recoded(db, db') /\ DbInv'
  BY <1>0, <1>1, RecodedSelf, CallWalkKeeps
<1> QED BY ONLY DbInv, ViewInv, key \in Keys \cup {AnyKey}, <1>1, <1>3, <1>4, <1>5, <1>6, <1>7, CallStep

(* What is left to a goal, and what is left to it once it goes on.         *)
LEMMA GoesOn ==
    ASSUME NEW d, Sound(d), NEW g, Plain(g), Sees(d, g), NEW h, Plain(h), h.gen = g.gen, h.key = g.key,
           h.at = Stop(d, g, StepOf(d, g, g.at))
    PROVE  LET R == Shown(d, Remaining(d, g))
           IN  /\ h.at \in 0..Len(d.slots) /\ R \in Seq(Entries)
               /\ h.at = None => Len(R) = 1
               /\ h.at # None => /\ Len(R) # 1 /\ Sees(d, h)
                                 /\ h.at \in Seen(d, h)
                                 /\ Tail(R) = Shown(d, Remaining(d, h)) /\ Tail(R) \in Seq(Entries)
<1> DEFINE V == Seen(d, g)
           R == Shown(d, Remaining(d, g))
           next == d.slots[g.at].next
           rest == TraceOf(d, V)[next]
           x == Entry(d, g.at)
<1>0. /\ d \in Stores /\ Chained(d) /\ g.at \in V /\ g.at \in Slots(d) /\ next \in 0..Len(d.slots)
      /\ V \subseteq Slots(d)
  <2>1. d \in Stores /\ Chained(d) /\ g.at \in V /\ g.at \in Slots(d) /\ V \subseteq Slots(d)
    BY DEF Sound, Sees, Seen
  <2> QED BY ONLY <2>1, ChainIs
<1>1. Seen(d, h) = V
  BY DEF Seen
<1>2. h.at = First(d, V, next)
  BY <1>0, NextStopIs
<1>3. Remaining(d, g) = <<g.at>> \o rest
  BY <1>0, RemainingAt
<1> HIDE DEF V, next
<1>4. rest \in Seq(Slots(d)) /\ <<g.at>> \in Seq(Slots(d))
  <2>1. rest \in Seq(V \cap Slots(d))
    BY <1>0, TraceIs
  <2> QED BY <1>0, <2>1
<1>5. /\ h.at \in 0..Len(d.slots) /\ (h.at # None => h.at \in V)
      /\ TraceOf(d, V)[h.at] = rest /\ TraceOf(d, V)[None] = <<>>
  <2>1. /\ h.at \in 0..Len(d.slots) /\ (h.at # None => h.at \in V \cap Slots(d))
        /\ TraceOf(d, V)[h.at] = TraceOf(d, V)[next]
    BY ONLY <1>0, <1>2, FirstIs
  <2> QED BY <1>0, <2>1, TraceIs
<1> HIDE DEF rest
<1>6. /\ R = <<x>> \o Shown(d, rest) /\ x \in Entries
      /\ Shown(d, rest) \in Seq(Entries) /\ Len(Shown(d, rest)) = Len(rest) /\ Len(rest) \in Nat
  <2>1. Shown(d, <<g.at>>) = <<x>> /\ x \in Entries
    BY <1>0, ShownOne
  <2>2. Shown(d, <<g.at>> \o rest) = Shown(d, <<g.at>>) \o Shown(d, rest)
    BY <1>0, <1>4, ShownJoin
  <2> QED BY <1>0, <1>3, <1>4, <2>1, <2>2, ShownIs
<1> HIDE DEF R, x
<1>7. R \in Seq(Entries) /\ Len(R) = Len(rest) + 1 /\ Tail(R) = Shown(d, rest)
      /\ Tail(R) \in Seq(Entries)
  BY <1>6
<1>8. CASE h.at = None
  <2>1. rest = <<>>
    BY <1>5, <1>8
  <2>2. Len(R) = 1
    BY <1>7, <2>1
  <2> QED BY <1>5, <1>7, <1>8, <2>2 DEF R
<1>9. CASE h.at # None
  <2>1. h.at \in Seen(d, h) /\ h.at \in Slots(d)
    BY <1>0, <1>1, <1>5, <1>9
  <2>2. Remaining(d, h) = TraceOf(d, V)[h.at] /\ Remaining(d, h) = <<h.at>> \o TraceOf(d, V)[d.slots[h.at].next]
    BY ONLY <1>1, <2>1, Sound(d), Plain(h), RemainingAt
  <2>3. Remaining(d, h) = rest /\ Len(rest) # 0
    <3>1. d.slots[h.at].next \in 0..Len(d.slots)
      BY ONLY <1>0, <2>1, ChainIs
    <3>2. TraceOf(d, V)[d.slots[h.at].next] \in Seq(V \cap Slots(d))
      BY ONLY <1>0, <3>1, TraceIs
    <3>3. <<h.at>> \o TraceOf(d, V)[d.slots[h.at].next] # <<>>
      <4>1. h.at \in V \cap Slots(d)
        BY <1>1, <2>1
      <4> QED BY ONLY <3>2, <4>1
    <3>4. rest # <<>>
      BY ONLY <1>5, <2>2, <3>3
    <3>5. Len(rest) # 0
      BY ONLY <1>4, <3>4
    <3> QED BY ONLY <1>5, <2>2, <3>5
  <2>4. Sees(d, h)
    BY <2>1 DEF Sees, Plain
  <2> QED BY <1>5, <1>7, <1>9, <2>1, <2>3, <2>4 DEF R
<1> QED BY <1>8, <1>9

(* The next answer, or none, is the view's Redo.                           *)
LEMMA RedoViews ==
    ASSUME DbInv, ViewInv, Redo
    PROVE  ViewInv' /\ View!Redo
<1> DEFINE l == Len(goals)
           g == goals[l]
           at == Stop(db, g, StepOf(db, g, g.at))
           h == [g EXCEPT !.at = at]
           gs == SubSeq(goals, 1, l - 1)
           R == RunningOf(db, goals)
           R2 == RunningOf(db', goals')
<1>0. /\ db \in Stores /\ Sound(db) /\ StoreInv(db) /\ db.nextRef \in Nat /\ l \in Nat /\ l > Base /\ Base \in Nat
      /\ l \in 1..l /\ l - 1 \in 0..l /\ GoalStack(goals) /\ GoalsSee(db, goals)
      /\ GoalsServed(db, goals, db.nextRef)
  BY BothInvs, BaseIs DEF DbInv, Redo
<1>1. /\ goals' = IF at = None THEN gs ELSE Append(gs, h)
      /\ db' = IF g.code THEN Ensure(db, at) ELSE db
      /\ txs' = txs
  BY DEF Redo, Front, Last
<1>2. /\ Plain(g) /\ Sees(db, g) /\ g.gen <= db.nextRef
      /\ g.code => db.mode = "code"
  <2>1. Plain(g) /\ Sees(db, g) /\ g.gen <= db.nextRef
    BY <1>0, GoalPlain
  <2>2. g.code => db.mode = "code"
    BY <1>0 DEF GoalsServed, GoalIsServed
  <2> QED BY <2>1, <2>2
<1>3. h.gen = g.gen /\ h.key = g.key /\ h.code = g.code /\ h.at = at
  <2>1. PICK S : g \in GoalRecs(S)
    BY <1>0, GoalIs
  <2> HIDE DEF g, at
  <2> QED BY <2>1 DEF GoalRecs
<1>4. /\ Len(gs) = l - 1 /\ \A k \in 1..l - 1 : gs[k] = goals[k]
      /\ Len(Append(gs, h)) = l /\ Append(gs, h)[l] = h /\ \A k \in 1..l - 1 : Append(gs, h)[k] = goals[k]
  <2>1. PICK S : goals \in Seq(GoalRecs(S))
    BY <1>0 DEF GoalStack
  <2>2. gs \in Seq(GoalRecs(S)) /\ Len(gs) = l - 1 /\ \A k \in 1..l - 1 : gs[k] = goals[k]
    <3> DEFINE m == l - 1
    <3>1. m \in 0..Len(goals)
      BY <1>0
    <3> HIDE DEF m
    <3>2. SubSeq(goals, 1, m) \in Seq(GoalRecs(S)) /\ Len(SubSeq(goals, 1, m)) = m
          /\ \A k \in 1..m : SubSeq(goals, 1, m)[k] = goals[k]
      BY ONLY <2>1, <3>1
    <3> QED BY <3>2 DEF m
  <2> HIDE DEF gs, h
  <2>3. Len(Append(gs, h)) = l /\ Append(gs, h)[l] = h /\ \A k \in 1..l - 1 : Append(gs, h)[k] = gs[k]
    <3> HIDE DEF l
    <3> QED BY <1>0, <2>2
  <2> QED BY <2>2, <2>3
<1> HIDE DEF at
<1>5. Plain(h) /\ h.at = Stop(db, g, StepOf(db, g, g.at))
  BY <1>2, <1>3 DEF Plain, at
<1> HIDE DEF h, g, gs
<1>6. LET S == Shown(db, Remaining(db, g))
      IN  /\ h.at \in 0..Len(db.slots) /\ S \in Seq(Entries)
          /\ h.at = None => Len(S) = 1
          /\ h.at # None => /\ Len(S) # 1 /\ Sees(db, h)
                            /\ h.at \in Seen(db, h)
                            /\ Tail(S) = Shown(db, Remaining(db, h)) /\ Tail(S) \in Seq(Entries)
  BY ONLY <1>0, <1>2, <1>3, <1>5, GoesOn
<1>7. Recoded(db, db')
  <2>1. CASE g.code
    BY <1>0, <1>1, <1>2, <1>3, <1>6, <2>1, EnsureKeeps
  <2>2. CASE ~g.code
    BY <1>0, <1>1, <2>2, RecodedSelf
  <2> QED BY <2>1, <2>2
<1>8. /\ Len(goals') = (IF at = None THEN l - 1 ELSE l)
      /\ \A k \in 1..l - 1 : goals'[k] = goals[k]
      /\ at # None => goals'[l] = h
  BY <1>1, <1>4
<1>9. Keeps(l - 1)
  <2>1. \A k \in (l - 1) + 1..Len(goals') : Sees(db, goals'[k]) /\ goals'[k].gen <= db.nextRef
    <3> SUFFICES ASSUME NEW k \in (l - 1) + 1..Len(goals') PROVE Sees(db, goals'[k]) /\ goals'[k].gen <= db.nextRef
      OBVIOUS
    <3>1. at # None /\ k = l
      BY <1>0, <1>8
    <3> QED BY <1>2, <1>3, <1>6, <1>8, <3>1
  <2>2. l - 1 \in Base..Len(goals) /\ Len(goals') >= l - 1
    BY <1>0, <1>8
  <2> QED BY <1>1, <1>7, <1>8, <2>1, <2>2 DEF Keeps
<1>10. DbInv'
  BY RedoKeeps
<1>11. /\ ViewInv' /\ StoreOf(db') = StoreOf(db) /\ SavedOf(db', txs') = SavedOf(db, txs)
       /\ R \in Seq(Seq(Entries)) /\ Len(R) = l
       /\ R2 \in Seq(Seq(Entries)) /\ Len(R2) = Len(goals')
       /\ \A k \in 1..l : R[k] = Shown(db, Remaining(db, goals[k]))
       /\ \A k \in 1..l - 1 : R2[k] = R[k]
       /\ \A k \in 1..Len(goals') : R2[k] = Shown(db, Remaining(db, goals'[k]))
  BY <1>9, <1>10, KeepsStep
<1>12. R[l] = Shown(db, Remaining(db, g))
  BY <1>0, <1>11 DEF g
<1> HIDE DEF R, R2, l
<1>13. R2 = IF Len(R[l]) = 1 THEN Front(R) ELSE Append(Front(R), Tail(R[l]))
  <2>0. Front(R) \in Seq(Seq(Entries)) /\ Len(Front(R)) = l - 1 /\ \A k \in 1..l - 1 : Front(R)[k] = R[k]
    <3>1. Front(R) = SubSeq(R, 1, l - 1)
      BY <1>11 DEF Front
    <3> QED BY <1>0, <1>11, <3>1
  <2>1. CASE at = None
    <3>1. Len(R[l]) = 1
      BY <1>3, <1>6, <1>12, <2>1
    <3>2. R2 = Front(R)
      BY <1>0, <1>8, <1>11, <2>0, <2>1
    <3> QED BY <3>1, <3>2
  <2>2. CASE at # None
    <3>1. Len(R[l]) # 1 /\ Tail(R[l]) = Shown(db, Remaining(db, h)) /\ Tail(R[l]) \in Seq(Entries)
      BY <1>3, <1>6, <1>12, <2>2
    <3>2. R2[l] = Tail(R[l])
      <4>1. l \in 1..Len(goals') /\ goals'[l] = h
        BY <1>0, <1>8, <2>2
      <4> QED BY ONLY <1>11, <3>1, <4>1
    <3> DEFINE F == Front(R)
               A == Append(F, Tail(R[l]))
               t == Tail(R[l])
    <3>a. t \in Seq(Entries)
      BY <3>1
    <3> HIDE DEF F, t
    <3>3. A \in Seq(Seq(Entries)) /\ Len(A) = l /\ A[l] = t /\ \A k \in 1..l - 1 : A[k] = F[k]
      <4> DEFINE W == Seq(Entries)
      <4>1. F \in Seq(W) /\ t \in W /\ Len(F) = l - 1
        BY <2>0, <3>a DEF F
      <4> HIDE DEF W
      <4>2. Append(F, t) \in Seq(W) /\ Len(Append(F, t)) = l /\ Append(F, t)[l] = t
            /\ \A k \in 1..l - 1 : Append(F, t)[k] = F[k]
        BY ONLY <1>0, <4>1
      <4> QED BY <4>2 DEF W, t
    <3> HIDE DEF A
    <3>4. \A k \in 1..l : R2[k] = A[k]
      <4>1. \A k \in 1..l - 1 : R2[k] = A[k]
        BY <1>11, <2>0, <3>3 DEF F
      <4>2. R2[l] = A[l]
        BY <3>2, <3>3 DEF t
      <4> QED BY <1>0, <4>1, <4>2
    <3>5. R2 = A
      BY <1>0, <1>8, <1>11, <2>2, <3>3, <3>4
    <3> QED BY <3>1, <3>5 DEF A, F, t
  <2> QED BY <2>1, <2>2
<1>14. Len(R) > View!Base
  BY <1>0, <1>11, ViewBaseIs DEF l
<1>15. View!Redo
  <2>1. View!Front(R) = Front(R) /\ View!Last(R) = R[l]
    BY <1>11, ViewOnly DEF Last
  <2> QED BY ONLY <1>11, <1>13, <1>14, <2>1 DEF View!Redo, R, R2
<1> QED BY <1>11, <1>15

-----------------------------------------------------------------------------
(* The beginning, and transactions. *)

(* An empty database is an empty view.                                     *)
LEMMA InitViews ==
    ASSUME Init
    PROVE  ViewInv /\ View!Init
<1>1. DbInv
  BY InitDb
<1>2. /\ db.slots = <<>> /\ db.head = None /\ db.tail = None /\ db.nextRef = 1 /\ db.ix = NoIx /\ db.ixOff = FALSE
      /\ goals = <<>> /\ txs = <<>>
  BY DEF Init
<1>3. Slots(db) = {}
  BY <1>2 DEF Slots
<1>4. ViewInv
  <2>1. Whole(db) /\ IxServes(db)
    BY <1>2, <1>3 DEF Whole, IxServes
  <2>2. GoalsSee(db, goals) /\ LogsCover(db, txs, goals) /\ LogsOrder(txs)
    BY <1>2 DEF GoalsSee, LogsCover, LogsOrder
  <2> QED BY <1>2, <2>1, <2>2 DEF ViewInv
<1>5. StoreOf(db) = <<>>
  <2>1. db \in Stores /\ Chained(db)
    BY <1>1 DEF DbInv, StoreInv
  <2>2. \A S : Packet(db, S) = <<>>
    BY <1>2, <2>1, PacketIsTrace, TraceIs
  <2> QED BY <2>2 DEF StoreOf, Live, Shown
<1>6. RunningOf(db, goals) = <<>> /\ SavedOf(db, txs) = <<>>
  BY <1>2 DEF RunningOf, SavedOf
<1> QED BY <1>4, <1>5, <1>6 DEF View!Init

Saves == [store : Seq(Entries), goals : Nat]

(* The saved clauses and goals are a stack of such.                        *)
LEMMA SavedSeq ==
    ASSUME NEW d, Sound(d), NEW ts \in Seq(Txs)
    PROVE  /\ SavedOf(d, ts) \in Seq(Saves) /\ Len(SavedOf(d, ts)) = Len(ts) /\ Len(ts) \in Nat
           /\ \A m \in 1..Len(ts) :
                  SavedOf(d, ts)[m] = [store |-> Shown(d, Packet(d, LiveBefore(d, ts, m))), goals |-> ts[m].goals]
<1>1. ASSUME NEW m \in 1..Len(ts)
      PROVE  [store |-> Shown(d, Packet(d, LiveBefore(d, ts, m))), goals |-> ts[m].goals] \in Saves
  <2>1. d \in Stores /\ Chained(d)
    BY DEF Sound
  <2>2. Packet(d, LiveBefore(d, ts, m)) \in Seq(Slots(d))
    BY <2>1, PacketSeq
  <2>3. Shown(d, Packet(d, LiveBefore(d, ts, m))) \in Seq(Entries)
    BY <2>1, <2>2, ShownIs
  <2>4. ts[m].goals \in Nat
    BY TxIs
  <2> QED BY <2>3, <2>4 DEF Saves
<1>2. SavedOf(d, ts) = [m \in 1..Len(ts) |-> [store |-> Shown(d, Packet(d, LiveBefore(d, ts, m))), goals |-> ts[m].goals]]
  BY DEF SavedOf
<1>3. Len(ts) \in Nat
  OBVIOUS
<1> QED BY <1>1, <1>2, <1>3

(* Opening a transaction saves what there is.                              *)
LEMMA OpenViews ==
    ASSUME DbInv, ViewInv, Open
    PROVE  ViewInv' /\ View!Open
<1> DEFINE tx == [log |-> <<>>, goals |-> Len(goals)]
           l == Len(txs)
           S == SavedOf(db, txs)
           S2 == SavedOf(db, txs')
           new == [store |-> StoreOf(db), goals |-> Len(RunningOf(db, goals))]
<1>0. /\ txs \in Seq(Txs) /\ Sound(db) /\ db \in Stores /\ Len(goals) \in Nat /\ l \in Nat /\ GoalStack(goals)
      /\ LogsCover(db, txs, goals) /\ LogsOrder(txs)
  BY BothInvs
<1>1. txs' = Append(txs, tx) /\ db' = db /\ goals' = goals
  BY DEF Open
<1>2. tx \in Txs /\ tx.log = <<>> /\ tx.goals = Len(goals) /\ ToSet(tx.log) = {}
  <2>1. <<>> \in Seq(Recs)
    OBVIOUS
  <2> QED BY <1>0, <2>1 DEF Txs, ToSet
<1> HIDE DEF tx
<1>3. /\ txs' \in Seq(Txs) /\ Len(txs') = l + 1 /\ txs'[l + 1] = tx
      /\ \A k \in 1..l : txs'[k] = txs[k] /\ k \in 1..l + 1
      /\ \A k \in 1..l + 1 : k = l + 1 \/ k \in 1..l
  BY <1>0, <1>1, <1>2
<1>4. LogsCover(db, txs', goals) /\ LogsOrder(txs')
  <2>1. LogsCover(db, txs', goals)
    <3> SUFFICES ASSUME NEW m \in 1..l + 1, NEW r \in ToSet(txs'[m].log), NEW n \in 1..txs'[m].goals
                 PROVE  Covers(db, r, goals[n].gen)
      BY <1>3 DEF LogsCover
    <3>1. m \in 1..l /\ txs'[m] = txs[m]
      BY <1>2, <1>3
    <3> QED BY <1>0, <3>1 DEF LogsCover
  <2>2. LogsOrder(txs')
    <3> SUFFICES ASSUME NEW m \in 1..l + 1
                 PROVE  /\ Ordered(txs'[m].log)
                        /\ \A r \in ToSet(txs'[m].log) : r.kind # "erase" =>
                               \A m2 \in 1..m - 1 : \A s \in ToSet(txs'[m2].log) : s.slot # r.slot
      BY <1>3 DEF LogsOrder
    <3>1. CASE m = l + 1
      BY <1>2, <1>3, <3>1 DEF Ordered
    <3>2. CASE m \in 1..l
      <4>1. \A m2 \in 1..m - 1 : txs'[m2] = txs[m2]
        BY <1>0, <1>3, <3>2
      <4>2. /\ Ordered(txs[m].log)
            /\ \A r \in ToSet(txs[m].log) : r.kind # "erase" =>
                   \A m2 \in 1..m - 1 : \A s \in ToSet(txs[m2].log) : s.slot # r.slot
        BY <1>0, <3>2 DEF LogsOrder
      <4> QED BY <1>3, <3>2, <4>1, <4>2
    <3> QED BY <1>3, <3>1, <3>2
  <2> QED BY <2>1, <2>2
<1>5. ASSUME NEW k \in 1..l + 1
      PROVE  RecsFrom(txs', k) = IF k = l + 1 THEN {} ELSE RecsFrom(txs, k)
  <2>1. CASE k = l + 1
    <3>1. \A m \in k..l + 1 : ToSet(txs'[m].log) = {}
      BY <1>0, <1>2, <1>3, <2>1
    <3> QED BY <1>3, <2>1, <3>1 DEF RecsFrom
  <2>2. CASE k # l + 1
    <3>1. ASSUME NEW m \in k..l PROVE m \in 1..l /\ ToSet(txs'[m].log) = ToSet(txs[m].log)
      <4>1. m \in 1..l
        BY <1>0
      <4> QED BY <1>3, <4>1
    <3>2. ToSet(txs'[l + 1].log) = {}
      BY <1>2, <1>3
    <3>3. k..l + 1 = (k..l) \cup {l + 1}
      BY <1>0
    <3>4. UNION {ToSet(txs'[m].log) : m \in k..l + 1} = UNION {ToSet(txs[m].log) : m \in k..l}
      <4> DEFINE F(m) == ToSet(txs'[m].log)
                 G(m) == ToSet(txs[m].log)
      <4>1. \A m \in k..l : F(m) = G(m)
        BY <3>1
      <4>2. F(l + 1) = {}
        BY <3>2
      <4> HIDE DEF F, G
      <4>3. UNION {F(m) : m \in k..l + 1} = UNION {G(m) : m \in k..l}
        BY ONLY <3>3, <4>1, <4>2
      <4> QED BY <4>3 DEF F, G
    <3> QED BY ONLY <1>3, <2>2, <3>4 DEF RecsFrom, l
  <2> QED BY <2>1, <2>2
<1>6. /\ S \in Seq(Saves) /\ Len(S) = l /\ S2 \in Seq(Saves) /\ Len(S2) = l + 1
      /\ \A k \in 1..l : S[k] = [store |-> Shown(db, Packet(db, LiveBefore(db, txs, k))), goals |-> txs[k].goals]
      /\ \A k \in 1..l + 1 : S2[k] = [store |-> Shown(db, Packet(db, LiveBefore(db, txs', k))), goals |-> txs'[k].goals]
  BY <1>0, <1>3, SavedSeq
<1>7. ASSUME NEW k \in 1..l PROVE S2[k] = S[k]
  <2>1. k \in 1..l + 1 /\ k # l + 1
    BY <1>0
  <2>2. LiveBefore(db, txs', k) = LiveBefore(db, txs, k)
    BY <1>5, <2>1, LiveBeforeIs
  <2> QED BY <1>3, <1>6, <2>1, <2>2
<1>8. S2[l + 1] = new
  <2>1. l + 1 \in 1..l + 1
    BY <1>0
  <2>2. RecsFrom(txs', l + 1) = {}
    BY <1>5, <2>1
  <2>3. LiveBefore(db, txs', l + 1) = Alive(db)
    BY <2>2, LiveBeforeIs DEF Alive
  <2>4. Shown(db, Packet(db, LiveBefore(db, txs', l + 1))) = StoreOf(db)
    BY <2>3 DEF StoreOf, Live, Alive
  <2>5. Len(RunningOf(db, goals)) = Len(goals)
    BY <1>0, RunningIs
  <2> QED BY <1>2, <1>3, <1>6, <2>1, <2>4, <2>5
<1> HIDE DEF S, S2, new
<1>9. S2 = Append(S, new)
  <2>1. new \in Saves
    <3>1. l + 1 \in 1..l + 1
      BY <1>0
    <3> QED BY <1>6, <1>8, <3>1
  <2>2. /\ Append(S, new) \in Seq(Saves) /\ Len(Append(S, new)) = l + 1 /\ Append(S, new)[l + 1] = new
        /\ \A k \in 1..l : Append(S, new)[k] = S[k]
    BY <1>0, <1>6, <2>1
  <2>3. \A k \in 1..l + 1 : S2[k] = Append(S, new)[k]
    BY <1>3, <1>7, <1>8, <2>2
  <2> QED BY <1>0, <1>6, <2>2, <2>3
<1>10. ViewInv'
  BY <1>1, <1>4 DEF ViewInv
<1>11. View!Open
  <2>1. StoreOf(db') = StoreOf(db) /\ RunningOf(db', goals') = RunningOf(db, goals) /\ SavedOf(db', txs') = S2
    BY <1>1 DEF S2
  <2> QED BY ONLY <1>9, <2>1 DEF View!Open, S, S2, new
<1> QED BY <1>10, <1>11

(* The goals of a transaction that ends are left, the others cannot tell   *)
(* what changed.                                                           *)
LEMMA Leaving ==
    ASSUME DbInv, ViewInv, goals' = SubSeq(goals, 1, Base), Kin(db, db'), Later(db, db'),
           \A n \in 1..Base : \A i \in Slots(db) : StaysAt(db, db', i, goals[n].gen)
    PROVE  /\ Len(goals') = Base /\ \A n \in 1..Base : goals'[n] = goals[n] /\ n \in 1..Len(goals)
           /\ GoalsSee(db', goals') /\ Sound(db') /\ db'.nextRef > 0
           /\ RunningOf(db', goals') = SubSeq(RunningOf(db, goals), 1, View!Base)
<1> DEFINE R == RunningOf(db, goals)
           Q == RunningOf(db, goals')
<1>0. /\ Sound(db) /\ db \in Stores /\ db.nextRef \in Nat /\ db.nextRef > 0
      /\ GoalStack(goals) /\ GoalsSee(db, goals) /\ Len(goals) \in Nat
      /\ Base \in Nat /\ Base <= Len(goals)
  BY BothInvs, BaseIs DEF ViewInv
<1>1. /\ GoalStack(goals') /\ Len(goals') = Base
      /\ \A n \in 1..Base : goals'[n] = goals[n] /\ n \in 1..Len(goals)
  <2>1. Base \in 0..Len(goals)
    BY <1>0
  <2>2. GoalStack(goals') /\ Len(goals') = Base
    BY <1>0, <2>1, GoalsCut
  <2>3. PICK S : goals \in Seq(GoalRecs(S))
    BY <1>0 DEF GoalStack
  <2>4. \A n \in 1..Base : SubSeq(goals, 1, Base)[n] = goals[n]
    BY ONLY <2>1, <2>3
  <2> QED BY <1>0, <2>2, <2>4
<1>2. GoalsSee(db, goals')
  BY <1>0, <1>1 DEF GoalsSee
<1>3. GoalsStay(db, db', goals')
  BY <1>1 DEF GoalsStay
<1>4. GoalsSee(db', goals') /\ RunningOf(db', goals') = Q
  BY <1>0, <1>1, <1>2, <1>3, KinGoals
<1>5. Sound(db') /\ db'.nextRef > 0
  BY <1>0, KinSound DEF Later
<1>6. Q = SubSeq(R, 1, Base)
  <2>1. /\ R \in Seq(Seq(Entries)) /\ Len(R) = Len(goals)
        /\ \A n \in 1..Len(goals) : R[n] = Shown(db, Remaining(db, goals[n]))
    BY <1>0, RunningSeq
  <2>2. /\ Q \in Seq(Seq(Entries)) /\ Len(Q) = Base
        /\ \A n \in 1..Base : Q[n] = Shown(db, Remaining(db, goals'[n]))
    BY <1>0, <1>1, <1>2, RunningSeq
  <2> HIDE DEF R, Q
  <2>3. SubSeq(R, 1, Base) \in Seq(Seq(Entries)) /\ Len(SubSeq(R, 1, Base)) = Base
        /\ \A n \in 1..Base : SubSeq(R, 1, Base)[n] = R[n]
    <3> DEFINE W == Seq(Entries)
    <3>1. R \in Seq(W) /\ Base \in 0..Len(R)
      BY <1>0, <2>1
    <3> HIDE DEF W
    <3>2. SubSeq(R, 1, Base) \in Seq(W) /\ Len(SubSeq(R, 1, Base)) = Base
          /\ \A n \in 1..Base : SubSeq(R, 1, Base)[n] = R[n]
      BY ONLY <3>1
    <3> QED BY <3>2 DEF W
  <2>4. \A n \in 1..Base : Q[n] = SubSeq(R, 1, Base)[n]
    BY <1>1, <2>1, <2>2, <2>3
  <2> QED BY <1>0, <2>2, <2>3, <2>4
<1> QED BY <1>0, <1>1, <1>4, <1>5, <1>6, ViewBaseIs

(* The transactions below the newest are saved as before. *)
LEMMA SavedFront ==
    ASSUME NEW d, Sound(d), NEW ts \in Seq(Txs), ts # <<>>, NEW e, NEW us, Len(us) = Len(ts) - 1,
           \A m \in 1..Len(ts) - 1 : us[m].goals = ts[m].goals,
           \A m \in 1..Len(ts) - 1 : Shown(e, Packet(e, LiveBefore(e, us, m))) = Shown(d, Packet(d, LiveBefore(d, ts, m)))
    PROVE  /\ SavedOf(d, ts) # <<>> /\ SavedOf(e, us) = View!Front(SavedOf(d, ts))
           /\ View!Last(SavedOf(d, ts)).store = Shown(d, Packet(d, LiveBefore(d, ts, Len(ts))))
<1> DEFINE l == Len(ts)
           S == SavedOf(d, ts)
<1>1. /\ S \in Seq(Saves) /\ Len(S) = l /\ l \in Nat /\ l # 0
      /\ \A m \in 1..l : S[m] = [store |-> Shown(d, Packet(d, LiveBefore(d, ts, m))), goals |-> ts[m].goals]
  <2>1. l \in Nat /\ l # 0
    OBVIOUS
  <2> QED BY <2>1, SavedSeq
<1>2. SavedOf(e, us) = [m \in 1..l - 1 |-> S[m]]
  <2>1. \A m \in 1..l - 1 : us[m].goals = ts[m].goals /\ m \in 1..Len(ts)
    BY <1>1
  <2> DEFINE n == l - 1
  <2>2. Len(us) = n /\ (\A m \in 1..n : us[m].goals = ts[m].goals /\ m \in 1..Len(ts))
        /\ \A m \in 1..n : Shown(e, Packet(e, LiveBefore(e, us, m))) = Shown(d, Packet(d, LiveBefore(d, ts, m)))
    BY <2>1
  <2> HIDE DEF n
  <2>3. SavedOf(e, us) = [m \in 1..n |-> SavedOf(d, ts)[m]]
    BY ONLY <2>2, SavedSame
  <2> QED BY <2>3 DEF n
<1> HIDE DEF S
<1>3. Front(S) = [m \in 1..l - 1 |-> S[m]]
  BY <1>1 DEF Front
<1>4. S # <<>> /\ Last(S) = S[l]
  BY <1>1 DEF Last
<1>5. Last(S).store = Shown(d, Packet(d, LiveBefore(d, ts, l)))
  <2>1. l \in 1..l
    BY <1>1
  <2>2. S[l] = [store |-> Shown(d, Packet(d, LiveBefore(d, ts, l))), goals |-> ts[l].goals]
    BY ONLY <1>1, <2>1
  <2> QED BY ONLY <1>4, <2>2
<1> QED BY <1>2, <1>3, <1>4, <1>5, ViewOnly DEF S

(* Committing closes a transaction of the view and keeps the clauses.      *)
LEMMA CommitViews ==
    ASSUME DbInv, ViewInv, Commit
    PROVE  ViewInv' /\ View!Close
<1> DEFINE l == Len(txs)
           log == txs[l].log
<1>0. /\ Sound(db) /\ db \in Stores /\ StoreInv(db) /\ db.nextRef \in Nat
      /\ txs \in Seq(Txs) /\ Nested(txs, goals) /\ LogsSpare(db, txs) /\ l \in Nat /\ l # 0 /\ l \in 1..l
      /\ LogsCover(db, txs, goals) /\ LogsOrder(txs) /\ Base = txs[l].goals /\ Base \in Nat
      /\ Last(txs) = txs[l] /\ log \in Seq(Recs) /\ txs # <<>>
      /\ goals' = SubSeq(goals, 1, Base)
      /\ \A m \in 1..l : txs[m].goals \in Nat /\ txs[m].goals <= Base
  <2>1. txs # <<>> /\ goals' = SubSeq(goals, 1, Base)
    BY DEF Commit
  <2> QED BY <2>1, BothInvs, BaseIs
<1>1. CASE l > 1
  <2> DEFINE n == l - 1
  <2>1. txs' = Append(SubSeq(txs, 1, l - 2), [txs[l - 1] EXCEPT !.log = Last(txs).log \o @]) /\ db' = db
    BY <1>1 DEF Commit
  <2>2. n \in 1..l /\ n + 1 = l /\ l - 2 = n - 1 /\ n \in Nat
    BY <1>0, <1>1
  <2> HIDE DEF n
  <2>3. txs' = Stacked(txs, n - 1, [txs[n] EXCEPT !.log = log \o @])
    BY <1>0, <2>1, <2>2 DEF Stacked, n
  <2> HIDE DEF log
  <2>4. Rejoined(txs, txs', n, log)
    BY <1>0, <2>2, <2>3, RejoinedIs
  <2>5. /\ Len(goals') = Base /\ \A k \in 1..Base : goals'[k] = goals[k] /\ k \in 1..Len(goals)
        /\ GoalsSee(db', goals') /\ Sound(db') /\ db'.nextRef > 0
        /\ RunningOf(db', goals') = SubSeq(RunningOf(db, goals), 1, View!Base)
    <3>1. Kin(db, db') /\ Later(db, db')
      BY <1>0, <2>1 DEF Kin, Later
    <3>2. \A k \in 1..Base : \A i \in Slots(db) : StaysAt(db, db', i, goals[k].gen)
      BY <2>1 DEF StaysAt
    <3> QED BY <1>0, <3>1, <3>2, Leaving
  <2>6. LogsCover(db, txs', goals)
    <3>1. ASSUME NEW r \in ToSet(log), NEW k \in 1..txs[n].goals PROVE Covers(db, r, goals[k].gen)
      <4>1. k \in 1..txs[l].goals
        BY <1>0, <2>2
      <4> QED BY <1>0, <4>1 DEF LogsCover, log
    <3> QED BY <1>0, <2>4, <3>1, RejoinedCover
  <2>7. Len(txs') = n /\ \A k \in 1..n : txs'[k].goals = txs[k].goals
    BY <2>4 DEF Rejoined
  <2>8. LogsCover(db', txs', goals')
    <3> SUFFICES ASSUME NEW m \in 1..Len(txs'), NEW r \in ToSet(txs'[m].log), NEW k \in 1..txs'[m].goals
                 PROVE  Covers(db', r, goals'[k].gen)
      BY DEF LogsCover
    <3>1. Covers(db, r, goals[k].gen)
      BY <2>6 DEF LogsCover
    <3>2. k \in 1..Base
      BY <1>0, <2>2, <2>7
    <3> QED BY <2>1, <2>5, <3>1, <3>2
  <2>9. LogsOrder(txs')
    <3>1. Ordered(log)
      BY <1>0 DEF LogsOrder, log
    <3>2. \A r \in ToSet(log) : r.kind # "erase" => \A m \in 1..n : \A s \in ToSet(txs[m].log) : s.slot # r.slot
      <4>1. \A r \in ToSet(txs[l].log) : r.kind # "erase" =>
                \A m2 \in 1..l - 1 : \A s \in ToSet(txs[m2].log) : s.slot # r.slot
        BY <1>0 DEF LogsOrder
      <4> QED BY <4>1 DEF log, n
    <3> QED BY <1>0, <2>4, <3>1, <3>2, RejoinedOrder
  <2>10. ASSUME NEW m \in 1..n
         PROVE  Shown(db', Packet(db', LiveBefore(db', txs', m))) = Shown(db, Packet(db, LiveBefore(db, txs, m)))
    <3>1. RecsFrom(txs', m) = ToSet(log) \cup UNION {ToSet(txs[k].log) : k \in m..n}
      BY <2>4, RejoinedLogs
    <3>2. RecsFrom(txs, m) = ToSet(log) \cup UNION {ToSet(txs[k].log) : k \in m..n}
      <4>1. m..l = (m..n) \cup {l}
        BY <2>2
      <4> DEFINE G(k) == ToSet(txs[k].log)
      <4>2. RecsFrom(txs, m) = UNION {G(k) : k \in m..l} /\ G(l) = ToSet(log)
        BY DEF RecsFrom, log
      <4> HIDE DEF G, l
      <4>3. UNION {G(k) : k \in m..l} = G(l) \cup UNION {G(k) : k \in m..n}
        BY ONLY <4>1
      <4> QED BY ONLY <4>2, <4>3 DEF G
    <3>3. LiveBefore(db, txs', m) = LiveBefore(db, txs, m)
      BY <3>1, <3>2, LiveBeforeIs
    <3> QED BY <2>1, <3>3
  <2>11. SavedOf(db, txs) # <<>> /\ SavedOf(db', txs') = View!Front(SavedOf(db, txs))
    <3>1. Len(txs') = Len(txs) - 1 /\ (\A m \in 1..Len(txs) - 1 : txs'[m].goals = txs[m].goals)
          /\ \A m \in 1..Len(txs) - 1 :
                 Shown(db', Packet(db', LiveBefore(db', txs', m))) = Shown(db, Packet(db, LiveBefore(db, txs, m)))
      BY <2>7, <2>10 DEF n
    <3> QED BY ONLY <1>0, <3>1, SavedFront
  <2>12. ViewInv'
    BY <2>5, <2>8, <2>9 DEF ViewInv, Sound
  <2>13. View!Close
    <3>1. StoreOf(db') = StoreOf(db)
      BY <2>1
    <3> QED BY ONLY <2>5, <2>11, <3>1 DEF View!Close
  <2> QED BY <2>12, <2>13
<1>2. CASE ~(l > 1)
  <2>1. txs' = <<>> /\ db' = TxDb(db, log, FALSE) /\ l = 1
    <3>1. l = 1
      <4>1. l \in Nat /\ l # 0 /\ ~(l > 1)
        BY ONLY <1>0, <1>2
      <4> HIDE DEF l
      <4> QED BY ONLY <4>1
    <3>2. txs' = <<>> /\ db' = TxDb(db, Last(txs).log, FALSE)
      BY <1>2 DEF Commit
    <3> QED BY <1>0, <3>1, <3>2
  <2>2. LogSpares(db, log) /\ Ordered(log)
    BY <1>0 DEF LogsSpare, LogsOrder
  <2> HIDE DEF log
  <2>3. Settled(db, db', db.nextRef) /\ Ends(db, db', log, Len(log), FALSE)
    <3>1. db.nextRef <= db.nextRef /\ FALSE \in BOOLEAN /\ log \in Seq(Recs)
      BY <1>0 DEF log
    <3>2. LET e == TxDb(db, log, FALSE)
          IN  Settled(db, e, db.nextRef) /\ (Ordered(log) => Ends(db, e, log, Len(log), FALSE))
      BY ONLY <1>0, <2>2, <3>1, TxDbKeeps
    <3> QED BY ONLY <2>1, <2>2, <3>2
  <2>4. Kin(db, db') /\ \A i \in Slots(db) : db'.slots[i].erased = db.slots[i].erased
    BY <2>3 DEF Ends
  <2>5. Later(db, db')
    BY <1>0, <2>3 DEF Settled, StoreInv, Stores, Later
  <2>6. /\ GoalsSee(db', goals') /\ Sound(db') /\ db'.nextRef > 0
        /\ RunningOf(db', goals') = SubSeq(RunningOf(db, goals), 1, View!Base)
    <3>1. \A k \in 1..Base : \A i \in Slots(db) : StaysAt(db, db', i, goals[k].gen)
      BY <2>4 DEF StaysAt
    <3> QED BY <1>0, <2>4, <2>5, <3>1, Leaving
  <2>7. StoreOf(db') = StoreOf(db)
    <3>1. Alive(db') = Alive(db)
      BY <2>4 DEF Alive, Erased, Kin, Slots
    <3> QED BY <1>0, <2>4, <3>1, KinShows
  <2>8. SavedOf(db, txs) # <<>> /\ SavedOf(db', txs') = View!Front(SavedOf(db, txs))
    <3>1. Len(txs') = Len(txs) - 1 /\ (\A m \in 1..Len(txs) - 1 : txs'[m].goals = txs[m].goals)
          /\ \A m \in 1..Len(txs) - 1 :
                 Shown(db', Packet(db', LiveBefore(db', txs', m))) = Shown(db, Packet(db, LiveBefore(db, txs, m)))
      <4>1. Len(txs') = 0 /\ Len(txs) = 1
        BY <2>1
      <4> QED BY <4>1
    <3> QED BY ONLY <1>0, <3>1, SavedFront
  <2>9. ViewInv'
    <3>1. LogsCover(db', txs', goals') /\ LogsOrder(txs')
      BY <2>1 DEF LogsCover, LogsOrder
    <3> QED BY <2>6, <3>1 DEF ViewInv, Sound
  <2>10. View!Close
    BY ONLY <2>6, <2>7, <2>8 DEF View!Close
  <2> QED BY <2>9, <2>10
<1> QED BY <1>1, <1>2

(* What a log says of a clause. *)
LEMMA NamesIs ==
    ASSUME NEW log \in Seq(Recs), NEW j
    PROVE  /\ Names(log, Len(log), j, {"erase"}) <=> Rec("erase", j) \in ToSet(log)
           /\ Names(log, Len(log), j, {"asserta", "assertz"})
                 <=> Rec("asserta", j) \in ToSet(log) \/ Rec("assertz", j) \in ToSet(log)
           /\ Names(log, Len(log), j, {"erase", "asserta", "assertz"})
                 <=> \/ Names(log, Len(log), j, {"erase"})
                     \/ Names(log, Len(log), j, {"asserta", "assertz"})
           /\ Names(log, Len(log), j, {"erase", "asserta", "assertz"}) <=> \E r \in ToSet(log) : r.slot = j
<1>1. \A kind, i : Rec(kind, i).slot = i /\ Rec(kind, i).kind = kind
  BY DEF Rec
<1>2. \A n \in 1..Len(log) : /\ log[n] \in ToSet(log) /\ log[n].kind \in {"erase", "asserta", "assertz"}
                             /\ log[n] = Rec(log[n].kind, log[n].slot)
  <2> TAKE n \in 1..Len(log)
  <2>1. log[n] \in ToSet(log) /\ log[n] \in Recs
    BY SetIs
  <2> QED BY <2>1, RecIs DEF Recs
<1>3. \A r \in ToSet(log) : \E n \in 1..Len(log) : log[n] = r
  BY SetIs
<1>4. \A K : Names(log, Len(log), j, K) <=> \E r \in ToSet(log) : r.slot = j /\ r.kind \in K
  BY <1>2, <1>3 DEF Names
<1>5. \A r \in ToSet(log) : r.slot = j => r = Rec(r.kind, j) /\ r.kind \in {"erase", "asserta", "assertz"}
  BY <1>2, <1>3
<1>6. \A kind : (\E r \in ToSet(log) : r.slot = j /\ r.kind = kind) <=> Rec(kind, j) \in ToSet(log)
  BY <1>1, <1>5
<1>7. Names(log, Len(log), j, {"erase"}) <=> Rec("erase", j) \in ToSet(log)
  BY <1>4, <1>6
<1>8. Names(log, Len(log), j, {"asserta", "assertz"})
         <=> Rec("asserta", j) \in ToSet(log) \/ Rec("assertz", j) \in ToSet(log)
  BY <1>4, <1>6
<1>9. Names(log, Len(log), j, {"erase", "asserta", "assertz"}) <=> \E r \in ToSet(log) : r.slot = j
  BY <1>4, <1>5
<1>10. Names(log, Len(log), j, {"erase", "asserta", "assertz"})
         <=> \/ Names(log, Len(log), j, {"erase"})
             \/ Names(log, Len(log), j, {"asserta", "assertz"})
  BY <1>4
<1> QED BY <1>7, <1>8, <1>9, <1>10

(* Nothing is left of a log that is undone. *)
Undoes(d, e, log) ==
    /\ Kin(d, e)
    /\ \A j \in Slots(d) :
           /\ (\A r \in ToSet(log) : r.slot # j) => e.slots[j].erased = d.slots[j].erased
           /\ Rec("asserta", j) \in ToSet(log) \/ Rec("assertz", j) \in ToSet(log) => e.slots[j].erased # 0
           /\ Rec("erase", j) \in ToSet(log) /\ Rec("asserta", j) \notin ToSet(log)
                 /\ Rec("assertz", j) \notin ToSet(log) => e.slots[j].erased = 0

(* What undoing a log does to the mark of each slot.                       *)
LEMMA UndoesIs ==
    ASSUME NEW d, NEW e, NEW log \in Seq(Recs), Ends(d, e, log, Len(log), TRUE)
    PROVE  Undoes(d, e, log)
<1>1. Kin(d, e)
  BY DEF Ends
<1>2. ASSUME NEW j \in Slots(d)
      PROVE  /\ (\A r \in ToSet(log) : r.slot # j) => e.slots[j].erased = d.slots[j].erased
             /\ Rec("asserta", j) \in ToSet(log) \/ Rec("assertz", j) \in ToSet(log) => e.slots[j].erased # 0
             /\ Rec("erase", j) \in ToSet(log) /\ Rec("asserta", j) \notin ToSet(log)
                   /\ Rec("assertz", j) \notin ToSet(log) => e.slots[j].erased = 0
  <2>1. /\ ~Names(log, Len(log), j, {"erase", "asserta", "assertz"}) => e.slots[j].erased = d.slots[j].erased
        /\ Names(log, Len(log), j, {"asserta", "assertz"}) => e.slots[j].erased # 0
        /\ Names(log, Len(log), j, {"erase"}) /\ ~Names(log, Len(log), j, {"asserta", "assertz"})
               => e.slots[j].erased = 0
    BY DEF Ends
  <2> QED BY <2>1, NamesIs
<1> QED BY <1>1, <1>2 DEF Undoes

(* A slot that a log names was asserted in it or else erased in it.        *)
LEMMA NamedIn ==
    ASSUME NEW log \in Seq(Recs), NEW r \in ToSet(log)
    PROVE  \/ Rec("asserta", r.slot) \in ToSet(log) \/ Rec("assertz", r.slot) \in ToSet(log)
           \/ Rec("erase", r.slot) \in ToSet(log)
BY SetIs, RecIs

(* Undoing closes a transaction of the view with the clauses it found.     *)
LEMMA UndoViews ==
    ASSUME DbInv, ViewInv, Undo
    PROVE  ViewInv' /\ View!Close
<1> DEFINE l == Len(txs)
           n == l - 1
           log == txs[l].log
           L == ToSet(log)
<1>0. /\ Sound(db) /\ db \in Stores /\ StoreInv(db) /\ db.nextRef \in Nat
      /\ txs \in Seq(Txs) /\ Nested(txs, goals) /\ LogsSpare(db, txs) /\ l \in Nat /\ l # 0 /\ l \in 1..l
      /\ LogsCover(db, txs, goals) /\ LogsOrder(txs) /\ Base = txs[l].goals /\ Base \in Nat
      /\ Last(txs) = txs[l] /\ log \in Seq(Recs) /\ txs # <<>>
      /\ goals' = SubSeq(goals, 1, Base)
      /\ \A m \in 1..l : txs[m].goals \in Nat /\ txs[m].goals <= Base
  <2>1. txs # <<>> /\ goals' = SubSeq(goals, 1, Base)
    BY DEF Undo
  <2> QED BY <2>1, BothInvs, BaseIs
<1>1. /\ n \in Nat /\ l = n + 1 /\ txs' = SubSeq(txs, 1, n) /\ Len(txs') = n
      /\ \A k \in 1..n : txs'[k] = txs[k] /\ k \in 1..l
      /\ db' = TxDb(db, log, TRUE)
  <2>1. n \in 0..l /\ n \in Nat /\ l = n + 1
    BY <1>0
  <2>2. txs' = SubSeq(txs, 1, n) /\ db' = TxDb(db, log, TRUE)
    BY <1>0 DEF Undo, Front
  <2> HIDE DEF n
  <2>3. Len(SubSeq(txs, 1, n)) = n /\ \A k \in 1..n : SubSeq(txs, 1, n)[k] = txs[k]
    BY ONLY <1>0, <2>1, StackedIs
  <2> QED BY <2>1, <2>2, <2>3
<1>2. LogSpares(db, log) /\ Ordered(log)
  BY <1>0 DEF LogsSpare, LogsOrder
<1> HIDE DEF n
<1>3. Settled(db, db', db.nextRef) /\ Undoes(db, db', log)
  <2>1. db.nextRef <= db.nextRef /\ TRUE \in BOOLEAN /\ log \in Seq(Recs)
    BY <1>0
  <2> HIDE DEF log
  <2>2. LET e == TxDb(db, log, TRUE)
        IN  Settled(db, e, db.nextRef) /\ (Ordered(log) => Ends(db, e, log, Len(log), TRUE))
    BY ONLY <1>0, <1>2, <2>1, TxDbKeeps
  <2> QED BY ONLY <1>1, <1>2, <2>1, <2>2, UndoesIs
<1>4. /\ Kin(db, db') /\ Later(db, db') /\ Slots(db') = Slots(db)
      /\ \A j \in Slots(db) : db'.slots[j].ref = db.slots[j].ref
      /\ \A j \in Slots(db) :
           /\ (\A r \in L : r.slot # j) => db'.slots[j].erased = db.slots[j].erased
           /\ Rec("asserta", j) \in L \/ Rec("assertz", j) \in L => db'.slots[j].erased # 0
           /\ Rec("erase", j) \in L /\ Rec("asserta", j) \notin L
                 /\ Rec("assertz", j) \notin L => db'.slots[j].erased = 0
  <2>1. Later(db, db')
    BY <1>0, <1>3 DEF Settled, StoreInv, Stores, Later
  <2> QED BY <1>3, <2>1 DEF Undoes, Kin, Slots
<1>5. \A kind, j : Rec(kind, j).slot = j /\ Rec(kind, j).kind = kind
  BY DEF Rec
(* No older log names a clause this one asserts. *)
<1>6. \A j, m : m \in 1..n /\ (Rec("asserta", j) \in L \/ Rec("assertz", j) \in L)
                   => \A s \in ToSet(txs[m].log) : s.slot # j
  <2>1. \A r \in L : r.kind # "erase" => \A m \in 1..l - 1 : \A s \in ToSet(txs[m].log) : s.slot # r.slot
    BY <1>0 DEF LogsOrder
  <2>2. l - 1 = n
    BY DEF n
  <2> HIDE DEF L
  <2> QED BY ONLY <1>5, <2>1, <2>2
<1>7. \A r \in L : Rec("asserta", r.slot) \in L \/ Rec("assertz", r.slot) \in L \/ Rec("erase", r.slot) \in L
  BY <1>0, NamedIn
<1>8. \A j \in Slots(db) : \A k \in 1..Base : StaysAt(db, db', j, goals[k].gen)
  <2> TAKE j \in Slots(db)
  <2> TAKE k \in 1..Base
  <2>0. \A r \in L : Covers(db, r, goals[k].gen)
    BY <1>0 DEF LogsCover
  <2> HIDE DEF L
  <2>1. CASE \A r \in L : r.slot # j
    BY <1>4, <2>1 DEF StaysAt
  <2>2. CASE Rec("asserta", j) \in L \/ Rec("assertz", j) \in L
    <3>1. db.slots[j].ref >= goals[k].gen
      BY <1>5, <2>0, <2>2 DEF Covers
    <3> QED BY <3>1 DEF StaysAt
  <2>3. CASE Rec("erase", j) \in L /\ Rec("asserta", j) \notin L /\ Rec("assertz", j) \notin L
    <3>1. db.slots[j].erased = 0 \/ db.slots[j].erased >= goals[k].gen
      BY <1>5, <2>0, <2>3 DEF Covers
    <3>2. db'.slots[j].erased = 0
      BY <1>4, <2>3
    <3> QED BY <3>1, <3>2 DEF StaysAt
  <2> QED BY <1>7, <2>1, <2>2, <2>3
<1>9. /\ Len(goals') = Base /\ \A k \in 1..Base : goals'[k] = goals[k] /\ k \in 1..Len(goals)
      /\ GoalsSee(db', goals') /\ Sound(db') /\ db'.nextRef > 0
      /\ RunningOf(db', goals') = SubSeq(RunningOf(db, goals), 1, View!Base)
  <2>1. \A k \in 1..Base : \A i \in Slots(db) : StaysAt(db, db', i, goals[k].gen)
    BY <1>8
  <2> QED BY ONLY DbInv, ViewInv, <1>0, <1>4, <2>1, Leaving
<1>10. LogsCover(db', txs', goals')
  <2> SUFFICES ASSUME NEW m \in 1..Len(txs'), NEW r \in ToSet(txs'[m].log), NEW k \in 1..txs'[m].goals
               PROVE  Covers(db', r, goals'[k].gen)
    BY DEF LogsCover
  <2>0. m \in 1..n /\ m \in 1..l /\ txs'[m] = txs[m] /\ r \in ToSet(txs[m].log) /\ k \in 1..txs[m].goals
    BY <1>1
  <2>1. m \in 1..l /\ k \in 1..Base
    BY <1>0, <2>0
  <2>2. Covers(db, r, goals[k].gen)
    BY <1>0, <2>0, <2>1 DEF LogsCover
  <2>3. r.slot \in Slots(db)
    BY <2>0, <2>1, BothInvs
  <2> DEFINE j == r.slot
  <2>4. ~(Rec("asserta", j) \in L \/ Rec("assertz", j) \in L)
    BY <1>6, <2>0
  <2>5. db'.slots[j].erased = db.slots[j].erased \/ db'.slots[j].erased = 0
    <3>1. CASE \A s \in L : s.slot # j
      BY <1>4, <2>3, <3>1
    <3>2. CASE \E s \in L : s.slot = j
      <4>1. Rec("erase", j) \in L
        BY <1>7, <2>4, <3>2
      <4> QED BY <1>4, <2>3, <2>4, <4>1
    <3> QED BY <3>1, <3>2
  <2>6. db'.slots[j].ref = db.slots[j].ref
    BY <1>4, <2>3
  <2> QED BY <1>9, <2>1, <2>2, <2>5, <2>6 DEF Covers
<1>11. LogsOrder(txs')
  <2> SUFFICES ASSUME NEW m \in 1..n
               PROVE  /\ Ordered(txs'[m].log)
                      /\ \A r \in ToSet(txs'[m].log) : r.kind # "erase" =>
                             \A m2 \in 1..m - 1 : \A s \in ToSet(txs'[m2].log) : s.slot # r.slot
    BY <1>1 DEF LogsOrder
  <2>1. \A m2 \in 1..m - 1 : txs'[m2] = txs[m2]
    BY <1>1
  <2>2. /\ Ordered(txs[m].log)
        /\ \A r \in ToSet(txs[m].log) : r.kind # "erase" =>
               \A m2 \in 1..m - 1 : \A s \in ToSet(txs[m2].log) : s.slot # r.slot
    BY <1>0, <1>1 DEF LogsOrder
  <2> QED BY <1>1, <2>1, <2>2
<1>12. Alive(db') = LiveBefore(db, txs, l)
  <2>1. RecsFrom(txs, l) = L
    BY <1>0 DEF RecsFrom
  <2>2. LiveBefore(db, txs, l) = {i \in Slots(db) : /\ ~Erased(db, i) \/ Rec("erase", i) \in L
                                                    /\ Rec("asserta", i) \notin L /\ Rec("assertz", i) \notin L}
    BY <2>1, LiveBeforeIs
  <2> HIDE DEF L, l
  <2>3. ASSUME NEW i \in Slots(db)
        PROVE  ~Erased(db', i) <=> /\ ~Erased(db, i) \/ Rec("erase", i) \in L
                                   /\ Rec("asserta", i) \notin L /\ Rec("assertz", i) \notin L
    <3>1. CASE \A r \in L : r.slot # i
      BY <1>4, <1>5, <3>1 DEF Erased
    <3>2. CASE Rec("asserta", i) \in L \/ Rec("assertz", i) \in L
      BY <1>4, <3>2 DEF Erased
    <3>3. CASE Rec("erase", i) \in L /\ Rec("asserta", i) \notin L /\ Rec("assertz", i) \notin L
      BY <1>4, <3>3 DEF Erased
    <3> QED BY <1>7, <3>1, <3>2, <3>3
  <2> QED BY <1>4, <2>2, <2>3 DEF Alive
<1>13. ASSUME NEW m \in 1..n PROVE LiveBefore(db', txs', m) = LiveBefore(db, txs, m)
  <2> DEFINE Q == RecsFrom(txs', m)
             P == RecsFrom(txs, m)
  <2>1. P = L \cup Q
    <3>1. m..l = (m..n) \cup {l}
      BY <1>1
    <3> DEFINE G(k) == ToSet(txs[k].log)
    <3>2. P = UNION {G(k) : k \in m..l} /\ G(l) = L
      BY DEF RecsFrom
    <3>3. Q = UNION {G(k) : k \in m..n}
      <4>1. \A k \in m..n : txs'[k] = txs[k]
        BY <1>1
      <4> QED BY <1>1, <4>1 DEF RecsFrom
    <3> HIDE DEF G, L, P, Q, l
    <3> QED BY ONLY <3>1, <3>2, <3>3
  <2>2. \A j : (Rec("asserta", j) \in L \/ Rec("assertz", j) \in L) => \A s \in Q : s.slot # j
    <3>1. \A s \in Q : \E k \in 1..n : s \in ToSet(txs[k].log)
      BY <1>1 DEF RecsFrom
    <3> HIDE DEF L, Q
    <3> QED BY <1>6, <3>1
  <2>3. /\ LiveBefore(db', txs', m) = {i \in Slots(db') : /\ ~Erased(db', i) \/ Rec("erase", i) \in Q
                                                          /\ Rec("asserta", i) \notin Q /\ Rec("assertz", i) \notin Q}
        /\ LiveBefore(db, txs, m) = {i \in Slots(db) : /\ ~Erased(db, i) \/ Rec("erase", i) \in P
                                                       /\ Rec("asserta", i) \notin P /\ Rec("assertz", i) \notin P}
    BY LiveBeforeIs
  <2> HIDE DEF L, P, Q
  <2>4. ASSUME NEW i \in Slots(db)
        PROVE  (/\ ~Erased(db', i) \/ Rec("erase", i) \in Q
                /\ Rec("asserta", i) \notin Q /\ Rec("assertz", i) \notin Q)
               <=> (/\ ~Erased(db, i) \/ Rec("erase", i) \in P
                    /\ Rec("asserta", i) \notin P /\ Rec("assertz", i) \notin P)
    <3>1. CASE \A r \in L : r.slot # i
      <4>1. \A kind : Rec(kind, i) \in P <=> Rec(kind, i) \in Q
        BY <1>5, <2>1, <3>1
      <4> QED BY <1>4, <3>1, <4>1 DEF Erased
    <3>2. CASE Rec("asserta", i) \in L \/ Rec("assertz", i) \in L
      <4>1. Rec("erase", i) \notin Q /\ Erased(db', i)
        BY <1>4, <1>5, <2>2, <3>2 DEF Erased
      <4>2. Rec("asserta", i) \in P \/ Rec("assertz", i) \in P
        BY <2>1, <3>2
      <4> QED BY <4>1, <4>2
    <3>3. CASE Rec("erase", i) \in L /\ Rec("asserta", i) \notin L /\ Rec("assertz", i) \notin L
      <4>1. ~Erased(db', i)
        BY <1>4, <3>3 DEF Erased
      <4>2. Rec("erase", i) \in P /\ (Rec("asserta", i) \in P <=> Rec("asserta", i) \in Q)
            /\ (Rec("assertz", i) \in P <=> Rec("assertz", i) \in Q)
        BY <2>1, <3>3
      <4> QED BY <4>1, <4>2
    <3> QED BY <1>7, <3>1, <3>2, <3>3
  <2> QED BY <1>4, <2>3, <2>4
<1>14. \A S : Shown(db', Packet(db', S)) = Shown(db, Packet(db, S))
  BY <1>0, <1>4, KinShows
<1>15. /\ SavedOf(db, txs) # <<>> /\ SavedOf(db', txs') = View!Front(SavedOf(db, txs))
       /\ View!Last(SavedOf(db, txs)).store = Shown(db, Packet(db, LiveBefore(db, txs, Len(txs))))
  <2>1. Len(txs') = Len(txs) - 1 /\ (\A m \in 1..Len(txs) - 1 : txs'[m].goals = txs[m].goals)
        /\ \A m \in 1..Len(txs) - 1 :
               Shown(db', Packet(db', LiveBefore(db', txs', m))) = Shown(db, Packet(db, LiveBefore(db, txs, m)))
    BY <1>1, <1>13, <1>14 DEF n
  <2> QED BY ONLY <1>0, <2>1, SavedFront
<1>16. StoreOf(db') = View!Last(SavedOf(db, txs)).store
  <2>1. StoreOf(db') = Shown(db', Packet(db', Alive(db')))
    BY DEF StoreOf, Live, Alive
  <2> QED BY <1>12, <1>14, <1>15, <2>1
<1>17. ViewInv'
  BY <1>9, <1>10, <1>11 DEF ViewInv, Sound
<1>18. View!Close
  BY ONLY <1>9, <1>15, <1>16 DEF View!Close
<1> QED BY <1>17, <1>18

-----------------------------------------------------------------------------
(* The slots implement the view. *)

(* Nothing the view is computed from changes.                              *)
LEMMA StillViews ==
    ASSUME ViewInv, UNCHANGED <<db, goals, txs>>
    PROVE  ViewInv' /\ UNCHANGED View!vars
<1>1. db' = db /\ goals' = goals /\ txs' = txs
  OBVIOUS
<1>2. ViewInv'
  BY <1>1 DEF ViewInv
<1>3. StoreOf(db') = StoreOf(db) /\ RunningOf(db', goals') = RunningOf(db, goals) /\ SavedOf(db', txs') = SavedOf(db, txs)
  BY <1>1
<1> QED BY <1>2, <1>3 DEF View!vars

(* Each step keeps the invariant and is a step of the view or none.        *)
LEMMA ViewStep ==
    ASSUME DbInv, ViewInv, Strict, [Next]_vars
    PROVE  ViewInv' /\ [View!Next]_(View!vars)
<1>1. ASSUME NEW key \in Keys \cup {AnyKey}, Call(key) PROVE ViewInv' /\ [View!Next]_(View!vars)
  <2>1. ViewInv' /\ ((\E k \in Keys \cup {AnyKey} : View!Call(k)) \/ UNCHANGED <<db, goals, txs>>)
    BY <1>1, CallViews
  <2>2. CASE UNCHANGED <<db, goals, txs>>
    BY <2>2, StillViews
  <2>3. CASE \E k \in Keys \cup {AnyKey} : View!Call(k)
    BY <2>1, <2>3 DEF View!Next
  <2> QED BY <2>1, <2>2, <2>3
<1>2. ASSUME NEW key \in Keys \cup {AnyKey}, CallWalk(key) PROVE ViewInv' /\ [View!Next]_(View!vars)
  BY <1>2, CallWalkViews DEF View!Next
<1>3. ASSUME NEW key \in Keys \cup {AnyKey}, RetractAll(key) PROVE ViewInv' /\ [View!Next]_(View!vars)
  BY <1>3, RetractAllViews DEF View!Next
<1>4. CASE Redo
  BY <1>4, RedoViews DEF View!Next
<1>5. CASE Cut
  BY <1>5, CutViews DEF View!Next
<1>6. CASE Abolish
  BY <1>6, AbolishViews DEF View!Next
<1>7. CASE Open
  BY <1>7, OpenViews DEF View!Next
<1>8. CASE Commit
  BY <1>8, CommitViews DEF View!Next
<1>9. CASE Undo
  BY <1>9, UndoViews DEF View!Next
<1>10. CASE Collect \/ UNCHANGED vars
  <2>1. UNCHANGED <<db, goals, txs>>
    BY <1>10 DEF Collect, vars
  <2> QED BY <2>1, StillViews
<1>11. ASSUME NEW c \in Clauses, NEW front \in BOOLEAN, AssertClause(c, front)
       PROVE  ViewInv' /\ [View!Next]_(View!vars)
  BY <1>11, AssertViews DEF View!Next
<1>12. ASSUME NEW i \in 1..MaxSlots, Erase(i) PROVE ViewInv' /\ [View!Next]_(View!vars)
  BY <1>12, EraseViews DEF View!Next
<1> QED BY <1>1, <1>2, <1>3, <1>4, <1>5, <1>6, <1>7, <1>8, <1>9, <1>10, <1>11, <1>12 DEF Next

(* The chain is one chain with its tail, an index has every clause of a    *)
(* key, each goal is at a clause it is meant to answer with, and no goal   *)
(* below a transaction can tell what the transaction has changed.          *)
THEOREM ViewInvariance ==
    ASSUME Strict
    PROVE  Spec => []ViewInv
<1>1. Init => ViewInv
  BY InitViews
<1>2. DbInv /\ ViewInv /\ [Next]_vars => ViewInv'
  BY ViewStep
<1>3. Spec => []DbInv
  BY DbInvariance
<1> QED BY <1>1, <1>2, <1>3, PTL DEF Spec

(* A goal runs the clauses that existed when it was called, in order, each *)
(* once, whatever is asserted, retracted, reclaimed, compiled, committed   *)
(* or undone meanwhile, and an undone transaction leaves the clauses it    *)
(* found (docs/PROLOG-SYNTAX-SEMANTICS-REFERENCE.md, 11.1).                *)
THEOREM SlotsImplementView ==
    ASSUME Strict
    PROVE  Spec => ImplementsView
<1>1. Init => View!Init
  BY InitViews
<1>2. DbInv /\ ViewInv /\ [Next]_vars => [View!Next]_(View!vars)
  BY ViewStep
<1>3. Spec => []DbInv
  BY DbInvariance
<1>4. Spec => []ViewInv
  BY ViewInvariance
<1> QED BY <1>1, <1>2, <1>3, <1>4, PTL DEF Spec, ImplementsView, View!Spec

-----------------------------------------------------------------------------
(* A call finds its way in. *)

(* While calls find no way in there are no clauses, and no transaction     *)
(* will bring any back.                                                    *)
WayIn(d, ts) ==
    /\ d.mode = "data" => d.way = "data"
    /\ d.way \in {"none", "absent"} => Alive(d) = {} /\ \A m \in 1..Len(ts) : ts[m].log = <<>>
WayInv == WayIn(db, txs)

(* A step that leaves the way in, the marks and the empty logs.            *)
LEMMA WayStays ==
    ASSUME DbInv, WayInv, db'.mode = db.mode, db'.way = db.way, Slots(db') = Slots(db),
           \A i \in Slots(db) : db'.slots[i].erased = db.slots[i].erased,
           (\A m \in 1..Len(txs) : txs[m].log = <<>>) => \A m \in 1..Len(txs') : txs'[m].log = <<>>
    PROVE  WayInv'
<1>1. Alive(db') = Alive(db)
  BY DEF Alive, Erased
<1> QED BY <1>1 DEF WayInv, WayIn

(* A goal that comes to a clause may have it compiled.                     *)
LEMMA ComesByWay ==
    ASSUME DbInv, WayInv, NEW code, NEW at \in 0..Len(db.slots), code => db.mode = "code",
           db' = IF code THEN Ensure(db, at) ELSE db, txs' = txs
    PROVE  WayInv'
<1>1. CASE code
  <2>1. StoreInv(db) /\ db.mode = "code"
    BY <1>1 DEF DbInv
  <2>2. Recoded(db, db') /\ db'.mode = db.mode /\ db'.way \in {db.way, "code"}
    BY <1>1, <2>1, EnsureKeeps
  <2>3. Slots(db') = Slots(db) /\ \A i \in Slots(db) : db'.slots[i].erased = db.slots[i].erased
    BY <2>2 DEF Recoded, Slots
  <2>4. CASE db'.way = db.way
    BY <2>2, <2>3, <2>4, WayStays
  <2>5. CASE db'.way = "code"
    BY <2>1, <2>2, <2>5 DEF WayInv, WayIn
  <2> QED BY <2>2, <2>4, <2>5
<1>2. CASE ~code
  <2>1. db' = db
    BY <1>2
  <2> QED BY <2>1, WayStays
<1> QED BY <1>1, <1>2

(* A call enters where calls enter, and may have that clause compiled.     *)
LEMMA CallWay ==
    ASSUME DbInv, ViewInv, WayInv, NEW key \in Keys \cup {AnyKey}, Call(key)
    PROVE  WayInv'
<1> DEFINE f == Fresh(db, key)
           at == EntersAt(db, f)
           g == [f EXCEPT !.at = at]
<1>0. StoreInv(db) /\ db \in Stores /\ Sound(db) /\ db.nextRef \in Nat
  BY BothInvs
<1>1. /\ f.gen = db.nextRef /\ f.code = (db.way = "code") /\ f.key \in Keys \cup {AnyKey}
      /\ (f.code => f.key = AnyKey) /\ f \in GoalRecs({None})
  BY <1>0 DEF Fresh, GoalRecs
<1> HIDE DEF f
<1>2. g.code = f.code /\ g.at = at /\ Plain(f)
  BY <1>1 DEF GoalRecs, Plain
<1>3. g = Called(db, key)
  BY DEF Called, f
<1> HIDE DEF g
<1>4. db' = (IF g.code THEN Ensure(db, g.at) ELSE db) /\ txs' = txs
  BY <1>3 DEF Call
<1>5. g.at \in 0..Len(db.slots)
  <2>1. CASE db.way \in {"none", "absent"}
    <3>1. at = None
      BY <2>1 DEF EntersAt
    <3> QED BY <1>0, <1>2, <3>1, ChainIs DEF Sound
  <2>2. CASE db.way \notin {"none", "absent"}
    <3>1. at = First(db, Seen(db, f), db.head)
      BY <1>0, <1>1, <1>2, <2>2, EntersFirst
    <3>2. db.head \in 0..Len(db.slots) /\ Chained(db)
      BY <1>0 DEF Sound, Chained
    <3>3. First(db, Seen(db, f), db.head) \in 0..Len(db.slots)
      BY ONLY <1>0, <3>2, FirstIs
    <3> QED BY <1>2, <3>1, <3>3
  <2> QED BY <2>1, <2>2
<1>6. g.code => db.mode = "code"
  BY <1>0, <1>1, <1>2 DEF StoreInv, EntersAtHead
<1> QED BY <1>4, <1>5, <1>6, ComesByWay

(* A goal that goes on may have the next clause compiled.                  *)
LEMMA RedoWay ==
    ASSUME DbInv, ViewInv, WayInv, Redo
    PROVE  WayInv'
<1> DEFINE l == Len(goals)
           g == goals[l]
           at == Stop(db, g, StepOf(db, g, g.at))
<1>1. l \in Nat /\ l > 0 /\ Last(goals) = g /\ l \in 1..Len(goals)
  <2>1. Base \in Nat /\ Len(goals) \in Nat /\ Len(goals) > Base
    BY BaseIs DEF Redo
  <2> QED BY <2>1 DEF Last
<1>2. db' = (IF g.code THEN Ensure(db, at) ELSE db) /\ txs' = txs
  BY <1>1 DEF Redo
<1>3. Plain(g) /\ Sees(db, g) /\ Sound(db) /\ db \in Stores /\ Chained(db)
  <2>1. GoalStack(goals) /\ GoalsSee(db, goals) /\ Sound(db)
    BY BothInvs
  <2> QED BY <1>1, <2>1, GoalPlain DEF Sound
<1>4. g.at \in Slots(db) /\ db.slots[g.at].next \in 0..Len(db.slots)
  <2>1. g.at \in Slots(db)
    BY <1>3 DEF Sees, Seen
  <2> HIDE DEF g
  <2> QED BY <1>3, <2>1, ChainIs
<1> HIDE DEF g
<1>5. at \in 0..Len(db.slots)
  <2>1. at = First(db, Seen(db, g), db.slots[g.at].next)
    BY ONLY <1>3, <1>4, NextStopIs
  <2> DEFINE n == db.slots[g.at].next
             V == Seen(db, g)
  <2>2. n \in 0..Len(db.slots)
    BY <1>4
  <2> HIDE DEF n, V
  <2>3. First(db, V, n) \in 0..Len(db.slots)
    BY ONLY <1>3, <2>2, FirstIs
  <2> QED BY <2>1, <2>3 DEF n, V
<1>6. g.code => db.mode = "code"
  BY <1>1 DEF DbInv, GoalsServed, GoalIsServed, g
<1> HIDE DEF at
<1> QED BY <1>2, <1>5, <1>6, ComesByWay

(* An erasure finds a clause to erase, so there is a way in, and stays.    *)
LEMMA ErasedWay ==
    ASSUME DbInv, WayInv, Alive(db) # {}, NEW e, StoreInv(e), GoalsServed(e, goals, e.nextRef),
           e.mode = db.mode, e.way = db.way, NEW ok \in BOOLEAN, db' = Reclaim(e, ok)
    PROVE  WayInv'
<1>1. e.nextRef \in Nat
  BY StoreIs
<1>2. db'.mode = db.mode /\ db'.way = db.way
  BY <1>1, ReclaimKeeps
<1> QED BY <1>2 DEF WayInv, WayIn

(* erase/1 and the end of a retract/1 leave the way in.                    *)
LEMMA EraseWay ==
    ASSUME DbInv, WayInv, NEW i \in 1..MaxSlots, Erase(i)
    PROVE  WayInv'
<1>1. db \in Stores /\ Alive(db) # {}
  BY StoreIs DEF DbInv, Erase, Alive
<1> DEFINE e == EraseSlot(Bump(db), i, db.nextRef)
<1>2. PICK ok \in BOOLEAN : db' = Reclaim(e, ok)
  BY DEF Erase
<1>3. e.mode = db.mode /\ e.way = db.way
  BY <1>1 DEF EraseSlot, NoteErase, Bump, Stores
<1> HIDE DEF e
<1>4. Reclaim(e, ok).mode = e.mode /\ Reclaim(e, ok).way = e.way
  BY DEF Reclaim
<1> QED BY <1>1, <1>2, <1>3, <1>4 DEF WayInv, WayIn

(* retractall/1 leaves the way in too, also when it leaves no clause.      *)
LEMMA RetractAllWay ==
    ASSUME DbInv, WayInv, NEW key \in Keys \cup {AnyKey}, RetractAll(key)
    PROVE  WayInv'
<1> DEFINE hits == {i \in Slots(db) : ~Erased(db, i) /\ ~Rejects(db, i, key)}
           from == IF db.ix = NoIx \/ key = AnyKey THEN [i \in Slots(db) |-> i] ELSE db.ix.of[key]
           seq  == Only(from, hits)
           k == Len(seq)
           gens == [n \in DOMAIN seq |-> db.nextRef + n - 1]
           e == EraseEach([db EXCEPT !.nextRef = @ + k], seq, gens)
<1>1. db \in Stores /\ db.nextRef \in Nat
  BY StoreIs DEF DbInv
<1>2. Len(from) \in Nat
  <2>1. [i \in Slots(db) |-> i] \in Seq(Nat)
    BY <1>1 DEF Slots, Stores
  <2>2. db.ix # NoIx /\ key # AnyKey => db.ix.of[key] \in Seq(Nat)
    BY <1>1 DEF Stores, Indexes
  <2>3. from \in Seq(Nat)
    BY <2>1, <2>2
  <2> HIDE DEF from
  <2> QED BY <2>3
<1>3. seq \in Seq(hits)
  <2> HIDE DEF from, hits
  <2> QED BY <1>2, OnlyIs
<1>4. (\A i \in hits : i \in Slots(db) /\ ~Erased(db, i)) /\ hits # {}
  BY DEF RetractAll
<1>5. PICK ok \in BOOLEAN : db' = Reclaim(e, ok)
  BY DEF RetractAll
<1>6. Alive(db) # {}
  BY <1>4 DEF Alive
<1> HIDE DEF hits, seq
<1>7. k \in Nat /\ \A n \in 1..Len(seq) : /\ gens[n] \in Nat /\ db.nextRef <= gens[n]
                                          /\ gens[n] < db.nextRef + k
  BY <1>1, <1>3
<1> HIDE DEF k, gens
<1>8. StoreInv(e) /\ GoalsServed(e, goals, e.nextRef) /\ e.mode = db.mode /\ e.way = db.way
  BY <1>3, <1>4, <1>7, ErasedAll
<1> HIDE DEF e
<1> QED BY <1>5, <1>6, <1>8, ErasedWay

(* A filter keeps every member that lies in V.                             *)
LEMMA OnlyHas ==
    ASSUME NEW s, Len(s) \in Nat, NEW V
    PROVE  \A n \in 1..Len(s) : s[n] \in V => s[n] \in ToSet(Only(s, V))
<1> DEFINE K == KeptOf(s, V)
           l == Len(s)
           Had(k) == \A n \in 1..k : s[n] \in V => s[n] \in ToSet(K[k])
           T == {k \in Nat : k <= l => Had(k)}
<1>1. /\ Only(s, V) = K[l] /\ K[0] = <<>> /\ l \in Nat
      /\ \A k \in 1..l : /\ s[k] \in V => K[k] = Append(K[k - 1], s[k])
                         /\ s[k] \notin V => K[k] = K[k - 1]
      /\ \A k \in 0..l : K[k] \in Seq(V)
  BY KeptIs
<1> HIDE DEF K, l
<1>2. 0 \in T
  OBVIOUS
<1>3. ASSUME NEW k \in Nat, k \in T PROVE k + 1 \in T
  <2> SUFFICES ASSUME k + 1 <= l, NEW n \in 1..k + 1, s[n] \in V PROVE s[n] \in ToSet(K[k + 1])
    OBVIOUS
  <2>1. k <= l /\ k + 1 \in 1..l /\ k \in 0..l /\ (k + 1) - 1 = k
    BY <1>1
  <2>2. Had(k)
    BY <1>3, <2>1
  <2>3. K[k] \in Seq(V)
    BY <1>1, <2>1
  <2>4. n \in 1..k => s[n] \in ToSet(K[k])
    BY <2>2
  <2> HIDE DEF Had, T
  <2>5. CASE s[k + 1] \in V
    <3>1. K[k + 1] = Append(K[k], s[k + 1])
      BY <1>1, <2>1, <2>5
    <3> DEFINE p == K[k]
               x == s[k + 1]
    <3>2. p \in Seq(V) /\ x \in V
      BY <2>3, <2>5
    <3> HIDE DEF p, x
    <3>3. x \in ToSet(Append(p, x)) /\ \A y \in ToSet(p) : y \in ToSet(Append(p, x))
      <4>1. /\ Append(p, x) \in Seq(V) /\ Len(p) \in Nat /\ Len(Append(p, x)) = Len(p) + 1
            /\ Append(p, x)[Len(p) + 1] = x /\ \A j \in 1..Len(p) : Append(p, x)[j] = p[j]
        BY <3>2
      <4>2. Len(p) + 1 \in 1..Len(Append(p, x))
        BY <4>1
      <4>3. x \in ToSet(Append(p, x))
        BY <4>1, <4>2 DEF ToSet
      <4>4. ASSUME NEW y \in ToSet(p) PROVE y \in ToSet(Append(p, x))
        <5>1. PICK j \in 1..Len(p) : p[j] = y
          BY <3>2, SetIs
        <5>2. j \in 1..Len(Append(p, x)) /\ Append(p, x)[j] = y
          BY <4>1, <5>1
        <5> QED BY <5>2 DEF ToSet
      <4> QED BY <4>3, <4>4
    <3>4. n \in 1..k \/ s[n] = x
      BY DEF x
    <3> QED BY <2>4, <3>1, <3>3, <3>4 DEF p, x
  <2>6. CASE s[k + 1] \notin V
    <3>1. K[k + 1] = K[k]
      BY <1>1, <2>1, <2>6
    <3>2. n \in 1..k
      BY <2>6
    <3> QED BY <2>4, <3>1, <3>2
  <2> QED BY <2>5, <2>6
<1>4. l \in T
  <2> HIDE DEF T
  <2> QED BY <1>1, <1>2, <1>3, SetInduction
<1>5. Had(l)
  BY <1>1, <1>4
<1> QED BY <1>1, <1>5 DEF l

(* abolish/1 comes outside transactions only (Strict), and leaves nothing. *)
LEMMA AbolishWay ==
    ASSUME DbInv, Strict, Abolish
    PROVE  WayInv'
<1> DEFINE hits == {i \in Slots(db) : ~Erased(db, i)}
           from == [i \in Slots(db) |-> i]
           seq  == Only(from, hits)
           gens == [n \in DOMAIN seq |-> db.nextRef]
           b == [db EXCEPT !.nextRef = @ + 1]
           e == EraseEach(b, seq, gens)
           off == Off(e, db.slots = <<>>)
           J == {seq[n] : n \in 1..Len(seq)}
<1>1. db \in Stores /\ db.nextRef \in Nat
  BY StoreIs DEF DbInv
<1>2. Len(from) \in Nat /\ Len(from) = Len(db.slots) /\ \A i \in Slots(db) : from[i] = i
  <2>1. from \in Seq(Nat) /\ Len(from) = Len(db.slots) /\ Len(db.slots) \in Nat
    BY <1>1 DEF Slots, Stores
  <2> QED BY <2>1
<1>3. seq \in Seq(hits) /\ hits \subseteq J
  <2>1. \A i \in hits : i \in 1..Len(from) /\ from[i] = i
    BY <1>2 DEF Slots
  <2> HIDE DEF from, hits
  <2>2. seq \in Seq(hits) /\ \A n \in 1..Len(from) : from[n] \in hits => from[n] \in ToSet(seq)
    BY <1>2, OnlyIs, OnlyHas
  <2> HIDE DEF seq
  <2>3. \A x \in ToSet(seq) : x \in J
    BY <2>2, SetIs
  <2> QED BY <2>1, <2>2, <2>3
<1>4. \A i \in hits : i \in Slots(db) /\ ~Erased(db, i)
  OBVIOUS
<1>5. Alive(db) \subseteq J
  BY <1>3 DEF Alive
<1>6. PICK ok \in BOOLEAN :
          /\ db' = Reclaim([EraseEach(Bump(db), seq, gens) EXCEPT
                                !.mode = IF @ = "data" THEN "fresh" ELSE @,
                                !.way = IF db.slots = <<>> THEN @ ELSE "absent"], ok)
          /\ txs' = Logged(Reverse([n \in 1..Len(seq) |-> Rec("erase", seq[n])]))
  BY DEF Abolish
<1>7. Bump(db) = b /\ txs = <<>>
  BY DEF Bump, Abolish
<1>8. txs' = <<>>
  BY <1>6, <1>7 DEF Logged
<1> HIDE DEF hits, seq, b
<1>9. \A n \in 1..Len(seq) : /\ gens[n] \in Nat /\ db.nextRef <= gens[n]
                             /\ gens[n] < db.nextRef + 1
  BY <1>1, <1>3
<1> HIDE DEF gens
<1>15. seq \in Seq(hits)
  BY <1>3
<1>10. StoreInv(e) /\ GoalsServed(e, goals, e.nextRef) /\ e.mode = db.mode
  <2> HIDE DEF J, off, from
  <2> QED BY ONLY DbInv, <1>15, <1>4, <1>9, 1 \in Nat, ErasedAll DEF e, b
<1>11. Marked(db, e, J, db.nextRef)
  BY ONLY DbInv, <1>3, <1>4, <1>9, 1 \in Nat, ErasedMarks DEF e, b, J
<1> HIDE DEF e, J
<1>12. db' = Reclaim(off, ok)
  BY <1>6, <1>7 DEF e, Off
<1>13. Recoded(e, off) /\ off.mode # "data"
  <2>1. Recoded(e, off)
    BY <1>10, OffIs
  <2>2. e \in Stores
    BY <1>10 DEF StoreInv
  <2>3. off.mode = IF e.mode = "data" THEN "fresh" ELSE e.mode
    BY <2>2 DEF Off, Stores
  <2> QED BY <2>1, <2>3
<1> HIDE DEF off
<1>14. StoreInv(off) /\ Recoded(e, off) /\ GoalsServed(off, goals, off.nextRef) /\ off.nextRef \in Nat
  <2>1. StoreInv(off) /\ off.nextRef = e.nextRef /\ GoalsServed(off, goals, e.nextRef)
    BY <1>10, OffIs DEF off
  <2> QED BY <1>13, <2>1, StoreIs
<1>16. Recoded(off, db') /\ db'.mode = off.mode
  BY <1>12, <1>14, ReclaimKeeps
<1>17. /\ Slots(e) = Slots(db) /\ Slots(off) = Slots(db) /\ Slots(db') = Slots(db)
       /\ \A i \in Slots(db) : db'.slots[i].erased = e.slots[i].erased
  <2>1. Len(e.slots) = Len(db.slots)
    BY <1>11 DEF Marked, Kin
  <2>2. Len(off.slots) = Len(e.slots) /\ \A i \in Slots(e) : off.slots[i].erased = e.slots[i].erased
    BY <1>14 DEF Recoded
  <2>3. Len(db'.slots) = Len(off.slots) /\ \A i \in Slots(off) : db'.slots[i].erased = off.slots[i].erased
    BY <1>16 DEF Recoded
  <2> QED BY <2>1, <2>2, <2>3 DEF Slots
<1>18. \A i \in Slots(db) : Erased(db', i)
  <2> SUFFICES ASSUME NEW i \in Slots(db) PROVE e.slots[i].erased # 0
    BY <1>17 DEF Erased
  <2>1. CASE i \in J
    BY <1>11, <2>1 DEF Marked
  <2>2. CASE i \notin J
    BY <1>5, <1>11, <2>2 DEF Marked, Alive, Erased
  <2> QED BY <2>1, <2>2
<1>19. Alive(db') = {}
  BY <1>17, <1>18 DEF Alive
<1>20. db'.mode # "data" /\ \A m \in 1..Len(txs') : FALSE
  BY <1>8, <1>13, <1>16
<1> QED BY <1>19, <1>20 DEF WayInv, WayIn

(* A clause that comes in makes its own way in.                            *)
LEMMA AssertWay ==
    ASSUME DbInv, WayInv, Strict, NEW c \in Clauses, NEW front \in BOOLEAN, AssertClause(c, front)
    PROVE  WayInv'
<1>1. PICK ok \in BOOLEAN :
          LET i == Len(db.slots) + 1
              r == Reclaim(db, ok)
              s == IxNote(Linked(Stored(r, c), i, front), i, front)
          IN  db' = Place(s, i, c.rule)
  BY DEF AssertClause
<1> DEFINE i == Len(db.slots) + 1
           r == Reclaim(db, ok)
           e == Place(Bound(r, c, front), NewSlot(r), c.rule)
<1>0. StoreInv(db) /\ db \in Stores /\ db.nextRef \in Nat /\ GoalsServed(db, goals, db.nextRef)
  BY StoreIs DEF DbInv
<1>2. StoreInv(r) /\ Recoded(db, r) /\ r.mode = db.mode /\ r.way = db.way
  BY <1>0, ReclaimKeeps
<1> HIDE DEF r
<1>3. NewSlot(r) = i /\ (HeadDead(r) <=> HeadDead(db))
  BY <1>0, <1>2 DEF Recoded, NewSlot, HeadDead, Chained, StoreInv, Slots, None, Erased
<1>4. ~(c.rule /\ r.mode # "code" /\ HeadDead(r) /\ ~front)
  BY <1>2, <1>3 DEF AssertClause
<1>5. \/ e.mode = "code" /\ e.way = "code"
      \/ e.mode = "data" /\ (IF r.mode = "data" THEN e.way = r.way ELSE e.way = "data")
  BY <1>2, <1>4, PlacedKeeps
<1>6. db' = e
  <2>1. Bound(r, c, front) = IxNote(Linked(Stored(r, c), i, front), i, front)
    BY <1>3 DEF Bound
  <2> QED BY <1>1, <1>3, <2>1 DEF r
<1> HIDE DEF e
<1> QED BY <1>2, <1>5, <1>6 DEF WayInv, WayIn

(* A transaction opens with an empty log, and two that were empty join.    *)
LEMMA CloseWay ==
    ASSUME DbInv, ViewInv, WayInv, Open \/ Commit \/ Undo
    PROVE  WayInv'
<1> DEFINE l == Len(txs)
           log == txs[l].log
<1>0. /\ StoreInv(db) /\ db.nextRef \in Nat /\ txs \in Seq(Txs) /\ l \in Nat
      /\ LogsSpare(db, txs) /\ LogsOrder(txs)
  BY BothInvs
<1>1. CASE Open
  <2>1. db' = db /\ txs' = Append(txs, [log |-> <<>>, goals |-> Len(goals)])
    BY <1>1 DEF Open
  <2>2. (\A m \in 1..Len(txs) : txs[m].log = <<>>) => \A m \in 1..Len(txs') : txs'[m].log = <<>>
    BY <1>0, <2>1
  <2> QED BY <2>1, <2>2, WayStays
<1>2. CASE Commit /\ l > 1
  <2>1. /\ txs' = Append(SubSeq(txs, 1, l - 2), [txs[l - 1] EXCEPT !.log = Last(txs).log \o @]) /\ db' = db
        /\ Last(txs) = txs[l]
    BY <1>0, <1>2 DEF Commit, Last
  <2>2. SubSeq(txs, 1, l - 2) \in Seq(Txs) /\ Len(SubSeq(txs, 1, l - 2)) = l - 2
        /\ \A m \in 1..l - 2 : SubSeq(txs, 1, l - 2)[m] = txs[m]
    <3>1. l - 2 \in 0..l
      BY <1>0, <1>2
    <3> QED BY ONLY <1>0, <3>1, StackedIs
  <2>3. (\A m \in 1..l : txs[m].log = <<>>) => \A m \in 1..Len(txs') : txs'[m].log = <<>>
    <3> SUFFICES ASSUME \A m \in 1..l : txs[m].log = <<>>, NEW m \in 1..Len(txs') PROVE txs'[m].log = <<>>
      OBVIOUS
    <3> DEFINE tx == [txs[l - 1] EXCEPT !.log = <<>>]
    <3>1. l \in 1..l /\ l - 1 \in 1..l /\ <<>> \o <<>> = <<>>
      BY <1>0, <1>2
    <3>2. Last(txs).log = <<>> /\ txs[l - 1].log = <<>>
      BY <2>1, <3>1
    <3>3. txs' = Append(SubSeq(txs, 1, l - 2), tx)
      BY <2>1, <3>1, <3>2
    <3>4. tx.log = <<>>
      BY <1>0, <3>1 DEF Txs
    <3> HIDE DEF tx
    <3> QED BY <1>0, <2>2, <3>1, <3>3, <3>4
  <2> QED BY <2>1, <2>3, WayStays
<1>3. CASE Undo \/ (Commit /\ ~(l > 1))
  <2>1. txs # <<>> /\ l \in 1..l /\ Last(txs) = txs[l] /\ log \in Seq(Recs)
    <3>1. txs # <<>>
      BY <1>3 DEF Commit, Undo
    <3>2. l \in 1..l
      BY <1>0, <3>1
    <3>3. txs[l] \in Txs
      BY <1>0, <3>2
    <3> QED BY <3>1, <3>2, <3>3 DEF Txs, Last
  <2>2. LogSpares(db, log) /\ Ordered(log)
    BY <1>0, <2>1 DEF LogsSpare, LogsOrder
  <2>3. PICK undo \in BOOLEAN : db' = TxDb(db, log, undo)
    BY <1>3, <2>1 DEF Commit, Undo
  <2>4. \A m \in 1..Len(txs') : m \in 1..l /\ txs'[m] = txs[m]
    <3>1. CASE Commit /\ ~(l > 1)
      BY <3>1 DEF Commit
    <3>2. CASE Undo
      <4>1. txs' = SubSeq(txs, 1, l - 1)
        BY <1>0, <2>1, <3>2 DEF Undo, Front
      <4>2. l - 1 \in 0..l
        BY <1>0, <2>1
      <4> QED BY <1>0, <4>1, <4>2, StackedIs
    <3> QED BY <1>3, <3>1, <3>2
  <2> HIDE DEF log
  <2>5. Settled(db, db', db.nextRef) /\ Ends(db, db', log, Len(log), undo)
    <3>1. db.nextRef <= db.nextRef
      BY <1>0
    <3>2. LET e == TxDb(db, log, undo)
          IN  Settled(db, e, db.nextRef) /\ (Ordered(log) => Ends(db, e, log, Len(log), undo))
      BY ONLY <1>0, <2>1, <2>2, <3>1, undo \in BOOLEAN, TxDbKeeps
    <3> QED BY ONLY <2>2, <2>3, <3>2
  <2>6. db'.mode = db.mode /\ db'.way = db.way /\ Slots(db') = Slots(db)
    BY <2>5 DEF Settled, Slots
  <2>7. log = <<>> => \A i \in Slots(db) : db'.slots[i].erased = db.slots[i].erased
    BY <2>5 DEF Ends, Names
  <2>8. CASE log = <<>>
    BY <2>4, <2>6, <2>7, <2>8, WayStays
  <2>9. CASE log # <<>>
    BY <2>1, <2>6, <2>9 DEF WayInv, WayIn, log
  <2> QED BY <2>8, <2>9
<1> HIDE DEF l
<1> QED BY <1>1, <1>2, <1>3

(* A predicate starts without clauses and without a way in.                *)
LEMMA InitWay ==
    ASSUME Init
    PROVE  WayInv
<1>1. db.slots = <<>> /\ db.mode = "fresh" /\ txs = <<>>
  BY DEF Init
<1>2. Slots(db) = {}
  BY <1>1 DEF Slots
<1> QED BY <1>1, <1>2 DEF WayInv, WayIn, Alive

(* Every step leaves a way in to what there is.                            *)
LEMMA WayStep ==
    ASSUME DbInv, ViewInv, WayInv, Strict, [Next]_vars
    PROVE  WayInv'
<1>1. ASSUME NEW key \in Keys \cup {AnyKey}, Call(key) PROVE WayInv'
  BY <1>1, CallWay
<1>2. CASE Redo
  BY <1>2, RedoWay
<1>3. ASSUME NEW key \in Keys \cup {AnyKey}, RetractAll(key) PROVE WayInv'
  BY <1>3, RetractAllWay
<1>4. CASE Abolish
  BY <1>4, AbolishWay
<1>5. CASE Open \/ Commit \/ Undo
  BY <1>5, CloseWay
<1>6. CASE (\E key \in Keys \cup {AnyKey} : CallWalk(key)) \/ Cut \/ Collect \/ UNCHANGED vars
  <2>1. UNCHANGED <<db, txs>>
    BY <1>6 DEF CallWalk, Cut, Collect, vars
  <2> QED BY <2>1, WayStays
<1>7. ASSUME NEW c \in Clauses, NEW front \in BOOLEAN, AssertClause(c, front) PROVE WayInv'
  BY <1>7, AssertWay
<1>8. ASSUME NEW i \in 1..MaxSlots, Erase(i) PROVE WayInv'
  BY <1>8, EraseWay
<1> QED BY <1>1, <1>2, <1>3, <1>4, <1>5, <1>6, <1>7, <1>8 DEF Next

(* While calls find no way in there are no clauses, and no transaction     *)
(* would bring any back.                                                   *)
THEOREM WayInvariance ==
    ASSUME Strict
    PROVE  Spec => []WayInv
<1>1. Init => WayInv
  BY InitWay
<1>2. DbInv /\ ViewInv /\ WayInv /\ [Next]_vars => WayInv'
  BY WayStep
<1>3. Spec => []DbInv
  BY DbInvariance
<1>4. Spec => []ViewInv
  BY ViewInvariance
<1> QED BY <1>1, <1>2, <1>3, <1>4, PTL DEF Spec

(* A call made now would find every clause there is.                       *)
LEMMA CallFinds ==
    ASSUME DbInv, ViewInv, WayInv
    PROVE  CallFindsAll
<1> DEFINE f == Fresh(db, AnyKey)
           at == EntersAt(db, f)
           g == [f EXCEPT !.at = at]
           U == Alive(db)
           V == Seen(db, f)
<1>0. /\ StoreInv(db) /\ db \in Stores /\ Sound(db) /\ Chained(db) /\ db.nextRef \in Nat /\ Dated(db)
      /\ db.head \in 0..Len(db.slots)
  BY BothInvs DEF Sound, StoreInv, Chained
<1>1. f.gen = db.nextRef /\ f.key = AnyKey /\ f.code = (db.way = "code") /\ f \in GoalRecs({None}) /\ Plain(f)
  BY <1>0 DEF Fresh, GoalRecs, Plain
<1>2. Live(db) = TraceOf(db, U)[db.head]
  BY PacketIsTrace DEF Live, Alive
<1>3. V = U
  <2> SUFFICES ASSUME NEW i \in Slots(db)
               PROVE  Visible(db.slots[i], f.gen) /\ ~Rejects(db, i, f.key) <=> ~Erased(db, i)
    BY DEF Seen, Alive
  <2>1. ~Rejects(db, i, f.key)
    BY <1>1 DEF Rejects
  <2>2. db.slots[i].ref < db.nextRef /\ db.slots[i].erased < db.nextRef /\ db.slots[i].erased \in Nat
    BY <1>0, SlotIs DEF Dated
  <2> HIDE DEF f
  <2> QED BY <1>0, <1>1, <2>1, <2>2 DEF Visible, Erased
<1> HIDE DEF f
<1>4. g.key = f.key /\ g.gen = f.gen /\ g.code = f.code /\ g.at = at
  BY <1>1 DEF GoalRecs
<1>5. g = Called(db, AnyKey)
  BY DEF Called, f
<1> HIDE DEF g, at
<1>6. (IF g.at = None THEN <<>> ELSE Remaining(db, g)) = Live(db)
  <2>1. CASE db.way \in {"none", "absent"}
    <3>1. at = None /\ U = {}
      BY <2>1 DEF EntersAt, WayInv, WayIn, at
    <3>2. TraceOf(db, U)[db.head] \in Seq(U \cap Slots(db))
      BY <1>0, TraceIs
    <3>3. TraceOf(db, U)[db.head] = <<>>
      BY <3>1, <3>2
    <3> QED BY <1>2, <1>4, <3>1, <3>3
  <2>2. CASE db.way \notin {"none", "absent"}
    <3>1. at = First(db, V, db.head)
      BY <1>0, <1>1, <2>2, EntersFirst DEF at
    <3>2. /\ at # None => at \in V \cap Slots(db)
          /\ TraceOf(db, V)[at] = TraceOf(db, V)[db.head]
      <4> HIDE DEF V
      <4> QED BY ONLY <1>0, <3>1, FirstIs
    <3>3. TraceOf(db, V)[None] = <<>>
      <4> HIDE DEF V
      <4> QED BY ONLY <1>0, TraceIs
    <3>4. CASE at = None
      BY <1>2, <1>3, <1>4, <3>2, <3>3, <3>4
    <3>5. CASE at # None
      <4>1. Seen(db, g) = V /\ Plain(g)
        BY <1>1, <1>4 DEF Seen, Plain
      <4>2. g.at \in Seen(db, g)
        BY <1>4, <3>2, <3>5, <4>1
      <4>3. Remaining(db, g) = TraceOf(db, V)[g.at]
        BY ONLY <1>0, <4>1, <4>2, RemainingAt
      <4> QED BY <1>2, <1>3, <1>4, <3>2, <3>5, <4>3
    <3> QED BY <3>4, <3>5
  <2> QED BY <2>1, <2>2
<1> QED BY <1>5, <1>6 DEF CallFindsAll

(* A call made now runs exactly the clauses there are, in order, also when *)
(* it is the first since the packet was emptied: no first rule is asserted *)
(* behind an erased head (Strict leaves that out, and there it fails).     *)
THEOREM CallsFindAll ==
    ASSUME Strict
    PROVE  Spec => []CallFindsAll
<1>1. DbInv /\ ViewInv /\ WayInv => CallFindsAll
  BY CallFinds
<1>2. Spec => []DbInv
  BY DbInvariance
<1>3. Spec => []ViewInv
  BY ViewInvariance
<1>4. Spec => []WayInv
  BY WayInvariance
<1> QED BY <1>1, <1>2, <1>3, <1>4, PTL
=============================================================================
