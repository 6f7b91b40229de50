----------------------------- MODULE PlDatabase -----------------------------
(* One dynamic predicate of the Prolog database (runtime/unification.c):   *)
(* its slots and their generations, the first-argument index, the two ways *)
(* it is called (a data walk, or one compiled fragment per clause), the    *)
(* reclaiming of the code of erased clauses, and transactions.             *)
EXTENDS Integers, Sequences, FiniteSets, FiniteSetsExt, SequencesExt

CONSTANTS Clauses,    \* what may be asserted: records with a key and a flag, rule
          Keys,       \* the keys of clauses and goals
          Var, AnyKey,   \* no key: of a clause, of a goal
          Cap0,       \* the first size of the slot array (the code has 8)
          IxMin,      \* an index is built from so many slots on (PL_IX_MIN)
          Every,      \* a reclaim runs after so many erasures without a collection (1024)
          MaxSlots, MaxRef, MaxGoals, MaxTx,   \* bounds
          Strict      \* the two steps after which a call goes wrong are left out

ASSUME Parameters ==
    /\ {Cap0, IxMin, Every, MaxSlots, MaxRef, MaxGoals, MaxTx} \subseteq Nat /\ Cap0 > 0
    /\ Clauses \subseteq [key : Keys \cup {Var}, rule : BOOLEAN]
    /\ Var \notin Keys /\ AnyKey \notin Keys /\ Strict \in BOOLEAN

VARIABLES db,      \* the store of the predicate (pl_db_t)
          goals,   \* a stack of goals that wait or run: their clause, their generation
          txs,     \* a stack of open transactions: their log, the goals below them
          fresh    \* a collection has run since the last reclaim
vars == <<db, goals, txs, fresh>>

None == 0
NoIx == [cap |-> 0]
ASSUME NoneIsNoSlot == None \notin 1..MaxSlots

Slots(d) == 1..Len(d.slots)
Visible(s, gen) == s.ref < gen /\ (s.erased = 0 \/ s.erased >= gen)
Erased(d, i) == d.slots[i].erased # 0

(* The slots in S in the order of the packet.                              *)
Packet(d, S) ==
    LET from[i \in 0..Len(d.slots)] ==
            IF i = None THEN <<>>
            ELSE (IF i \in S THEN <<i>> ELSE <<>>) \o from[d.slots[i].next]
    IN  from[d.head]
Live(d) == Packet(d, {i \in Slots(d) : ~Erased(d, i)})

---------------------------------------------------------------------------
(* The index: for each key its slots in packet order.                      *)
ChainOf(d, key) == Packet(d, {i \in Slots(d) : d.slots[i].key = key})
IxBuild(d) ==
    IF \E i \in Slots(d) : d.slots[i].key = Var THEN [d EXCEPT !.ix = NoIx, !.ixOff = TRUE]
    ELSE [d EXCEPT !.ix = [cap |-> d.cap, of |-> [key \in Keys |-> ChainOf(d, key)]]]
IxLink(d, i, front) ==
    [d EXCEPT !.ix.of[d.slots[i].key] = IF front THEN <<i>> \o @ ELSE Append(@, i)]
IxFull(d, i) ==
    \/ i > d.ix.cap
    \/ Cardinality({key \in Keys : d.ix.of[key] # <<>>}) + 1 > d.ix.cap
(* Mutant: a clause with a variable leaves the index on.                   *)
IxNoteKeeps(d, i, front) ==
    IF d.slots[i].key = Var THEN d
    ELSE IF d.ix = NoIx THEN IF Len(d.slots) >= IxMin THEN IxBuild(d) ELSE d
    ELSE IF IxFull(d, i) THEN IxBuild(d)
    ELSE IxLink(d, i, front)
IxNote(d, i, front) ==
    IF d.ixOff THEN d
    ELSE IF d.slots[i].key = Var THEN [d EXCEPT !.ix = NoIx, !.ixOff = TRUE]
    ELSE IF d.ix = NoIx THEN IF Len(d.slots) >= IxMin THEN IxBuild(d) ELSE d
    ELSE IF IxFull(d, i) THEN IxBuild(d)
    ELSE IxLink(d, i, front)

(* The next candidate of a data walk: by the index where there is one.     *)
Rejects(d, i, key) == key # AnyKey /\ d.slots[i].key \notin {Var, key}
After(chain, i) == LET n == CHOOSE n \in 1..Len(chain) : chain[n] = i
                   IN  IF n = Len(chain) THEN None ELSE chain[n + 1]
CandStep(d, i, key) ==
    LET walk[j \in 0..Len(d.slots)] == IF j = None \/ d.slots[j].key = key THEN j ELSE walk[d.slots[j].next]
    IN  IF d.ix = NoIx \/ key = AnyKey THEN d.slots[i].next
        ELSE IF i <= d.ix.cap /\ d.slots[i].key = key THEN After(d.ix.of[key], i)
        ELSE walk[d.slots[i].next]
Unrejected(d, i, key) ==
    LET skip[j \in 0..Len(d.slots)] == IF j = None \/ ~Rejects(d, j, key) THEN j ELSE skip[CandStep(d, j, key)]
    IN  skip[i]
CandFirst(d, key) ==
    Unrejected(d, IF d.ix = NoIx \/ key = AnyKey THEN d.head
                  ELSE IF d.ix.of[key] = <<>> THEN None ELSE d.ix.of[key][1], key)
CandNext(d, i, key) == Unrejected(d, CandStep(d, i, key), key)

(* The next slot a goal stops at, from slot i on (None: it fails).         *)
StepOf(d, g, i) == IF g.code THEN d.slots[i].next ELSE CandNext(d, i, g.key)
Stop(d, g, i) ==
    LET walk[j \in 0..Len(d.slots)] == IF j = None \/ Visible(d.slots[j], g.gen) THEN j ELSE walk[StepOf(d, g, j)]
    IN  walk[i]
(* All the slots a goal has yet to stop at, the current one first.         *)
Remaining(d, g) ==
    LET from[i \in 0..Len(d.slots)] == IF i = None THEN <<>> ELSE <<i>> \o from[Stop(d, g, StepOf(d, g, i))]
    IN  from[g.at]

---------------------------------------------------------------------------
(* The code of a clause and the way in. Code is none, live, gone, or late: *)
(* live, but compiled when a goal came to a clause already erased.         *)
HasCode(d, i) == d.slots[i].code \in {"live", "late"}
Fragment(d, i) ==
    LET c == [d EXCEPT !.slots[i].code = IF Erased(d, i) THEN "late" ELSE "live"]
    IN  IF c.slots[c.head].code # "none" THEN [c EXCEPT !.way = "code", !.entry = c.head] ELSE c
Ensure(d, i) == IF i # None /\ d.slots[i].code = "none" THEN Fragment(d, i) ELSE d

InstallFirst(d) ==
    LET first == Live(d)[1]
    IN  [Ensure(d, first) EXCEPT !.way = "code", !.entry = first]
(* pl_db_place: facts stay data as long as no rule has come.               *)
Place(d, i, rule) ==
    IF d.mode # "code" /\ ~rule THEN [d EXCEPT !.mode = "data", !.way = IF d.mode = "data" THEN @ ELSE "data"]
    ELSE IF d.mode # "code" THEN InstallFirst(Fragment([d EXCEPT !.mode = "code"], i))
    ELSE Fragment(d, i)

(* Where a call of the predicate enters: the slot of the entry if it is    *)
(* visible, else the first visible one from the head.                      *)
Fresh(d, key) == [key |-> IF d.way = "data" THEN key ELSE AnyKey, gen |-> d.nextRef, code |-> d.way = "code", at |-> None]
EntersAt(d, g) ==
    IF d.way \in {"none", "absent"} THEN None
    ELSE IF ~g.code THEN Stop(d, g, CandFirst(d, g.key))
    ELSE IF Visible(d.slots[d.entry], g.gen) THEN d.entry
    ELSE Stop(d, g, d.head)
Called(d, key) == LET g == Fresh(d, key) IN [g EXCEPT !.at = EntersAt(d, g)]

---------------------------------------------------------------------------
(* Reclaiming the code of erased clauses.                                  *)
Candidate(d, i) == Erased(d, i) /\ HasCode(d, i) /\ i # d.head /\ i # d.entry
Held == {goals[n].at : n \in {m \in 1..Len(goals) : goals[m].code}}
(* No goal that holds code can have begun before this generation.          *)
Oldest(d) == IF Held = {} THEN MaxRef + 1 ELSE Min({d.slots[i].ref + 1 : i \in Held})
ReclaimableAlone(d, i) == Candidate(d, i) /\ i \notin Held   \* mutant: code a goal will come to is taken
Reclaimable(d, i) == Candidate(d, i) /\ i \notin Held /\ d.slots[i].erased < Oldest(d)

ReclaimDue(d) ==
    /\ \E i \in Slots(d) : d.slots[i].code # "none"
    /\ d.since > 0 /\ d.pins = 0
    /\ fresh \/ d.since >= Every
(* ok: the walk over the frames could name every frame.                    *)
Reclaim(d, ok) ==
    LET cands == {i \in d.lo..Len(d.slots) : Candidate(d, i)}
        gone  == IF ok THEN {i \in cands : Reclaimable(d, i)} ELSE {}
        kept  == cands \ gone
    IN  IF ~ReclaimDue(d) THEN d
        ELSE [d EXCEPT !.since = 0,
                       !.slots = [i \in Slots(d) |-> IF i \in gone THEN [d.slots[i] EXCEPT !.code = "gone"] ELSE d.slots[i]],
                       !.lo = IF kept = {} THEN Len(d.slots) + 1 ELSE Min(kept)]

---------------------------------------------------------------------------
(* Updates.                                                                *)
Bump(d) == [d EXCEPT !.nextRef = @ + 1]
NoteErase(d, i, gen) ==
    [d EXCEPT !.slots[i].erased = gen, !.since = @ + 1, !.lo = IF i < @ THEN i ELSE @]
EraseSlot(d, i, gen) == [NoteErase(d, i, gen) EXCEPT !.pins = IF txs = <<>> THEN @ ELSE @ + 1]
EraseEach(d, seq, gens) ==
    LET after[n \in 0..Len(seq)] == IF n = 0 THEN d ELSE EraseSlot(after[n - 1], seq[n], gens[n])
    IN  after[Len(seq)]

(* Mutant: a new head does not send the scan back to the old one.          *)
LoKept(d) == d.lo
LoAtOldHead(d) == IF d.head # None /\ d.head < d.lo THEN d.head ELSE d.lo
Linked(d, i, front) ==
    IF front THEN [d EXCEPT !.slots[i].next = d.head, !.head = i,
                            !.tail = IF @ = None THEN i ELSE @,
                            !.lo = LoAtOldHead(d)]
    ELSE IF d.tail = None THEN [d EXCEPT !.head = i, !.tail = i]
    ELSE [d EXCEPT !.slots[d.tail].next = i, !.tail = i]
Stored(d, c) ==
    [d EXCEPT !.slots = Append(@, [key |-> c.key, ref |-> d.nextRef, erased |-> 0, next |-> None, code |-> "none"]),
              !.cap = IF Len(d.slots) >= @ THEN 2 * @ ELSE @,
              !.nextRef = @ + 1]

Logged(records) ==
    IF txs = <<>> THEN txs ELSE Append(Front(txs), [Last(txs) EXCEPT !.log = records \o @])
Rec(kind, i) == [kind |-> kind, slot |-> i]
Base == IF txs = <<>> THEN 0 ELSE Last(txs).goals

---------------------------------------------------------------------------
(* Actions.                                                                *)
Call(key) ==
    /\ Len(goals) < MaxGoals
    /\ LET g == Called(db, key)
       IN  /\ goals' = IF g.at = None THEN goals ELSE Append(goals, g)
           /\ db' = IF g.code THEN Ensure(db, g.at) ELSE db
    /\ UNCHANGED <<txs, fresh>>

(* clause/2 and retract/1 walk the slots themselves, also of compiled code.*)
CallWalk(key) ==
    /\ Len(goals) < MaxGoals
    /\ LET g  == [key |-> key, gen |-> db.nextRef, code |-> FALSE, at |-> None]
           at == Stop(db, g, CandFirst(db, key))
       IN  goals' = IF at = None THEN goals ELSE Append(goals, [g EXCEPT !.at = at])
    /\ UNCHANGED <<db, txs, fresh>>

Redo ==
    /\ Len(goals) > Base
    /\ LET g  == Last(goals)
           at == Stop(db, g, StepOf(db, g, g.at))
       IN  /\ goals' = IF at = None THEN Front(goals) ELSE Append(Front(goals), [g EXCEPT !.at = at])
           /\ db' = IF g.code THEN Ensure(db, at) ELSE db
    /\ UNCHANGED <<txs, fresh>>

(* A cut, a deterministic exit or an error leaves the youngest goal.       *)
Cut ==
    /\ Len(goals) > Base
    /\ goals' = Front(goals)
    /\ UNCHANGED <<db, txs, fresh>>

HeadDead(d) == d.head # None /\ Erased(d, d.head)

AssertClause(c, front) ==
    /\ Len(db.slots) < MaxSlots /\ db.nextRef < MaxRef
    /\ Strict => ~(c.rule /\ db.mode # "code" /\ HeadDead(db) /\ ~front)
    /\ \E ok \in BOOLEAN :
           LET i == Len(db.slots) + 1
               r == Reclaim(db, ok)
               s == IxNote(Linked(Stored(r, c), i, front), i, front)
           IN  /\ db' = Place(s, i, c.rule)
               /\ txs' = Logged(<<Rec(IF front THEN "asserta" ELSE "assertz", i)>>)
               /\ fresh' = (fresh /\ ~ReclaimDue(db))
    /\ UNCHANGED goals

(* erase/1, and a retract/1 whose walk has stopped at slot i.              *)
Erase(i) ==
    /\ i \in Slots(db) /\ ~Erased(db, i) /\ db.nextRef < MaxRef
    /\ \E ok \in BOOLEAN :
           LET e == EraseSlot(Bump(db), i, db.nextRef)
           IN  db' = Reclaim(e, ok) /\ fresh' = (fresh /\ ~ReclaimDue(e))
    /\ txs' = Logged(<<Rec("erase", i)>>)
    /\ UNCHANGED goals

(* Those of a sequence that lie in S, in their order.                      *)
Only(s, S) ==
    LET kept[n \in 0..Len(s)] ==
            IF n = 0 THEN <<>> ELSE IF s[n] \in S THEN Append(kept[n - 1], s[n]) ELSE kept[n - 1]
    IN  kept[Len(s)]

(* retractall/1: every clause erased with a generation of its own.         *)
RetractAll(key) ==
    LET hits == {i \in Slots(db) : ~Erased(db, i) /\ ~Rejects(db, i, key)}
        seq  == Only(IF db.ix = NoIx \/ key = AnyKey THEN [i \in Slots(db) |-> i] ELSE db.ix.of[key], hits)
        all  == EraseEach([db EXCEPT !.nextRef = @ + Len(seq)], seq, [n \in DOMAIN seq |-> db.nextRef + n - 1])
    IN  /\ hits # {} /\ db.nextRef + Len(seq) <= MaxRef
        /\ \E ok \in BOOLEAN : db' = Reclaim(all, ok) /\ fresh' = (fresh /\ ~ReclaimDue(all))
        /\ txs' = Logged(Reverse([n \in 1..Len(seq) |-> Rec("erase", seq[n])]))
        /\ UNCHANGED goals

(* abolish/1: every clause with one generation, and a stub that raises.    *)
Abolish ==
    LET seq == Only([i \in Slots(db) |-> i], {i \in Slots(db) : ~Erased(db, i)})
        all == EraseEach(Bump(db), seq, [n \in DOMAIN seq |-> db.nextRef])
        off == [all EXCEPT !.mode = IF @ = "data" THEN "fresh" ELSE @,
                           !.way = IF db.slots = <<>> THEN @ ELSE "absent"]
    IN  /\ db.nextRef < MaxRef
        /\ Strict => txs = <<>>
        /\ \E ok \in BOOLEAN : db' = Reclaim(off, ok) /\ fresh' = (fresh /\ ~ReclaimDue(off))
        /\ txs' = Logged(Reverse([n \in 1..Len(seq) |-> Rec("erase", seq[n])]))
        /\ UNCHANGED goals

Open ==
    /\ Len(txs) < MaxTx
    /\ txs' = Append(txs, [log |-> <<>>, goals |-> Len(goals)])
    /\ UNCHANGED <<db, goals, fresh>>

(* The records of a log, newest first.                                     *)
Unpin(d) == [d EXCEPT !.pins = IF @ > 0 THEN @ - 1 ELSE @]
Kept(d, r) == IF r.kind = "erase" THEN Unpin(d) ELSE d
Undone(d, r) ==
    IF r.kind = "erase" THEN [Unpin(d) EXCEPT !.slots[r.slot].erased = 0]
    ELSE IF ~Erased(d, r.slot) THEN NoteErase(Bump(d), r.slot, d.nextRef)
    ELSE d
TxDb(d, log, undo) ==
    LET after[n \in 0..Len(log)] ==
            IF n = 0 THEN d
            ELSE IF undo THEN Undone(after[n - 1], log[n]) ELSE Kept(after[n - 1], log[n])
    IN  after[Len(log)]

Commit ==
    /\ txs # <<>>
    /\ IF Len(txs) > 1
       THEN /\ txs' = Append(SubSeq(txs, 1, Len(txs) - 2), [txs[Len(txs) - 1] EXCEPT !.log = Last(txs).log \o @])
            /\ db' = db
       ELSE txs' = <<>> /\ db' = TxDb(db, Last(txs).log, FALSE)
    /\ goals' = SubSeq(goals, 1, Base)
    /\ UNCHANGED fresh
Undo ==
    /\ txs # <<>> /\ db.nextRef + Len(Last(txs).log) <= MaxRef + 2
    /\ txs' = Front(txs)
    /\ db' = TxDb(db, Last(txs).log, TRUE)
    /\ goals' = SubSeq(goals, 1, Base)
    /\ UNCHANGED fresh

Collect == fresh' = TRUE /\ UNCHANGED <<db, goals, txs>>

Init ==
    /\ db = [slots |-> <<>>, cap |-> Cap0, head |-> None, tail |-> None, nextRef |-> 1,
             ix |-> NoIx, ixOff |-> FALSE, mode |-> "fresh", way |-> "none", entry |-> None,
             since |-> 0, lo |-> 1, pins |-> 0]
    /\ goals = <<>> /\ txs = <<>> /\ fresh = TRUE

Next ==
    \/ \E key \in Keys \cup {AnyKey} : Call(key) \/ CallWalk(key) \/ RetractAll(key)
    \/ Redo \/ Cut \/ Abolish \/ Open \/ Commit \/ Undo \/ Collect
    \/ \E c \in Clauses, front \in BOOLEAN : AssertClause(c, front)
    \/ \E i \in 1..MaxSlots : Erase(i)

Spec == Init /\ [][Next]_vars

---------------------------------------------------------------------------
(* What the database promises.                                             *)

(* The clauses, the goals and the transactions as the abstract view has    *)
(* them.                                                                   *)
Shown(d, seq) == [n \in 1..Len(seq) |-> [id |-> seq[n], key |-> d.slots[seq[n]].key]]
(* The slots that would be live if the transactions from n on were undone. *)
LiveBefore(d, ts, n) ==
    LET records == UNION {ToSet(ts[m].log) : m \in n..Len(ts)}
    IN  {i \in Slots(d) : /\ ~Erased(d, i) \/ Rec("erase", i) \in records
                          /\ {Rec("asserta", i), Rec("assertz", i)} \cap records = {}}
StoreOf(d) == Shown(d, Live(d))
RunningOf(d, gs) == [n \in 1..Len(gs) |-> Shown(d, Remaining(d, gs[n]))]
SavedOf(d, ts) ==
    [n \in 1..Len(ts) |-> [store |-> Shown(d, Packet(d, LiveBefore(d, ts, n))), goals |-> ts[n].goals]]

View == INSTANCE LogicalView
            WITH store <- StoreOf(db), running <- RunningOf(db, goals), saved <- SavedOf(db, txs)

(* Goals run the clauses of the moment they were called, in order, each    *)
(* once, over every update, reclaim, change to compiled code and           *)
(* transaction; and an undone transaction leaves the clauses it found.     *)
ImplementsView == View!Spec

(* A goal that runs or waits finds the code of every clause it has yet to  *)
(* come to, and so does the next call: reclaiming never takes it.          *)
CodeIsThere ==
    /\ \A n \in 1..Len(goals) : goals[n].code =>
           \A i \in ToSet(Remaining(db, goals[n])) : db.slots[i].code # "gone"
    /\ \A i \in ToSet(Live(db)) : db.slots[i].code # "gone"
    /\ db.way = "code" => HasCode(db, db.entry)

(* The scan for code to reclaim never passes for good over a slot that has *)
(* become reclaimable: all candidates are at or after its start. (Code     *)
(* compiled for a goal after its clause was erased may lie before it.)     *)
NothingForgotten == \A i \in Slots(db) : Candidate(db, i) /\ db.slots[i].code = "live" => i >= db.lo

(* A call made now runs exactly the clauses there are, in order ("A goal   *)
(* sees the set of clauses that existed when the goal was called").        *)
CallFindsAll == LET g == Called(db, AnyKey)
                IN  (IF g.at = None THEN <<>> ELSE Remaining(db, g)) = Live(db)
=============================================================================
