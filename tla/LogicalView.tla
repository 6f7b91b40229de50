---------------------------- MODULE LogicalView ----------------------------
(* What a dynamic predicate promises (docs/PROLOG-SYNTAX-SEMANTICS-        *)
(* REFERENCE.md, 11.1): a goal runs the clauses that existed when it was   *)
(* called, in their order, whatever is asserted and retracted meanwhile; a *)
(* transaction that is undone leaves the predicate as it found it.         *)
EXTENDS Sequences, SequencesExt

CONSTANTS Keys,     \* the keys of clauses and goals
          Var,      \* the key of a clause whose first argument is a variable
          AnyKey    \* the key of a goal whose first argument is unbound

VARIABLES store,    \* the clauses, in order: records with an id and a key
          running,  \* a stack of goals: for each the clauses left to it, the current one first
          saved     \* a stack of transactions: the clauses and the goals at the opening of each
vars == <<store, running, saved>>

(* The clauses of a sequence that lie in S, in their order. *)
Only(s, S) ==
    LET kept[n \in 0..Len(s)] ==
            IF n = 0 THEN <<>> ELSE IF s[n] \in S THEN Append(kept[n - 1], s[n]) ELSE kept[n - 1]
    IN  kept[Len(s)]
Answers(c, key) == key = AnyKey \/ c.key \in {Var, key}
Base == IF saved = <<>> THEN 0 ELSE Last(saved).goals

Init == store = <<>> /\ running = <<>> /\ saved = <<>>

Call(key) ==
    LET due == Only(store, {c \in ToSet(store) : Answers(c, key)})
    IN  /\ running' = IF due = <<>> THEN running ELSE Append(running, due)
        /\ UNCHANGED <<store, saved>>
Redo ==
    /\ Len(running) > Base
    /\ running' = IF Len(Last(running)) = 1 THEN Front(running)
                  ELSE Append(Front(running), Tail(Last(running)))
    /\ UNCHANGED <<store, saved>>
Cut ==
    /\ Len(running) > Base
    /\ running' = Front(running)
    /\ UNCHANGED <<store, saved>>
Add ==
    /\ Len(store') = Len(store) + 1
    /\ store = Tail(store') \/ store = Front(store')
    /\ UNCHANGED <<running, saved>>
RemoveSome ==
    /\ store' = Only(store, ToSet(store'))
    /\ UNCHANGED <<running, saved>>
Open ==
    /\ saved' = Append(saved, [store |-> store, goals |-> Len(running)])
    /\ UNCHANGED <<store, running>>
Close ==
    /\ saved # <<>> /\ saved' = Front(saved)
    /\ running' = SubSeq(running, 1, Base)
    /\ store' \in {store, Last(saved).store}

Next == (\E key \in Keys \cup {AnyKey} : Call(key)) \/ Redo \/ Cut \/ Add \/ RemoveSome \/ Open \/ Close
Spec == Init /\ [][Next]_vars
=============================================================================
