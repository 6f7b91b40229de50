----------------------------- MODULE Coroutines -----------------------------
(***************************************************************************)
(* What co-expressions promise, with no threads and no semaphores: one     *)
(* context has control; it may create contexts, hand control and a value   *)
(* to any context that has not failed, return a value, or fail.  A return  *)
(* and a failure go to the nearest activator that has not failed itself.   *)
(***************************************************************************)
CONSTANTS CoExprs, Root, None, Values

Ctx == CoExprs \cup {Root}

VARIABLES
    holder,     \* the context that has control
    phase,      \* "unborn", "alive", "dead" and, once the program ends, "gone"
    activator,  \* who activated each context last; None: nobody has yet
    mail        \* what was last handed to each context

vars == <<holder, phase, activator, mail>>

Init ==
    /\ holder = Root
    /\ phase = [c \in Ctx |-> IF c = Root THEN "alive" ELSE "unborn"]
    /\ activator = [c \in Ctx |-> None]
    /\ mail = [c \in Ctx |-> None]

(* The contexts an answer of `me' may pass through: its activator and, as  *)
(* long as the context reached is dead, that one's activator.              *)
Chain(me, ph) ==
    LET Closed(S) == /\ activator[me] \in S
                     /\ \A x \in S : x \in Ctx /\ ph[x] = "dead" => activator[x] \in S
        AllCtx == Ctx \cup {None}
    IN  {x \in AllCtx : \A S \in SUBSET AllCtx : Closed(S) => x \in S}

(* Where the answer ends up: the live member of the chain, or the root.    *)
Answers(me, ph) ==
    LET live == {x \in Chain(me, ph) \ {None} : ph[x] = "alive"}
    IN  IF live = {} THEN {Root} ELSE live

Create(c) ==
    /\ phase[c] = "unborn"
    /\ phase' = [phase EXCEPT ![c] = "alive"]
    /\ UNCHANGED <<holder, activator, mail>>

Activate(t, v) ==
    /\ phase[t] = "alive"
    /\ holder' = t
    /\ activator' = [activator EXCEPT ![t] = holder]
    /\ mail' = [mail EXCEPT ![t] = v]
    /\ UNCHANGED phase

Return(v) ==
    /\ holder # Root
    /\ holder' \in Answers(holder, phase)
    /\ mail' = [mail EXCEPT ![holder'] = v]
    /\ UNCHANGED <<phase, activator>>

Fail ==
    /\ holder # Root
    /\ phase' = [phase EXCEPT ![holder] = "dead"]
    /\ holder' \in Answers(holder, phase')
    /\ UNCHANGED <<activator, mail>>

End ==
    /\ phase' = [c \in Ctx |-> "gone"]
    /\ UNCHANGED <<holder, activator, mail>>

Next ==
    \/ \E c \in CoExprs : phase[holder] = "alive" /\ Create(c)
    \/ \E t \in Ctx, v \in Values : phase[holder] = "alive" /\ Activate(t, v)
    \/ \E v \in Values : phase[holder] = "alive" /\ Return(v)
    \/ phase[holder] = "alive" /\ Fail
    \/ End

Spec == Init /\ [][Next]_vars
=============================================================================
