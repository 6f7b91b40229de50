------------------------------- MODULE HeapCap -------------------------------
(***************************************************************************)
(* The hard cap of the collected heap (runtime/rt/gc_heap.c).              *)
(*                                                                         *)
(* The heap is a window of a fixed reservation.  Allocation never          *)
(* collects: it bumps the top, commits more of the reservation when the    *)
(* window is spent and arms a collection that the next poll of the emitted *)
(* code runs.  The last page of the reservation is the error reserve.  In  *)
(* a program with a Prolog trail (the "road" of a catchable error) the     *)
(* request the cap refuses is served from that page and a resource error   *)
(* is marked due; the poll that follows collects and, if the page is still *)
(* not free, raises the error as a Prolog ball.  In other programs the     *)
(* request fails with error 204, which a SETEXIT handler may trap; the     *)
(* page is what the handler can allocate in.                               *)
(*                                                                         *)
(* Addresses are granules of 16 bytes from the start of the arena.         *)
(***************************************************************************)
EXTENDS Integers

CONSTANTS Window, \* granules committed at the start, and the least a growth commits
          Cap,    \* granules of the reservation
          Sizes,  \* sizes of the program's requests, titles included
          Ball,   \* size of the error term of the resource error
          Kept    \* what a collection may leave, beside leaving everything

Page == 256       \* 4096 bytes
Reserve == Page   \* GC_ERR_RESERVE

ASSUME HeapAssumption ==
    /\ Window \in Nat \ {0} /\ Window % Page = 0
    /\ Cap \in Nat /\ Cap % Page = 0
    /\ Window <= Cap
    /\ Sizes \subseteq Nat \ {0}
    /\ Ball \in Nat \ {0}
    /\ Kept \subseteq Nat

VARIABLES
    top,      \* g_hp_top
    end,      \* g_hp_end, the end of what is committed
    live,     \* hp_live, what the last collection kept
    due,      \* hp_cap_due: 0 none, 1 served from the reserve, 2 raised, 3 refused
    pending,  \* g_gc_pending, a collection is armed
    raising,  \* the poll has collected and is about to raise the due error
    road,     \* hp_cap_road, set when the Prolog trail is made
    fate,     \* "run", "error" (error 204), "refused" (exit 2)
    last,     \* history: the size of the last request
    trapped,  \* history: a SETEXIT handler has trapped an error 204
    chance    \* history: since the last raise a collection left the page free

vars == <<top, end, live, due, pending, raising, road, fate, last, trapped, chance>>

\* The road is declared by the prologue of a Prolog program (rt_pl_tr_init), so
\* it is there from the start or never: a document that mixes Prolog with
\* SNOBOL4, whose handlers trap error 204, is left out.
Init ==
    /\ top = 0
    /\ end = Window
    /\ live = 0
    /\ due = 0
    /\ pending = FALSE
    /\ raising = FALSE
    /\ road \in BOOLEAN
    /\ fate = "run"
    /\ last = 0
    /\ trapped = FALSE
    /\ chance = FALSE

Smaller(m, n) == IF m < n THEN m ELSE n
Larger(m, n) == IF m < n THEN n ELSE m
-----------------------------------------------------------------------------
\* The pages that hold n granules and one title more.
Pages(n) == Page * ((n \div Page) + 1)

\* What a growth for n wants: a window more than half live doubles.
Wanted(e, lv, n) ==
    Larger(Window, IF 2 * lv > e THEN Larger(Pages(n), e) ELSE Pages(n))

\* Mutants: the growth commits the reserve too, or whatever it wants.
GrownIntoReserve(e, lv, n) == e + Smaller(Wanted(e, lv, n), Cap - e)
GrownPastCap(e, lv, n) == e + Wanted(e, lv, n)

\* rt_gcheap_grow: the committed end after a growth, which never takes the
\* reserve.
Grown(e, lv, n) ==
    IF Cap - e > Reserve THEN e + Smaller(Wanted(e, lv, n), Cap - e - Reserve)
    ELSE e

GrownFor(n) == Grown(end, live, n)

(***************************************************************************)
(* The ways of a request of n granules.                                    *)
(***************************************************************************)
Fits(n) ==
    /\ top + n <= end
    /\ UNCHANGED end

FitsGrown(n) ==
    /\ top + n > end
    /\ top + n <= GrownFor(n)
    /\ end' = GrownFor(n)

\* The heap ends at the reserve, and the request fits in it.
FitsReserve(n) ==
    /\ top + n > GrownFor(n)
    /\ GrownFor(n) + Reserve = Cap
    /\ road
    /\ top + n <= Cap
    /\ end' = Cap

\* Mutant: the reserve is opened only to serve a request.
NoRoomReserveShut(n) ==
    /\ top + n > GrownFor(n)
    /\ ~(GrownFor(n) + Reserve = Cap /\ road /\ top + n <= Cap)
    /\ end' = GrownFor(n)

\* No way: the reserve is opened all the same if it is still closed.
NoRoom(n) ==
    /\ top + n > GrownFor(n)
    /\ ~(GrownFor(n) + Reserve = Cap /\ road /\ top + n <= Cap)
    /\ end' = IF GrownFor(n) + Reserve = Cap THEN Cap ELSE GrownFor(n)

Carve(n) ==
    /\ top' = top + n
    /\ last' = n
    /\ UNCHANGED <<live, road, fate, trapped>>

\* gc_cap_reserve_refuse while an error is due, else rt_heap_out_of_memory.
Fail(n) ==
    /\ NoRoom(n)
    /\ fate' = IF due \in {1, 3} THEN "refused" ELSE "error"
    /\ last' = n
    /\ pending' = TRUE
    /\ UNCHANGED <<top, live, due, raising, road, trapped, chance>>

Running == fate = "run" /\ ~raising

\* c_rt_gcheap_alloc.
Alloc(n) ==
    /\ Running
    /\ \/ /\ Carve(n)
          /\ \/ Fits(n) /\ UNCHANGED <<due, pending>>
             \/ FitsGrown(n) /\ pending' = TRUE /\ UNCHANGED due
             \/ FitsReserve(n) /\ pending' = TRUE /\ due' = 1
          /\ UNCHANGED <<raising, chance>>
       \/ Fail(n)

\* A leaf whose one request is more than the cap does not make it.
AskRefused ==
    /\ Running
    /\ road
    /\ due' = 3
    /\ pending' = TRUE
    /\ UNCHANGED <<top, end, live, raising, road, fate, last, trapped, chance>>

\* The top crosses the collection line, or the program asks to collect.
Request ==
    /\ Running
    /\ pending' = TRUE
    /\ UNCHANGED <<top, end, live, due, raising, road, fate, last, trapped, chance>>
-----------------------------------------------------------------------------
(***************************************************************************)
(* The poll.                                                               *)
(***************************************************************************)
PageFree(kept) == kept + Reserve <= Cap

\* Mutants: the reserve is closed over what is in it; only an error raised
\* already is cleared.
RearmsAlways(kept) == due \in {1, 2} /\ end = Cap
RearmsRaised(kept) == due = 2 /\ end = Cap /\ PageFree(kept)

\* gc_cap_rearm, once a collection has left the top at kept.
Rearms(kept) == due \in {1, 2} /\ end = Cap /\ PageFree(kept)

EndRearmed(kept) == IF Rearms(kept) THEN Cap - Reserve ELSE end

\* Less than GC_FREE_PCT percent of the window is free.
NearlyFull(e, kept) == e < Cap /\ (e - kept) * 100 < e * 15

\* The poll collects; in a resumable frame it goes on to raise a due error.
Poll(kept, resumable) ==
    /\ Running
    /\ pending
    /\ top' = kept
    /\ live' = kept
    /\ end' = IF NearlyFull(EndRearmed(kept), kept)
              THEN Grown(EndRearmed(kept), kept, 0) ELSE EndRearmed(kept)
    /\ due' = IF Rearms(kept) THEN 0 ELSE due
    /\ pending' = FALSE
    /\ raising' = (resumable /\ due' \in {1, 3})
    /\ chance' = (chance \/ PageFree(kept))
    /\ UNCHANGED <<road, fate, last, trapped>>

\* rt_pl_cap_raise: the error term is made, which may itself fail, and the
\* error is raised; what the flight released is for the next collection.
Raise ==
    /\ fate = "run"
    /\ raising
    /\ \/ /\ Carve(Ball)
          /\ Fits(Ball) \/ FitsGrown(Ball) \/ FitsReserve(Ball)
          /\ due' = 2
          /\ pending' = TRUE
          /\ raising' = FALSE
          /\ chance' = FALSE
       \/ Fail(Ball)

\* A SETEXIT handler takes the error 204; Prolog has none.
Trap ==
    /\ fate = "error"
    /\ ~road
    /\ fate' = "run"
    /\ trapped' = TRUE
    /\ UNCHANGED <<top, end, live, due, pending, raising, road, last, chance>>

Next ==
    \/ \E n \in Sizes : Alloc(n)
    \/ AskRefused
    \/ Request
    \/ \E kept \in {k \in Kept : k <= top} \cup {top}, resumable \in BOOLEAN :
           Poll(kept, resumable)
    \/ Raise
    \/ Trap

Spec == Init /\ [][Next]_vars
-----------------------------------------------------------------------------
TypeOK ==
    /\ end \in Nat /\ end % Page = 0 /\ end <= Cap
    /\ top \in Nat /\ top <= end
    /\ live \in Nat
    /\ due \in 0..3
    /\ pending \in BOOLEAN
    /\ raising \in BOOLEAN
    /\ road \in BOOLEAN
    /\ fate \in {"run", "error", "refused"}
    /\ last \in Nat
    /\ trapped \in BOOLEAN
    /\ chance \in BOOLEAN

(***************************************************************************)
(* Where there is a road, a request the cap refuses ends in error 204,     *)
(* which Prolog cannot catch, only if the request alone is more than the   *)
(* reserve, or if an error was raised before and no collection since has   *)
(* found the reserve's page free.                                          *)
(***************************************************************************)
CapIsCatchable ==
    (fate = "error" /\ road) => (last > Reserve \/ (due = 2 /\ ~chance))

(***************************************************************************)
(* Where there is no road, the handler of the first error 204 finds the    *)
(* whole reserve open and nothing in it.                                   *)
(***************************************************************************)
HandlerHasRoom ==
    (fate = "error" /\ ~road /\ ~trapped) => (end = Cap /\ top + Reserve <= Cap)

(***************************************************************************)
(* An error due for a request served from the reserve is raised only when  *)
(* the collection before it left the page in use: a request that would     *)
(* have fitted after the collection is never an error.                     *)
(***************************************************************************)
NotRaisedInVain == [][(due = 1 /\ due' = 2) => top + Reserve > Cap]_vars

(***************************************************************************)
(* The invariant of the proofs.                                            *)
(***************************************************************************)
\* No error is owed: the reserve is closed.
ReserveClosed ==
    (fate = "run" /\ due = 0 /\ ~trapped) => end <= Cap - Reserve

RoadIsTaken == (due # 0 => road) /\ (trapped => ~road)

ServedMeansOpen == due = 1 => end = Cap

RaisingIsDue == raising => (due \in {1, 3} /\ (due = 1 => top + Reserve > Cap))

RearmedWhenFree == (fate = "run" /\ due = 2 /\ chance) => end <= Cap - Reserve

HeapInv ==
    /\ TypeOK
    /\ ReserveClosed
    /\ RoadIsTaken
    /\ ServedMeansOpen
    /\ RaisingIsDue
    /\ RearmedWhenFree
    /\ CapIsCatchable
    /\ HandlerHasRoom
=============================================================================
