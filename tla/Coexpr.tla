------------------------------- MODULE Coexpr -------------------------------
(***************************************************************************)
(* Co-expressions of the Icon runtime (src/src/runtime/rt/rt_coexpr.c and  *)
(* the boxes IR_CREATE, IR_ACTIVATE, IR_CORET and IR_COFAIL).              *)
(*                                                                         *)
(* Every context is an operating-system thread with a semaphore of its     *)
(* own; control is handed from thread to thread by posting the other one's *)
(* semaphore and then waiting on one's own.  Between the post and the wait *)
(* both threads are runnable, so the hand-off is several steps here:       *)
(*    the switch is prepared   (records written, pc = "posting"),          *)
(*    the other one is posted  (pc = the way the switcher is parked),      *)
(*    the other one wakes      (one of the Wake actions).                  *)
(* A co-expression's thread is started when it is created; it copies the   *)
(* creator's frame while the creator is blocked on `created'.              *)
(***************************************************************************)
EXTENDS Integers

CONSTANTS
    CoExprs,   \* the contexts scrip_coexpr_create may return
    Root,      \* g_runtime.coexpr.root_ctx, the context of the main program
    None,      \* a null context pointer
    Values,    \* what an activation or a return may transmit
    Versions,  \* the contents a frame may have
    HopLimit   \* the 64 hops of scrip_co_live_activator

Ctx == CoExprs \cup {Root}

ASSUME ConstantsAssumption ==
    /\ Root \notin CoExprs
    /\ None \notin Ctx
    /\ Versions # {}
    /\ HopLimit \in Nat

VARIABLES
    current,    \* g_scrip_co_current
    inited,     \* g_runtime.coexpr.inited
    pc,         \* where each context's thread is
    park,       \* how a thread that is "posting" will be parked
    peer,       \* the context its last switch or creation named
    prev,       \* the local `prev' of scrip_coexpr_activate
    sem,        \* value of each context's semaphore
    created,    \* value of each `created' semaphore
    alive, dead, activator, xmit, env,  \* the fields of scrip_coctx_t
    regs,       \* does the thread hold the scanning environment in r13..r15
    frame,      \* the contents of the frame a context's body runs on
    image,      \* the snapshot on the context's own stack
    src,        \* image_src until the copy is made: whose frame or image
    stray       \* a second thread waits on the root's semaphore

control == <<current, inited, pc, park, peer, prev, sem, created>>
record  == <<alive, dead, activator, xmit, env, regs>>
frames  == <<frame, image, src>>
vars    == <<control, record, frames, stray>>

ParkedStates  == {"activating", "yielded", "failed"}
WaitingStates == ParkedStates \cup {"idle"}
States == WaitingStates \cup
          {"absent", "copying", "running", "awaitCreated", "posting", "gone"}

Sources == ({"frame"} \X Ctx) \cup ({"image"} \X CoExprs)
NoSource == <<"frame", Root>>

TypeOK ==
    /\ current \in Ctx \cup {None}
    /\ inited \in BOOLEAN
    /\ pc \in [Ctx -> States]
    /\ park \in [Ctx -> ParkedStates]
    /\ peer \in [Ctx -> Ctx]
    /\ prev \in [Ctx -> Ctx \cup {None}]
    /\ sem \in [Ctx -> Nat]
    /\ created \in [CoExprs -> Nat]
    /\ alive \in [Ctx -> BOOLEAN]
    /\ dead \in [Ctx -> BOOLEAN]
    /\ activator \in [Ctx -> Ctx \cup {None}]
    /\ xmit \in [Ctx -> Values \cup {None}]
    /\ env \in [Ctx -> BOOLEAN]
    /\ regs \in [Ctx -> BOOLEAN]
    /\ frame \in [Ctx -> Versions]
    /\ image \in [CoExprs -> Versions]
    /\ src \in [CoExprs -> Sources]
    /\ stray \in BOOLEAN

Init ==
    /\ current = None
    /\ inited = FALSE
    /\ pc = [c \in Ctx |-> IF c = Root THEN "running" ELSE "absent"]
    /\ park = [c \in Ctx |-> "activating"]
    /\ peer = [c \in Ctx |-> Root]
    /\ prev = [c \in Ctx |-> None]
    /\ sem = [c \in Ctx |-> 0]
    /\ created = [c \in CoExprs |-> 0]
    /\ alive = [c \in Ctx |-> FALSE]
    /\ dead = [c \in Ctx |-> FALSE]
    /\ activator = [c \in Ctx |-> None]
    /\ xmit = [c \in Ctx |-> None]
    /\ env = [c \in Ctx |-> FALSE]
    /\ regs = [c \in Ctx |-> c = Root]
    /\ \E x \in Versions : /\ frame = [c \in Ctx |-> x]
                          /\ image = [c \in CoExprs |-> x]
    /\ src = [c \in CoExprs |-> NoSource]
    /\ stray = FALSE

-----------------------------------------------------------------------------
(* The context that has control, as rt_co_env and &current resolve it. *)
Holder == IF current = None THEN Root ELSE current

(* Mutants: definitions beside the ones they replace, each a plausible     *)
(* slip in the code, which some property must notice.                      *)
(* The loop of scrip_co_live_activator: from the activator of `me' on, as  *)
(* long as the context reached is dead.  d is the dead flags.              *)
Stops(b, d) == b \in {None, Root} \/ ~d[b]

Walk(me, d) ==
    LET hop[n \in 0..HopLimit] ==
            IF n = 0 THEN activator[me]
            ELSE IF Stops(hop[n - 1], d) THEN hop[n - 1]
            ELSE activator[hop[n - 1]]
    IN  hop[HopLimit]

LiveActivatorEvenDead(me, d) ==
    IF activator[me] = None THEN Root ELSE activator[me]

LiveActivatorOneHop(me, d) ==
    LET b == activator[me] IN IF b # None /\ Stops(b, d) THEN b ELSE Root

(* The nearest activator that has not failed; the root when the chain      *)
(* leads nowhere or is longer than the hop limit.                          *)
LiveActivator(me, d) ==
    LET b == Walk(me, d) IN IF b # None /\ Stops(b, d) THEN b ELSE Root

PrepareSwitchKeepingEnv(old, new, how) ==
    /\ env' = [env EXCEPT ![new] = regs[old], ![old] = regs[old]]
    /\ regs' = [regs EXCEPT ![old] = FALSE]
    /\ pc' = [pc EXCEPT ![old] = "posting"]
    /\ park' = [park EXCEPT ![old] = how]
    /\ peer' = [peer EXCEPT ![old] = new]

PrepareSwitchClearingFirst(old, new, how) ==
    /\ env' = [env EXCEPT ![old] = FALSE, ![new] = FALSE]
    /\ regs' = [regs EXCEPT ![old] = FALSE]
    /\ pc' = [pc EXCEPT ![old] = "posting"]
    /\ park' = [park EXCEPT ![old] = how]
    /\ peer' = [peer EXCEPT ![old] = new]

(* The first lines of scrip_coswitch, up to the post.  The environment     *)
(* words move to the new context's record and the old record is cleared,   *)
(* in that order.                                                          *)
PrepareSwitch(old, new, how) ==
    /\ env' = [env EXCEPT ![new] = regs[old], ![old] = FALSE]
    /\ regs' = [regs EXCEPT ![old] = FALSE]
    /\ pc' = [pc EXCEPT ![old] = "posting"]
    /\ park' = [park EXCEPT ![old] = how]
    /\ peer' = [peer EXCEPT ![old] = new]

PostLost(c) ==
    /\ pc[c] = "posting"
    /\ pc' = [pc EXCEPT ![c] = park[c]]
    /\ UNCHANGED <<current, inited, park, peer, prev, sem, created, record, frames, stray>>

(* sem_post(new_ctx->semp); the switcher goes on to wait on its own. *)
Post(c) ==
    /\ pc[c] = "posting"
    /\ sem' = [sem EXCEPT ![peer[c]] = @ + 1]
    /\ pc' = [pc EXCEPT ![c] = park[c]]
    /\ UNCHANGED <<current, inited, park, peer, prev, created, record, frames, stray>>

(* A wait that returns: the semaphore goes down and the box that made the  *)
(* switch takes the environment out of its context's record.  The locals   *)
(* of the call that returns (park, peer, prev) are gone.                   *)
Wake(c, from) ==
    /\ pc[c] = from
    /\ sem[c] > 0
    /\ sem' = [sem EXCEPT ![c] = @ - 1]
    /\ pc' = [pc EXCEPT ![c] = "running"]
    /\ regs' = [regs EXCEPT ![c] = env[c]]
    /\ env' = [env EXCEPT ![c] = FALSE]
    /\ park' = [park EXCEPT ![c] = "activating"]
    /\ peer' = [peer EXCEPT ![c] = Root]
    /\ prev' = [prev EXCEPT ![c] = None]

(* The trampoline's first wake: the body starts on a copy of its image. *)
WakeFirst(c) ==
    /\ c # Root
    /\ Wake(c, "idle")
    /\ current' = c
    /\ frame' = [frame EXCEPT ![c] = image[c]]
    /\ UNCHANGED <<inited, created, alive, dead, activator, xmit, image, src,
                   stray>>

(* The rest of scrip_coexpr_activate once the switch comes back: it fails  *)
(* if the target has died, and otherwise yields what is in its own xmit.   *)
WakeActivate(c) ==
    /\ Wake(c, "activating")
    /\ current' = prev[c]
    /\ UNCHANGED <<inited, created, alive, dead, activator, xmit, frames, stray>>

(* scrip_coret returns: the body goes on to its next result. *)
WakeYield(c) ==
    /\ Wake(c, "yielded")
    /\ UNCHANGED <<current, inited, created, alive, dead, activator, xmit, frames, stray>>
-----------------------------------------------------------------------------
StartThreadWithoutWaiting(r, c, from) ==
    /\ pc[r] = "running"
    /\ pc[c] = "absent"
    /\ inited' = TRUE
    /\ alive' = [alive EXCEPT ![c] = TRUE, ![Root] = TRUE]
    /\ src' = [src EXCEPT ![c] = from]
    /\ pc' = [pc EXCEPT ![c] = "copying"]
    /\ peer' = [peer EXCEPT ![r] = c]
    /\ UNCHANGED <<current, park, prev, sem, created, dead, activator, xmit,
                   env, regs, frame, image, stray>>

(* scrip_coexpr_create in the running context r, for its own frame, and    *)
(* scrip_coexpr_refresh, which calls it for the image of another context.  *)
(* r blocks on `created' until the new thread has copied the frame.        *)
StartThread(r, c, from) ==
    /\ pc[r] = "running"
    /\ pc[c] = "absent"
    /\ inited' = TRUE
    /\ alive' = [alive EXCEPT ![c] = TRUE, ![Root] = TRUE]
    /\ src' = [src EXCEPT ![c] = from]
    /\ pc' = [pc EXCEPT ![r] = "awaitCreated", ![c] = "copying"]
    /\ peer' = [peer EXCEPT ![r] = c]
    /\ UNCHANGED <<current, park, prev, sem, created, dead, activator, xmit,
                   env, regs, frame, image, stray>>

Create(r, c) == c # Root /\ StartThread(r, c, <<"frame", r>>)

Refresh(r, c, o) ==
    /\ c # Root /\ o # Root
    /\ pc[o] # "absent"
    /\ StartThread(r, c, <<"image", o>>)

(* The eager half of the trampoline: copy the frame, post `created'. *)
CopyImage(c) ==
    /\ pc[c] = "copying"
    /\ image' = [image EXCEPT ![c] = IF src[c][1] = "frame" THEN frame[src[c][2]]
                                                            ELSE image[src[c][2]]]
    /\ created' = [created EXCEPT ![c] = @ + 1]
    /\ pc' = [pc EXCEPT ![c] = "idle"]
    /\ src' = [src EXCEPT ![c] = NoSource]
    /\ UNCHANGED <<current, inited, park, peer, prev, sem, record, frame, stray>>

CreateReturnsEarly(r) ==
    /\ pc[r] = "awaitCreated"
    /\ created' = [created EXCEPT ![peer[r]] = @ - 1]
    /\ pc' = [pc EXCEPT ![r] = "running"]
    /\ peer' = [peer EXCEPT ![r] = Root]
    /\ UNCHANGED <<current, inited, park, prev, sem, record, frames, stray>>

(* sem_wait(&ctx->created) returns in the creator. *)
CreateReturns(r) ==
    /\ pc[r] = "awaitCreated"
    /\ created[peer[r]] > 0
    /\ created' = [created EXCEPT ![peer[r]] = @ - 1]
    /\ pc' = [pc EXCEPT ![r] = "running"]
    /\ peer' = [peer EXCEPT ![r] = Root]
    /\ UNCHANGED <<current, inited, park, prev, sem, record, frames, stray>>

ActivateDeadToo(r, t, v) ==
    /\ pc[r] = "running"
    /\ pc[t] # "absent"
    /\ prev' = [prev EXCEPT ![r] = current]
    /\ activator' = [activator EXCEPT ![t] = r]
    /\ xmit' = [xmit EXCEPT ![t] = v]
    /\ current' = t
    /\ PrepareSwitch(r, t, "activating")
    /\ inited' = TRUE
    /\ alive' = [alive EXCEPT ![Root] = TRUE]
    /\ stray' = (stray \/ ~alive[t])
    /\ UNCHANGED <<sem, created, dead, frames>>

(* scrip_coexpr_activate up to the post.  A dead target fails at once.     *)
Activate(r, t, v) ==
    /\ pc[r] = "running"
    /\ pc[t] # "absent"
    /\ IF dead[t]
       THEN UNCHANGED <<control, record, stray>>
       ELSE /\ prev' = [prev EXCEPT ![r] = current]
            /\ activator' = [activator EXCEPT ![t] = r]
            /\ xmit' = [xmit EXCEPT ![t] = v]
            /\ current' = t
            /\ PrepareSwitch(r, t, "activating")
            /\ inited' = TRUE
            /\ alive' = [alive EXCEPT ![Root] = TRUE]
            \* &main activated before the first creation: `first' was read as
            \* 0, so a second thread is started on the root's own record
            /\ stray' = (stray \/ ~alive[t])
            /\ UNCHANGED <<sem, created, dead>>
    /\ UNCHANGED frames

CoretKeepingCurrent(r, v) ==
    /\ r # Root
    /\ pc[r] = "running"
    /\ LET back == LiveActivator(r, dead)
       IN  /\ xmit' = [xmit EXCEPT ![back] = v]
           /\ PrepareSwitch(r, back, "yielded")
    /\ UNCHANGED <<current, inited, prev, sem, created, alive, dead, activator, frames, stray>>

(* scrip_coret: a result goes to the nearest live activator. *)
Coret(r, v) ==
    /\ r # Root
    /\ pc[r] = "running"
    /\ LET back == LiveActivator(r, dead)
       IN  /\ xmit' = [xmit EXCEPT ![back] = v]
           /\ current' = back
           /\ PrepareSwitch(r, back, "yielded")
    /\ UNCHANGED <<inited, prev, sem, created, alive, dead, activator, frames, stray>>

CofailStillAlive(r) ==
    /\ r # Root
    /\ pc[r] = "running"
    /\ LET back == LiveActivator(r, dead)
       IN  /\ current' = back
           /\ PrepareSwitch(r, back, "failed")
    /\ UNCHANGED <<inited, prev, sem, created, alive, dead, activator, xmit, frames, stray>>

(* scrip_cofail: the context is dead from here on. *)
Cofail(r) ==
    /\ r # Root
    /\ pc[r] = "running"
    /\ dead' = [dead EXCEPT ![r] = TRUE]
    /\ LET back == LiveActivator(r, dead')
       IN  /\ current' = back
           /\ PrepareSwitch(r, back, "failed")
    /\ UNCHANGED <<inited, prev, sem, created, alive, activator, xmit, frames, stray>>

(* The body assigns a local of its frame. *)
Assign(r) ==
    /\ pc[r] = "running"
    /\ \E x \in Versions : frame' = [frame EXCEPT ![r] = x]
    /\ UNCHANGED <<control, record, image, src, stray>>

(* The process ends: the main program returns, pthread_create finds no     *)
(* thread for another context (exit 1), or the stray thread takes a post   *)
(* meant for the main program and calls the root's null entry_fn.          *)
Exit ==
    /\ \/ pc[Root] = "running"
       \/ \E r \in Ctx, c \in CoExprs : pc[r] = "running" /\ pc[c] = "absent"
       \/ stray /\ sem[Root] > 0
    /\ pc' = [c \in Ctx |-> "gone"]
    /\ UNCHANGED <<current, inited, park, peer, prev, sem, created, record, frames, stray>>

Ended == pc[Root] = "gone" /\ UNCHANGED vars

Scheduled(c) ==
    \/ Post(c)
    \/ WakeFirst(c) \/ WakeActivate(c) \/ WakeYield(c)
    \/ CreateReturns(c)
    \/ c # Root /\ CopyImage(c)

Body(r) ==
    \/ \E c \in CoExprs : Create(r, c)
    \/ \E c, o \in CoExprs : Refresh(r, c, o)
    \/ \E t \in Ctx, v \in Values : Activate(r, t, v)
    \/ \E v \in Values : Coret(r, v)
    \/ Cofail(r)
    \/ Assign(r)

Next == (\E c \in Ctx : Scheduled(c) \/ Body(c)) \/ Exit \/ Ended

(* The operating system schedules every runnable thread; what a body does  *)
(* next is the Icon program's own business and carries no fairness.        *)
Fairness == \A c \in Ctx : WF_vars(Scheduled(c))

Spec == Init /\ [][Next]_vars /\ Fairness
-----------------------------------------------------------------------------
(* The thread that is executing, and the threads whose wake-up is on its   *)
(* way: together they are where control is.                                *)
Busy  == {c \in Ctx : pc[c] \in {"running", "posting", "awaitCreated"}}
Woken == {c \in Ctx : sem[c] > 0}
Over  == pc[Root] = "gone"

(* Control is in one place.  Either one thread executes and no wake-up is  *)
(* pending, or none executes and one waiting thread has one wake-up; and   *)
(* g_scrip_co_current names that thread, or the one it is about to post.   *)
(* This is what makes the unlocked records of rt_coexpr.c safe to share.   *)
OneInControl ==
    \/ Over
    \/ /\ Woken = {}
       /\ \E h \in Ctx : /\ Busy = {h}
                         /\ Holder = IF pc[h] = "posting" THEN peer[h] ELSE h
    \/ /\ Busy = {}
       /\ \E h \in Ctx : /\ Woken = {h}
                         /\ sem[h] = 1
                         /\ pc[h] \in WaitingStates
                         /\ Holder = h

(* The scanning environment (the words of env and r13..r15) is never in    *)
(* two places: no two contexts can go on scanning from the same words.     *)
EnvInOnePlace ==
    ~Over =>
    \A c, d \in Ctx : (env[c] \/ regs[c]) /\ (env[d] \/ regs[d])
                      => c = d /\ ~(env[c] /\ regs[c])

(* A switch hands the environment on.  The one step that loses it is a     *)
(* switch from a context to itself, where the record is cleared after it   *)
(* was copied onto itself.                                                 *)
HasEnv == \E c \in Ctx : env[c] \/ regs[c]
SelfSwitch == \E c \in Ctx : pc'[c] = "posting" /\ peer'[c] = c
EnvHandedOn == [][~Over /\ HasEnv /\ ~HasEnv' => SelfSwitch]_vars

(* A context that failed is never resumed: it keeps no wake-up and nobody  *)
(* hands it control, through whatever chain of activators.                 *)
DeadStaysParked ==
    ~Over => \A c \in Ctx : dead[c] => /\ pc[c] \in {"posting", "failed"}
                                      /\ sem[c] = 0
                                      /\ Holder # c

(* An answer goes to a context that is waiting for one: it never starts a  *)
(* body that has not begun, and never reaches a thread that is executing   *)
(* other than the one that answers.                                        *)
AnswerIsAwaited ==
    \A c \in CoExprs : pc[c] = "running" =>
        LET b == LiveActivator(c, dead)
        IN  b = c \/ pc[b] \in {"activating", "yielded"}

(* A failure is seen as a failure: when the activator a failing context    *)
(* wakes is inside scrip_coexpr_activate, the target it finds there is     *)
(* dead, so it does not take a value left in its record for a result.      *)
(* (It is not so for the root as the last resort of a cyclic chain.)       *)
FailureIsSeen ==
    \A f \in CoExprs :
        pc[f] = "posting" /\ park[f] = "failed" /\ peer[f] = activator[f]
        /\ pc[peer[f]] = "activating"
        => dead[peer[peer[f]]]

(* While a new context copies its creator's frame, or another's image,     *)
(* nobody runs who could assign to a local of it.                          *)
SourceIsAtRest ==
    \A c \in CoExprs : pc[c] = "copying" => \A x \in Ctx : pc[x] # "running"

(* The frame a new context copies is the frame as it was when the create   *)
(* expression was evaluated: until the copy is made nothing writes it.     *)
Source(c) == IF src[c][1] = "frame" THEN frame[src[c][2]] ELSE image[src[c][2]]
SnapshotIsStable ==
    [][\A c \in CoExprs :
          pc[c] = "copying" /\ pc'[c] = "copying" => Source(c)' = Source(c)]_vars

(* A hand-off that was begun ends with a body executing, as long as the    *)
(* process lives: no post is lost and no thread waits for one that was     *)
(* never made.                                                             *)
HandOffEnds == []<>(Over \/ \E c \in Ctx : pc[c] = "running")

-----------------------------------------------------------------------------
(* The inductive invariant behind OneInControl and its companions.         *)

(* The root is never created, never returns and never fails. *)
RootIsMain ==
    /\ pc[Root] \in {"running", "posting", "awaitCreated", "activating"}
    /\ park[Root] = "activating"
    /\ ~dead[Root]

(* A context is dead exactly when its last switch was its failure. *)
DeadIsFailed ==
    \A c \in Ctx :
        dead[c] <=> \/ pc[c] = "failed"
                    \/ pc[c] = "posting" /\ park[c] = "failed"

(* The saved `prev' restores g_scrip_co_current to the context itself. *)
PrevIsSelf ==
    \A c \in Ctx :
        pc[c] = "activating" \/ (pc[c] = "posting" /\ park[c] = "activating")
        => prev[c] = c \/ (c = Root /\ prev[c] = None)

(* A thread that waits for a creation waits for the one thread that copies. *)
CreationPairs ==
    /\ \A r \in Ctx : pc[r] = "awaitCreated" =>
          /\ peer[r] \in CoExprs
          /\ \/ pc[peer[r]] = "copying" /\ created[peer[r]] = 0
             \/ pc[peer[r]] = "idle" /\ created[peer[r]] = 1
    /\ \A c \in CoExprs : pc[c] = "copying" =>
          \E r \in Ctx : pc[r] = "awaitCreated" /\ peer[r] = c
    /\ \A c \in CoExprs : pc[c] \in {"absent", "copying"} => created[c] = 0

(* A post goes to a thread that will be there to take it. *)
PostIsTaken ==
    /\ \A c \in Ctx : pc[c] = "posting" =>
          \/ peer[c] = c /\ park[c] # "failed"
          \/ pc[peer[c]] \in {"idle", "activating", "yielded"}
    /\ \A c \in Ctx : sem[c] > 0 => pc[c] # "failed"

(* Whoever activated a context has run. *)
ActivatorHasRun ==
    \A c \in Ctx : activator[c] # None =>
        pc[activator[c]] \notin {"absent", "copying", "idle"}

(* The environment is in the registers of the thread that executes, or in  *)
(* the record of the context that control is on its way to.                *)
EnvWithControl ==
    \A c \in Ctx :
        /\ regs[c] => pc[c] \in {"running", "awaitCreated"}
        /\ env[c] => Holder = c /\ pc[c] \notin {"running", "awaitCreated"}

Linked ==
    /\ \A c \in Ctx : pc[c] # "gone"
    /\ OneInControl /\ RootIsMain /\ DeadIsFailed /\ PrevIsSelf
    /\ CreationPairs /\ PostIsTaken /\ ActivatorHasRun /\ EnvWithControl

IndInv ==
    /\ TypeOK
    /\ IF Over THEN \A c \in Ctx : pc[c] = "gone" ELSE Linked

(* What FailureIsSeen needs beside it: a context that is not the one its    *)
(* activator went to last (the activator has activated another since) does *)
(* not get control before the activator has it again.  For the contexts    *)
(* control can come back to are then confined to a set without it, which   *)
(* the chain of activators leaves only through that activator.             *)
Awaits(a) == pc[a] = "activating" \/ (pc[a] = "posting" /\ park[a] = "activating")

Confines(S, a) ==
    /\ Holder \in S \cup {a}
    /\ \A x \in S \ {Root} : activator[x] \in S \cup {a, None}

SupersededWaits ==
    \A c \in CoExprs :
        activator[c] # None /\ Awaits(activator[c]) /\ peer[activator[c]] # c
        => \E S \in SUBSET (Ctx \ {c}) : Confines(S, activator[c])

FailureGoesHome ==
    \A f \in CoExprs :
        pc[f] = "posting" /\ park[f] = "failed" /\ peer[f] = activator[f]
        /\ pc[peer[f]] = "activating"
        => peer[peer[f]] = f

FailInv == ~Over => SupersededWaits /\ FailureGoesHome

(* The threads implement the coroutines of module Coroutines. *)
Abstract == INSTANCE Coroutines WITH
    holder <- Holder,
    phase <- [c \in Ctx |-> IF Over THEN "gone"
                            ELSE IF pc[c] = "absent" THEN "unborn"
                            ELSE IF dead[c] THEN "dead" ELSE "alive"],
    mail <- xmit
Implements == Abstract!Spec
=============================================================================
