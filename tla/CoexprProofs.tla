---------------------------- MODULE CoexprProofs ----------------------------
(***************************************************************************)
(* Control, the scanning environment and death among co-expressions, for   *)
(* any number of contexts, values and frames and any hop limit.            *)
(***************************************************************************)
EXTENDS Coexpr, InductionLemmas, FiniteSetTheorems

-----------------------------------------------------------------------------
(* The loop over the activators, unfolded. *)
Hop(f, n, me, d) ==
    IF n = 0 THEN activator[me]
    ELSE IF Stops(f[n - 1], d) THEN f[n - 1]
    ELSE activator[f[n - 1]]

IsHops(f, m, me, d) == f = [n \in 0..m |-> Hop(f, n, me, d)]

(* The recursion of Walk has a solution on every initial segment. *)
LEMMA HopsExist ==
    ASSUME NEW me, NEW d
    PROVE  \A m \in Nat : \E f : IsHops(f, m, me, d)
<1> DEFINE T == {m \in Nat : \E f : IsHops(f, m, me, d)}
<1>1. 0 \in T
  <2> DEFINE f == [n \in 0..0 |-> activator[me]]
  <2>1. IsHops(f, 0, me, d)
    BY DEF Hop, IsHops
  <2> QED BY <2>1
<1>2. ASSUME NEW m \in Nat, m \in T PROVE m + 1 \in T
  <2>1. PICK f : IsHops(f, m, me, d)
    BY <1>2
  <2> DEFINE g == [n \in 0..(m + 1) |-> IF n <= m THEN f[n] ELSE Hop(f, n, me, d)]
  <2>2. \A n \in 0..(m + 1) : g[n] = Hop(g, n, me, d)
    <3> SUFFICES ASSUME NEW n \in 0..(m + 1) PROVE g[n] = Hop(g, n, me, d)
      OBVIOUS
    <3>1. n # 0 => g[n - 1] = f[n - 1]
      OBVIOUS
    <3>2. Hop(g, n, me, d) = Hop(f, n, me, d)
      BY <3>1 DEF Hop
    <3>3. n <= m => f[n] = Hop(f, n, me, d)
      BY <2>1 DEF IsHops
    <3> QED BY <3>2, <3>3
  <2>3. IsHops(g, m + 1, me, d)
    BY <2>2 DEF IsHops
  <2> HIDE DEF g
  <2> QED BY <2>3
<1>3. Nat \subseteq T
  <2> HIDE DEF T
  <2> QED BY <1>1, <1>2, SetInduction
<1> QED BY <1>3

(* Whatever holds of an activator and passes from a dead context to its    *)
(* activator holds of where the loop ends.                                 *)
LEMMA WalkStaysIn ==
    ASSUME NEW me, NEW d, NEW S,
           activator[me] \in S,
           \A x \in S : ~Stops(x, d) => activator[x] \in S
    PROVE  Walk(me, d) \in S
<1> DEFINE w == CHOOSE f : IsHops(f, HopLimit, me, d)
<1>0. HopLimit \in Nat
  BY ConstantsAssumption
<1>1. Walk(me, d) = w[HopLimit]
  BY DEF Walk, Hop, IsHops
<1>2. w = [n \in 0..HopLimit |-> Hop(w, n, me, d)]
  <2>1. \E f : IsHops(f, HopLimit, me, d)
    BY HopsExist, <1>0
  <2> QED BY <2>1 DEF IsHops
<1> HIDE DEF w
<1> DEFINE T == {n \in Nat : n <= HopLimit => w[n] \in S}
<1>3. 0 \in T
  BY <1>0, <1>2 DEF Hop
<1>4. ASSUME NEW n \in Nat, n \in T PROVE n + 1 \in T
  BY <1>0, <1>2, <1>4 DEF Hop
<1>5. Nat \subseteq T
  <2> HIDE DEF T
  <2> QED BY <1>3, <1>4, SetInduction
<1> QED BY <1>0, <1>1, <1>5

(* The live activator is a context that has run and is not dead, or the    *)
(* root.                                                                   *)
LEMMA LiveActivatorFacts ==
    ASSUME TypeOK, ActivatorHasRun, NEW me \in Ctx, NEW d
    PROVE  /\ LiveActivator(me, d) \in Ctx
           /\ LiveActivator(me, d) # Root =>
                /\ ~d[LiveActivator(me, d)]
                /\ pc[LiveActivator(me, d)] \notin {"absent", "copying", "idle"}
<1> DEFINE S == {None} \cup
                {x \in Ctx : pc[x] \notin {"absent", "copying", "idle"}}
<1>1. \A x \in Ctx : activator[x] \in S
  BY DEF TypeOK, ActivatorHasRun
<1>2. \A x \in S : ~Stops(x, d) => activator[x] \in S
  BY <1>1 DEF Stops
<1>3. Walk(me, d) \in S
  <2> HIDE DEF S
  <2> QED BY <1>1, <1>2, WalkStaysIn
<1> QED BY <1>3 DEF LiveActivator, Stops, Ctx
-----------------------------------------------------------------------------
(* The initial states. *)
LEMMA InitInv == Init => IndInv
<1> SUFFICES ASSUME Init PROVE IndInv
  OBVIOUS
<1> USE ConstantsAssumption DEF Init, Ctx
<1>1. TypeOK
  BY DEF TypeOK, ParkedStates, States, WaitingStates, Sources, NoSource
<1>2. ~Over /\ \A c \in Ctx : pc[c] # "gone"
  BY DEF Over
<1>3. OneInControl
  <2>1. \A c \in Ctx : sem[c] = 0
    OBVIOUS
  <2>2. \A c \in Ctx : pc[c] = IF c = Root THEN "running" ELSE "absent"
    OBVIOUS
  <2>3. Woken = {}
    BY <2>1 DEF Woken
  <2>4. Busy = {Root}
    BY <2>2 DEF Busy
  <2> QED BY <2>2, <2>3, <2>4 DEF OneInControl, Holder
<1>4. RootIsMain /\ DeadIsFailed /\ PrevIsSelf /\ CreationPairs /\ PostIsTaken
  BY DEF RootIsMain, DeadIsFailed, PrevIsSelf, CreationPairs, PostIsTaken
<1>5. ActivatorHasRun /\ EnvWithControl
  BY DEF ActivatorHasRun, EnvWithControl
<1> QED BY <1>1, <1>2, <1>3, <1>4, <1>5 DEF IndInv, Linked
-----------------------------------------------------------------------------
(* Where control is, read off the state of one thread. *)
LEMMA Executing ==
    ASSUME TypeOK, Linked, NEW r \in Ctx,
           pc[r] \in {"running", "posting", "awaitCreated"}
    PROVE  /\ ~Over
           /\ \A c \in Ctx : sem[c] = 0
           /\ \A c \in Ctx \ {r} : pc[c] \in WaitingStates \cup {"absent", "copying"}
           /\ Holder = IF pc[r] = "posting" THEN peer[r] ELSE r
<1>1. ~Over
  BY DEF Linked, Over, RootIsMain
<1>2. Busy = {r} /\ Woken = {}
  BY <1>1 DEF Linked, OneInControl, Busy
<1>3. \A c \in Ctx : sem[c] = 0
  BY <1>2 DEF Woken, TypeOK
<1>4. \A c \in Ctx \ {r} : pc[c] \in WaitingStates \cup {"absent", "copying"}
  BY <1>2 DEF Busy, TypeOK, States, WaitingStates, Linked
<1>5. Holder = IF pc[r] = "posting" THEN peer[r] ELSE r
  BY <1>1, <1>2 DEF Linked, OneInControl
<1> QED BY <1>1, <1>3, <1>4, <1>5

LEMMA Waking ==
    ASSUME TypeOK, Linked, NEW h \in Ctx, sem[h] > 0
    PROVE  /\ ~Over
           /\ sem[h] = 1
           /\ \A c \in Ctx \ {h} : sem[c] = 0
           /\ \A c \in Ctx : pc[c] \in WaitingStates \cup {"absent", "copying"}
           /\ Holder = h
<1>1. ~Over
  BY DEF Linked, Over, RootIsMain
<1>2. Woken # {}
  BY DEF Woken
<1>3. Busy = {} /\ Woken = {h} /\ sem[h] = 1 /\ Holder = h
  BY <1>1, <1>2 DEF Linked, OneInControl, Woken
<1>4. \A c \in Ctx \ {h} : sem[c] = 0
  BY <1>3 DEF Woken, TypeOK
<1>5. \A c \in Ctx : pc[c] \in WaitingStates \cup {"absent", "copying"}
  BY <1>3 DEF Busy, TypeOK, States, WaitingStates, Linked
<1> QED BY <1>1, <1>3, <1>4, <1>5

-----------------------------------------------------------------------------
(* Every step that a live process takes keeps the invariant. *)
LEMMA PostStep ==
    ASSUME TypeOK, Linked, NEW c \in Ctx, Post(c)
    PROVE  TypeOK' /\ Linked' /\ ~Over'
<1> DEFINE t == peer[c]
<1>1. /\ t \in Ctx
      /\ \A x \in Ctx : sem[x] = 0
      /\ \A x \in Ctx \ {c} : pc[x] \in WaitingStates \cup {"absent", "copying"}
      /\ Holder = t
  BY Executing DEF Post, TypeOK
<1>2. (t = c /\ park[c] # "failed") \/ pc[t] \in {"idle", "activating", "yielded"}
  BY DEF Post, Linked, PostIsTaken
<1>3. TypeOK'
  BY <1>1 DEF TypeOK, Post, record, frames, States, WaitingStates
<1>4. park[c] \in ParkedStates
  BY DEF TypeOK
<1>5. \A x \in Ctx : pc'[x] = IF x = c THEN park[c] ELSE pc[x]
  BY DEF Post, TypeOK
<1>6. \A x \in Ctx : sem'[x] = IF x = t THEN 1 ELSE 0
  BY <1>1 DEF Post, TypeOK
<1>7. \A x \in Ctx : pc'[x] # "gone"
  BY <1>4, <1>5 DEF Linked, ParkedStates
<1>8. OneInControl'
  <2>1. Busy' = {}
    BY <1>1, <1>4, <1>5 DEF Busy, ParkedStates, WaitingStates
  <2>2. Woken' = {t}
    BY <1>1, <1>6 DEF Woken
  <2>3. pc'[t] \in WaitingStates
    BY <1>1, <1>2, <1>4, <1>5 DEF ParkedStates, WaitingStates
  <2>4. Holder' = t
    BY <1>1 DEF Post, Holder
  <2> QED BY <1>1, <1>6, <2>1, <2>2, <2>3, <2>4 DEF OneInControl
<1>9. RootIsMain' /\ DeadIsFailed' /\ PrevIsSelf'
  BY <1>1, <1>4, <1>5 DEF Linked, RootIsMain, DeadIsFailed, PrevIsSelf, Post, record, ParkedStates
<1>10. CreationPairs'
  BY <1>1, <1>4, <1>5 DEF Linked, CreationPairs, Post, ParkedStates, WaitingStates, Ctx
<1>11. PostIsTaken'
  BY <1>1, <1>2, <1>4, <1>5, <1>6 DEF Linked, PostIsTaken, Post, ParkedStates, WaitingStates
<1>12. ActivatorHasRun'
  BY <1>4, <1>5 DEF Linked, ActivatorHasRun, Post, record, ParkedStates, TypeOK
<1>13. EnvWithControl'
  BY <1>1, <1>4, <1>5 DEF Linked, EnvWithControl, Post, record, ParkedStates, Holder
<1>14. ~Over'
  BY <1>7 DEF Over, Ctx
<1> QED BY <1>3, <1>7, <1>8, <1>9, <1>10, <1>11, <1>12, <1>13, <1>14 DEF Linked

(* The part of the three Wake actions that matters to the invariant. *)
LEMMA WakeStep ==
    ASSUME TypeOK, Linked, NEW c \in Ctx,
           NEW from \in {"idle", "activating", "yielded"}, Wake(c, from),
           Holder' = c, UNCHANGED <<created, dead, activator>>
    PROVE  Linked' /\ ~Over'
<1>1. /\ sem[c] = 1
      /\ \A x \in Ctx \ {c} : sem[x] = 0
      /\ \A x \in Ctx : pc[x] \in WaitingStates \cup {"absent", "copying"}
      /\ Holder = c
  BY Waking DEF Wake
<1>2. \A x \in Ctx : pc'[x] = IF x = c THEN "running" ELSE pc[x]
  BY DEF Wake, TypeOK
<1>3. \A x \in Ctx : sem'[x] = 0
  BY <1>1 DEF Wake, TypeOK
<1>4. \A x \in Ctx : pc'[x] # "gone"
  BY <1>2 DEF Linked
<1>5. OneInControl'
  <2>1. Busy' = {c}
    BY <1>1, <1>2 DEF Busy, WaitingStates, ParkedStates
  <2>2. Woken' = {}
    BY <1>3 DEF Woken
  <2> QED BY <1>2, <2>1, <2>2 DEF OneInControl
<1>6. RootIsMain' /\ DeadIsFailed' /\ PrevIsSelf'
  BY <1>1, <1>2 DEF Linked, RootIsMain, DeadIsFailed, PrevIsSelf, Wake, TypeOK,
                    WaitingStates, ParkedStates
<1>7. CreationPairs'
  BY <1>1, <1>2 DEF Linked, CreationPairs, Wake, WaitingStates, ParkedStates, Ctx
<1>8. PostIsTaken'
  BY <1>1, <1>2, <1>3 DEF Linked, PostIsTaken, WaitingStates, ParkedStates
<1>9. ActivatorHasRun'
  BY <1>2 DEF Linked, ActivatorHasRun, TypeOK
<1>10. EnvWithControl'
  BY <1>1, <1>2 DEF Linked, EnvWithControl, Wake, TypeOK, WaitingStates, ParkedStates
<1>11. ~Over'
  BY <1>4 DEF Over, Ctx
<1> QED BY <1>4, <1>5, <1>6, <1>7, <1>8, <1>9, <1>10, <1>11 DEF Linked

(* The part of Activate, Coret and Cofail that matters to the invariant. *)
LEMMA SwitchStep ==
    ASSUME TypeOK, Linked, NEW r \in Ctx, NEW t \in Ctx, NEW how \in ParkedStates,
           pc[r] = "running",
           r = Root => how = "activating",
           (t = r /\ how # "failed") \/ pc[t] \in {"idle", "activating", "yielded"},
           PrepareSwitch(r, t, how),
           current' = t,
           UNCHANGED <<sem, created>>,
           dead' = IF how = "failed" THEN [dead EXCEPT ![r] = TRUE] ELSE dead,
           prev' = IF how = "activating" THEN [prev EXCEPT ![r] = current] ELSE prev,
           activator' = activator \/ activator' = [activator EXCEPT ![t] = r]
    PROVE  Linked' /\ ~Over'
<1>1. /\ \A x \in Ctx : sem[x] = 0
      /\ \A x \in Ctx \ {r} : pc[x] \in WaitingStates \cup {"absent", "copying"}
      /\ Holder = r
  BY Executing
<1>2. \A x \in Ctx : pc'[x] = IF x = r THEN "posting" ELSE pc[x]
  BY DEF PrepareSwitch, TypeOK
<1>3. \A x \in Ctx : /\ park'[x] = (IF x = r THEN how ELSE park[x])
                      /\ peer'[x] = (IF x = r THEN t ELSE peer[x])
  BY DEF PrepareSwitch, TypeOK
<1>4. t # None /\ None \notin Ctx
  BY ConstantsAssumption
<1>5. \A x \in Ctx : pc'[x] # "gone"
  BY <1>2 DEF Linked
<1>6. OneInControl'
  <2>1. Busy' = {r}
    BY <1>1, <1>2 DEF Busy, WaitingStates, ParkedStates
  <2>2. Woken' = {}
    BY <1>1 DEF Woken
  <2>3. Holder' = t
    BY <1>4 DEF Holder
  <2> QED BY <1>2, <1>3, <2>1, <2>2, <2>3 DEF OneInControl
<1>7. RootIsMain' /\ DeadIsFailed'
  BY <1>1, <1>2, <1>3 DEF Linked, RootIsMain, DeadIsFailed, TypeOK,
                          WaitingStates, ParkedStates, Ctx
<1>8. PrevIsSelf'
  <2>1. r # Root => current = r
    BY <1>1 DEF Holder
  <2>2. r = Root => current \in {None, Root}
    BY <1>1 DEF Holder
  <2> QED BY <1>1, <1>2, <1>3, <2>1, <2>2 DEF Linked, PrevIsSelf, TypeOK
<1>9. CreationPairs'
  BY <1>1, <1>2, <1>3 DEF Linked, CreationPairs, WaitingStates, ParkedStates, Ctx
<1>10. PostIsTaken'
  BY <1>1, <1>2, <1>3 DEF Linked, PostIsTaken, WaitingStates, ParkedStates
<1>11. ActivatorHasRun'
  BY <1>2 DEF Linked, ActivatorHasRun, TypeOK
<1>12. EnvWithControl'
  BY <1>1, <1>2, <1>4 DEF Linked, EnvWithControl, PrepareSwitch, TypeOK, Holder,
                    WaitingStates, ParkedStates
<1>13. ~Over'
  BY <1>5 DEF Over, Ctx
<1> QED BY <1>5, <1>6, <1>7, <1>8, <1>9, <1>10, <1>11, <1>12, <1>13 DEF Linked

LEMMA StartThreadStep ==
    ASSUME TypeOK, Linked, NEW r \in Ctx, NEW c \in CoExprs, NEW from,
           StartThread(r, c, from)
    PROVE  Linked' /\ ~Over'
<1>0. c # r /\ c # Root /\ c \in Ctx /\ pc[r] = "running" /\ pc[c] = "absent"
  BY ConstantsAssumption DEF StartThread, Ctx
<1>1. /\ \A x \in Ctx : sem[x] = 0
      /\ \A x \in Ctx \ {r} : pc[x] \in WaitingStates \cup {"absent", "copying"}
      /\ Holder = r
  BY <1>0, Executing
<1>2. \A x \in Ctx : pc'[x] = IF x = r THEN "awaitCreated"
                              ELSE IF x = c THEN "copying" ELSE pc[x]
  BY <1>0 DEF StartThread, TypeOK
<1>3. \A x \in Ctx : peer'[x] = IF x = r THEN c ELSE peer[x]
  BY DEF StartThread, TypeOK
<1>13. UNCHANGED <<current, park, prev, sem, created, dead, activator, env, regs>>
  BY DEF StartThread
<1>4. \A x \in CoExprs : pc[x] # "copying"
  BY <1>0, <1>1 DEF Linked, CreationPairs, WaitingStates, ParkedStates
<1>5. \A x \in Ctx : pc'[x] # "gone"
  BY <1>2 DEF Linked
<1>6. OneInControl'
  <2>1. Busy' = {r}
    BY <1>1, <1>2 DEF Busy, WaitingStates, ParkedStates
  <2>2. Woken' = {}
    BY <1>1 DEF Woken, StartThread
  <2>3. Holder' = r
    BY <1>1 DEF Holder, StartThread
  <2> QED BY <1>2, <2>1, <2>2, <2>3 DEF OneInControl
<1>7. RootIsMain' /\ DeadIsFailed' /\ PrevIsSelf'
  BY <1>0, <1>1, <1>2, <1>13 DEF Linked, RootIsMain, DeadIsFailed, PrevIsSelf,
                          WaitingStates, ParkedStates, Ctx
<1>8. CreationPairs'
  BY <1>0, <1>1, <1>2, <1>3, <1>4, <1>13 DEF Linked, CreationPairs,
                                  WaitingStates, ParkedStates, Ctx
<1>9. PostIsTaken'
  BY <1>0, <1>1, <1>2, <1>3, <1>13 DEF Linked, PostIsTaken, WaitingStates, ParkedStates
<1>10. ActivatorHasRun'
  BY <1>0, <1>2 DEF Linked, ActivatorHasRun, StartThread, TypeOK
<1>11. EnvWithControl'
  BY <1>0, <1>1, <1>2 DEF Linked, EnvWithControl, StartThread, Holder
<1>12. ~Over'
  BY <1>5 DEF Over, Ctx
<1> QED BY <1>5, <1>6, <1>7, <1>8, <1>9, <1>10, <1>11, <1>12 DEF Linked

LEMMA CopyImageStep ==
    ASSUME TypeOK, Linked, NEW c \in CoExprs, CopyImage(c)
    PROVE  Linked' /\ ~Over'
<1>1. PICK r \in Ctx : pc[r] = "awaitCreated" /\ peer[r] = c
  BY DEF Linked, CreationPairs, CopyImage
<1>2. /\ \A x \in Ctx : sem[x] = 0
      /\ \A x \in Ctx \ {r} : pc[x] \in WaitingStates \cup {"absent", "copying"}
      /\ Holder = r
  BY <1>1, Executing
<1>3. c \in Ctx /\ c # r /\ c # Root
  BY <1>1, ConstantsAssumption DEF CopyImage, Ctx
<1>4. \A x \in Ctx : pc'[x] = IF x = c THEN "idle" ELSE pc[x]
  BY DEF CopyImage, TypeOK
<1>5. \A x \in Ctx : pc'[x] # "gone"
  BY <1>4 DEF Linked
<1>6. OneInControl'
  <2>1. Busy' = {r}
    BY <1>1, <1>2, <1>3, <1>4 DEF Busy, WaitingStates, ParkedStates
  <2>2. Woken' = {}
    BY <1>2 DEF Woken, CopyImage
  <2>3. Holder' = r
    BY <1>2 DEF Holder, CopyImage
  <2> QED BY <1>1, <1>3, <1>4, <2>1, <2>2, <2>3 DEF OneInControl
<1>7. RootIsMain' /\ DeadIsFailed' /\ PrevIsSelf'
  BY <1>3, <1>4 DEF Linked, RootIsMain, DeadIsFailed, PrevIsSelf, CopyImage, record
<1>8. CreationPairs'
  <2>1. \A x \in Ctx : pc[x] = "awaitCreated" => x = r
    BY <1>2 DEF WaitingStates, ParkedStates
  <2>2. created[c] = 0 /\ created' = [created EXCEPT ![c] = @ + 1] /\ peer' = peer
    BY DEF Linked, CreationPairs, CopyImage
  <2>3. created'[c] = 1
    BY <2>2 DEF TypeOK
  <2> QED BY <1>1, <1>3, <1>4, <2>1, <2>2, <2>3 DEF Linked, CreationPairs, Ctx, TypeOK
<1>9. PostIsTaken'
  BY <1>3, <1>4 DEF Linked, PostIsTaken, CopyImage
<1>10. ActivatorHasRun'
  BY <1>3, <1>4 DEF Linked, ActivatorHasRun, CopyImage, record, TypeOK
<1>11. EnvWithControl'
  BY <1>3, <1>4 DEF Linked, EnvWithControl, CopyImage, record, Holder
<1>12. ~Over'
  BY <1>5 DEF Over, Ctx
<1> QED BY <1>5, <1>6, <1>7, <1>8, <1>9, <1>10, <1>11, <1>12 DEF Linked

LEMMA CreateReturnsStep ==
    ASSUME TypeOK, Linked, NEW r \in Ctx, CreateReturns(r)
    PROVE  Linked' /\ ~Over'
<1>1. /\ \A x \in Ctx : sem[x] = 0
      /\ \A x \in Ctx \ {r} : pc[x] \in WaitingStates \cup {"absent", "copying"}
      /\ Holder = r
  BY Executing DEF CreateReturns
<1>2. \A x \in Ctx : pc'[x] = IF x = r THEN "running" ELSE pc[x]
  BY DEF CreateReturns, TypeOK
<1>3. /\ peer[r] \in CoExprs
      /\ pc[peer[r]] = "idle"
  BY DEF Linked, CreationPairs, CreateReturns, TypeOK
<1>4. \A x \in CoExprs : pc[x] # "copying"
  <2> SUFFICES ASSUME NEW x \in CoExprs, pc[x] = "copying" PROVE FALSE
    OBVIOUS
  <2>1. PICK y \in Ctx : pc[y] = "awaitCreated" /\ peer[y] = x
    BY DEF Linked, CreationPairs
  <2>2. y = r
    BY <1>1, <2>1 DEF WaitingStates, ParkedStates
  <2> QED BY <1>3, <2>1, <2>2
<1>5. \A x \in Ctx : pc'[x] # "gone"
  BY <1>2 DEF Linked
<1>6. OneInControl'
  <2>1. Busy' = {r}
    BY <1>1, <1>2 DEF Busy, WaitingStates, ParkedStates
  <2>2. Woken' = {}
    BY <1>1 DEF Woken, CreateReturns
  <2>3. Holder' = r
    BY <1>1 DEF Holder, CreateReturns
  <2> QED BY <1>2, <2>1, <2>2, <2>3 DEF OneInControl
<1>7. RootIsMain' /\ DeadIsFailed' /\ PrevIsSelf'
  BY <1>2 DEF Linked, RootIsMain, DeadIsFailed, PrevIsSelf, CreateReturns, record
<1>8. CreationPairs'
  BY <1>1, <1>2, <1>3, <1>4 DEF Linked, CreationPairs, CreateReturns, TypeOK,
                                 WaitingStates, ParkedStates, Ctx
<1>9. PostIsTaken'
  BY <1>1, <1>2 DEF Linked, PostIsTaken, CreateReturns, WaitingStates, ParkedStates
<1>10. ActivatorHasRun'
  BY <1>2 DEF Linked, ActivatorHasRun, CreateReturns, record, TypeOK
<1>11. EnvWithControl'
  BY <1>1, <1>2 DEF Linked, EnvWithControl, CreateReturns, record, Holder
<1>12. ~Over'
  BY <1>5 DEF Over, Ctx
<1> QED BY <1>5, <1>6, <1>7, <1>8, <1>9, <1>10, <1>11, <1>12 DEF Linked

(* Steps that change neither a thread's place nor a context's record. *)
LEMMA QuietStep ==
    ASSUME TypeOK, Linked, UNCHANGED <<control, record>>
    PROVE  Linked' /\ ~Over'
<1>1. ~Over
  BY DEF Linked, Over, Ctx
<1> QED
  BY <1>1 DEF control, record, Linked, OneInControl, RootIsMain, DeadIsFailed, PrevIsSelf,
         CreationPairs, PostIsTaken, ActivatorHasRun, EnvWithControl, Busy, Woken, Holder, Over

(* While a thread runs, every other context that exists and is not dead is *)
(* waiting to be handed control.                                           *)
LEMMA OthersWait ==
    ASSUME TypeOK, Linked, NEW r \in Ctx, pc[r] = "running",
           NEW t \in Ctx, t # r, ~dead[t], pc[t] # "absent"
    PROVE  pc[t] \in {"idle", "activating", "yielded"}
<1>1. \A x \in Ctx \ {r} : pc[x] \in WaitingStates \cup {"absent", "copying"}
  BY Executing
<1>2. pc[t] # "failed"
  BY DEF Linked, DeadIsFailed
<1>3. pc[t] # "copying"
  <2> SUFFICES ASSUME pc[t] = "copying" PROVE FALSE
    OBVIOUS
  <2>1. t \in CoExprs
    BY DEF Linked, RootIsMain, Ctx
  <2>2. PICK y \in Ctx : pc[y] = "awaitCreated"
    BY <2>1 DEF Linked, CreationPairs
  <2> QED BY <1>1, <2>2 DEF WaitingStates, ParkedStates
<1> QED BY <1>1, <1>2, <1>3 DEF WaitingStates, ParkedStates

(* The target of an answer: a waiting context, or the answering one. *)
LEMMA AnswerTarget ==
    ASSUME TypeOK, Linked, NEW r \in CoExprs, pc[r] = "running",
           NEW d \in [Ctx -> BOOLEAN], \A x \in Ctx : dead[x] => d[x]
    PROVE  LET b == LiveActivator(r, d)
           IN  /\ b \in Ctx
               /\ b = r => ~d[r]
               /\ b # r => pc[b] \in {"activating", "yielded"}
<1> DEFINE b == LiveActivator(r, d)
<1>1. r \in Ctx /\ r # Root /\ Root \in Ctx
  BY ConstantsAssumption DEF Ctx
<1>2. /\ b \in Ctx
      /\ b # Root => ~d[b] /\ pc[b] \notin {"absent", "copying", "idle"}
  BY <1>1, LiveActivatorFacts DEF Linked
<1>3. b = r => ~d[r]
  BY <1>1, <1>2
<1>4. ASSUME b # r PROVE pc[b] \in {"activating", "yielded"}
  <2>1. ~dead[b] /\ pc[b] \notin {"absent", "copying", "idle"}
    BY <1>2 DEF Linked, RootIsMain
  <2> HIDE DEF b
  <2> QED BY <1>1, <1>2, <1>4, <2>1, OthersWait
<1> QED BY <1>2, <1>3, <1>4

LEMMA ActivateStep ==
    ASSUME TypeOK, Linked, NEW r \in Ctx, NEW t \in Ctx, NEW v \in Values,
           Activate(r, t, v)
    PROVE  Linked' /\ ~Over'
<1>1. CASE dead[t]
  BY <1>1, QuietStep DEF Activate
<1>2. CASE ~dead[t]
  <2>1. t = r \/ pc[t] \in {"idle", "activating", "yielded"}
    BY <1>2, OthersWait DEF Activate
  <2>2. /\ pc[r] = "running" /\ PrepareSwitch(r, t, "activating")
        /\ current' = t /\ UNCHANGED <<sem, created, dead>>
        /\ prev' = [prev EXCEPT ![r] = current]
        /\ activator' = [activator EXCEPT ![t] = r]
    BY <1>2 DEF Activate
  <2> QED BY <2>1, <2>2, SwitchStep DEF ParkedStates
<1> QED BY <1>1, <1>2

LEMMA CoretStep ==
    ASSUME TypeOK, Linked, NEW r \in Ctx, NEW v \in Values, Coret(r, v)
    PROVE  Linked' /\ ~Over'
<1> DEFINE b == LiveActivator(r, dead)
<1>1. r \in CoExprs /\ r # Root /\ pc[r] = "running"
  BY DEF Coret, Ctx
<1>2. b \in Ctx /\ (b = r \/ pc[b] \in {"activating", "yielded"})
  BY <1>1, AnswerTarget DEF TypeOK
<1>3. /\ PrepareSwitch(r, b, "yielded")
      /\ current' = b
      /\ UNCHANGED <<sem, created, dead, prev, activator>>
  BY DEF Coret
<1> HIDE DEF b
<1> QED BY <1>1, <1>2, <1>3, SwitchStep DEF ParkedStates

LEMMA CofailStep ==
    ASSUME TypeOK, Linked, NEW r \in Ctx, Cofail(r)
    PROVE  Linked' /\ ~Over'
<1> DEFINE d == [dead EXCEPT ![r] = TRUE]
           b == LiveActivator(r, d)
<1>1. r \in CoExprs /\ r # Root /\ pc[r] = "running" /\ dead' = d
  BY DEF Cofail, Ctx
<1>2. d \in [Ctx -> BOOLEAN] /\ d[r] /\ \A x \in Ctx : dead[x] => d[x]
  BY DEF TypeOK
<1>3. b \in Ctx /\ pc[b] \in {"activating", "yielded"}
  <2> HIDE DEF d
  <2> QED BY <1>1, <1>2, AnswerTarget
<1>4. /\ PrepareSwitch(r, b, "failed")
      /\ current' = b
      /\ UNCHANGED <<sem, created, prev, activator>>
  BY <1>1 DEF Cofail
<1> HIDE DEF b
<1> QED BY <1>1, <1>3, <1>4, SwitchStep DEF ParkedStates

LEMMA WakesStep ==
    ASSUME TypeOK, Linked, NEW c \in Ctx,
           WakeFirst(c) \/ WakeActivate(c) \/ WakeYield(c)
    PROVE  Linked' /\ ~Over'
<1>1. c # None
  BY ConstantsAssumption
<1>2. CASE WakeFirst(c)
  <2>1. Holder' = c
    BY <1>1, <1>2 DEF WakeFirst, Holder
  <2> QED BY <1>2, <2>1, WakeStep DEF WakeFirst
<1>3. CASE WakeActivate(c)
  <2>1. Holder' = c
    BY <1>1, <1>3 DEF WakeActivate, Wake, Holder, Linked, PrevIsSelf
  <2> QED BY <1>3, <2>1, WakeStep DEF WakeActivate
<1>4. CASE WakeYield(c)
  <2>1. Holder = c
    BY <1>4, Waking DEF WakeYield, Wake
  <2>2. Holder' = c
    BY <1>4, <2>1 DEF WakeYield, Holder
  <2> QED BY <1>4, <2>2, WakeStep DEF WakeYield
<1> QED BY <1>2, <1>3, <1>4

(* The types. *)
LEMMA TypeStep ==
    ASSUME TypeOK, ActivatorHasRun, [Next]_vars
    PROVE  TypeOK'
<1> USE DEF States, WaitingStates, ParkedStates
<1>1. Root \in Ctx /\ None \notin Ctx /\ CoExprs \subseteq Ctx /\ NoSource \in Sources
  BY ConstantsAssumption DEF Ctx, Sources, NoSource
<1>2. ASSUME NEW c \in Ctx, Post(c) PROVE TypeOK'
  BY <1>2 DEF Post, TypeOK, record, frames
<1>3. ASSUME NEW c \in Ctx, WakeFirst(c) PROVE TypeOK'
  <2>1. c \in CoExprs /\ image[c] \in Versions
    BY <1>3 DEF WakeFirst, Ctx, TypeOK
  <2> QED BY <1>1, <1>3, <2>1 DEF WakeFirst, Wake, TypeOK
<1>4. ASSUME NEW c \in Ctx, WakeActivate(c) PROVE TypeOK'
  BY <1>1, <1>4 DEF WakeActivate, Wake, TypeOK, frames
<1>5. ASSUME NEW c \in Ctx, WakeYield(c) PROVE TypeOK'
  BY <1>1, <1>5 DEF WakeYield, Wake, TypeOK, frames
<1>6. ASSUME NEW r \in Ctx, NEW c \in CoExprs, NEW from \in Sources,
             StartThread(r, c, from)
      PROVE  TypeOK'
  <2>1. /\ inited' = TRUE
        /\ alive' = [alive EXCEPT ![c] = TRUE, ![Root] = TRUE]
        /\ src' = [src EXCEPT ![c] = from]
        /\ pc' = [pc EXCEPT ![r] = "awaitCreated", ![c] = "copying"]
        /\ peer' = [peer EXCEPT ![r] = c]
    BY <1>6 DEF StartThread
  <2>2. UNCHANGED <<current, park, prev, sem, created, dead, activator, xmit,
                    env, regs, frame, image, stray>>
    BY <1>6 DEF StartThread
  <2>3. src' \in [CoExprs -> Sources]
    BY <2>1 DEF TypeOK
  <2> QED BY <1>1, <2>1, <2>2, <2>3 DEF TypeOK
<1>7. ASSUME NEW c \in CoExprs, CopyImage(c) PROVE TypeOK'
  <2>1. image'[c] \in Versions
    <3>1. src[c] \in Sources
      BY DEF TypeOK
    <3>2. CASE src[c] \in {"frame"} \X Ctx
      BY <1>1, <1>7, <3>2 DEF CopyImage, TypeOK
    <3>3. CASE src[c] \in {"image"} \X CoExprs
      BY <1>1, <1>7, <3>3 DEF CopyImage, TypeOK
    <3> QED BY <3>1, <3>2, <3>3 DEF Sources
  <2> QED BY <1>1, <1>7, <2>1 DEF CopyImage, TypeOK, record
<1>8. ASSUME NEW r \in Ctx, CreateReturns(r) PROVE TypeOK'
  <2>1. created' \in [CoExprs -> Nat]
    <3>1. /\ created \in [CoExprs -> Nat]
          /\ created[peer[r]] > 0
          /\ created' = [created EXCEPT ![peer[r]] = @ - 1]
      BY <1>8 DEF CreateReturns, TypeOK
    <3>2. \A x \in CoExprs : created'[x] = IF x = peer[r] THEN created[x] - 1 ELSE created[x]
      BY <3>1
    <3>3. \A x \in CoExprs : created'[x] \in Nat
      BY <3>1, <3>2
    <3> QED BY <3>1, <3>3
  <2> QED BY <1>1, <1>8, <2>1 DEF CreateReturns, TypeOK, record, frames
<1>9. ASSUME NEW old \in Ctx, NEW new \in Ctx, NEW how \in ParkedStates,
             PrepareSwitch(old, new, how)
      PROVE  /\ env' \in [Ctx -> BOOLEAN] /\ regs' \in [Ctx -> BOOLEAN]
             /\ pc' \in [Ctx -> States] /\ park' \in [Ctx -> ParkedStates]
             /\ peer' \in [Ctx -> Ctx]
  BY <1>9 DEF PrepareSwitch, TypeOK
<1>10. ASSUME NEW r \in Ctx, NEW t \in Ctx, NEW v \in Values, Activate(r, t, v) PROVE TypeOK'
  <2>1. CASE dead[t]
    BY <1>10, <2>1 DEF Activate, TypeOK, control, record, frames
  <2>2. CASE ~dead[t]
    <3>1. /\ PrepareSwitch(r, t, "activating")
          /\ prev' = [prev EXCEPT ![r] = current]
          /\ activator' = [activator EXCEPT ![t] = r]
          /\ xmit' = [xmit EXCEPT ![t] = v]
          /\ alive' = [alive EXCEPT ![Root] = TRUE]
      BY <1>10, <2>2 DEF Activate
    <3>2. /\ current' = t /\ inited' = TRUE
          /\ stray' = (stray \/ ~alive[t])
          /\ UNCHANGED <<sem, created, dead, frame, image, src>>
      BY <1>10, <2>2 DEF Activate, frames
    <3>3. stray' \in BOOLEAN
      BY <3>2
    <3>4. UNCHANGED <<sem, created, dead, frame, image, src>>
      BY <3>2
    <3> QED BY <1>1, <1>9, <3>1, <3>2, <3>3, <3>4 DEF TypeOK
  <2> QED BY <2>1, <2>2
<1>11. ASSUME NEW r \in Ctx, NEW v \in Values, Coret(r, v) PROVE TypeOK'
  <2> DEFINE b == LiveActivator(r, dead)
  <2>1. b \in Ctx
    BY LiveActivatorFacts
  <2>2. PrepareSwitch(r, b, "yielded") /\ current' = b /\ xmit' = [xmit EXCEPT ![b] = v]
    BY <1>11 DEF Coret
  <2> HIDE DEF b
  <2> QED BY <1>9, <1>11, <2>1, <2>2 DEF Coret, TypeOK, frames
<1>12. ASSUME NEW r \in Ctx, Cofail(r) PROVE TypeOK'
  <2> DEFINE b == LiveActivator(r, dead')
  <2>1. b \in Ctx
    BY LiveActivatorFacts
  <2>2. PrepareSwitch(r, b, "failed") /\ current' = b
    BY <1>12 DEF Cofail
  <2> HIDE DEF b
  <2> QED BY <1>9, <1>12, <2>1, <2>2 DEF Cofail, TypeOK, frames
<1>13. ASSUME NEW r \in Ctx, Assign(r) PROVE TypeOK'
  BY <1>13 DEF Assign, TypeOK, control, record
<1>14. ASSUME Exit PROVE TypeOK'
  BY <1>14 DEF Exit, TypeOK, record, frames
<1>15. ASSUME UNCHANGED vars PROVE TypeOK'
  BY <1>15 DEF vars, TypeOK, control, record, frames
<1>16. ASSUME NEW r \in Ctx, Body(r) PROVE TypeOK'
  <2>1. ASSUME NEW c \in CoExprs, Create(r, c) PROVE TypeOK'
    <3>1. <<"frame", r>> \in Sources
      BY DEF Sources
    <3> QED BY <1>6, <2>1, <3>1 DEF Create
  <2>2. ASSUME NEW c \in CoExprs, NEW o \in CoExprs, Refresh(r, c, o) PROVE TypeOK'
    <3>1. <<"image", o>> \in Sources
      BY DEF Sources
    <3> QED BY <1>6, <2>2, <3>1 DEF Refresh
  <2> QED BY <1>10, <1>11, <1>12, <1>13, <1>16, <2>1, <2>2 DEF Body
<1>17. ASSUME NEW c \in Ctx, Scheduled(c) PROVE TypeOK'
  BY <1>2, <1>3, <1>4, <1>5, <1>7, <1>8, <1>17 DEF Scheduled, Ctx
<1> QED BY <1>14, <1>15, <1>16, <1>17 DEF Next, Ended

(* Every step keeps the links between the threads, or ends the process. *)
LEMMA LinkedStep ==
    ASSUME TypeOK, Linked, [Next]_vars
    PROVE  \/ Linked' /\ ~Over'
           \/ \A c \in Ctx : pc'[c] = "gone"
<1>1. ASSUME NEW c \in Ctx, Scheduled(c) PROVE Linked' /\ ~Over'
  BY <1>1, PostStep, WakesStep, CreateReturnsStep, CopyImageStep DEF Scheduled, Ctx
<1>2. ASSUME NEW r \in Ctx, Body(r) PROVE Linked' /\ ~Over'
  <2>1. ASSUME NEW c \in CoExprs, Create(r, c) PROVE Linked' /\ ~Over'
    BY <2>1, StartThreadStep DEF Create
  <2>2. ASSUME NEW c \in CoExprs, NEW o \in CoExprs, Refresh(r, c, o) PROVE Linked' /\ ~Over'
    BY <2>2, StartThreadStep DEF Refresh
  <2>3. ASSUME Assign(r) PROVE Linked' /\ ~Over'
    BY <2>3, QuietStep DEF Assign
  <2> QED BY <1>2, <2>1, <2>2, <2>3, ActivateStep, CoretStep, CofailStep DEF Body
<1>3. ASSUME Exit PROVE \A c \in Ctx : pc'[c] = "gone"
  BY <1>3 DEF Exit
<1>4. ASSUME UNCHANGED vars PROVE Linked' /\ ~Over'
  BY <1>4, QuietStep DEF vars
<1> QED BY <1>1, <1>2, <1>3, <1>4 DEF Next, Ended

(* Once the process has ended nothing happens. *)
LEMMA OverStep ==
    ASSUME TypeOK, \A c \in Ctx : pc[c] = "gone", [Next]_vars
    PROVE  \A c \in Ctx : pc'[c] = "gone"
<1>1. ASSUME NEW c \in Ctx PROVE ~Scheduled(c) /\ ~Body(c)
  BY DEF Scheduled, Body, Post, Wake, WakeFirst, WakeActivate, WakeYield, CreateReturns,
         CopyImage, Create, Refresh, StartThread, Activate, Coret, Cofail, Assign
<1>2. CASE Exit
  BY <1>2 DEF Exit
<1>3. CASE UNCHANGED vars
  BY <1>3 DEF vars, control
<1> QED BY <1>1, <1>2, <1>3 DEF Next, Ended

(* The invariant is inductive, and so holds always. *)
THEOREM Invariance == Spec => []IndInv
<1>1. IndInv /\ [Next]_vars => IndInv'
  <2> SUFFICES ASSUME IndInv, [Next]_vars PROVE IndInv'
    OBVIOUS
  <2>1. CASE Over
    <3>1. TypeOK /\ \A c \in Ctx : pc[c] = "gone"
      BY <2>1 DEF IndInv
    <3>2. \A c \in Ctx : pc'[c] = "gone"
      BY <3>1, OverStep
    <3>3. TypeOK'
      <4>1. UNCHANGED vars \/ Exit
        BY <3>1 DEF Next, Ended, Scheduled, Body, Post, Wake, WakeFirst, WakeActivate,
             WakeYield, CreateReturns, CopyImage, Create, Refresh, StartThread, Activate,
             Coret, Cofail, Assign
      <4>2. CASE UNCHANGED vars
        BY <3>1, <4>2 DEF vars, TypeOK, control, record, frames
      <4>3. CASE Exit
        BY <3>1, <4>3 DEF Exit, TypeOK, record, frames, States
      <4> QED BY <4>1, <4>2, <4>3
    <3> QED BY <3>2, <3>3 DEF IndInv, Over, Ctx
  <2>2. CASE ~Over
    <3>1. TypeOK /\ Linked
      BY <2>2 DEF IndInv
    <3>2. TypeOK'
      BY <3>1, TypeStep DEF Linked
    <3>3. \/ Linked' /\ ~Over'
          \/ \A c \in Ctx : pc'[c] = "gone"
      BY <3>1, LinkedStep
    <3> QED BY <3>2, <3>3 DEF IndInv, Over, Ctx
  <2> QED BY <2>1, <2>2
<1> QED BY <1>1, InitInv, PTL DEF Spec

(* The types, which the bounds of the runs play no part in. *)
THEOREM TypeCorrect == Spec => []TypeOK
<1>1. IndInv => TypeOK
  BY DEF IndInv
<1> QED BY <1>1, Invariance, PTL

(* Control is in one place, whatever the number of co-expressions. *)
THEOREM ControlInOnePlace == Spec => []OneInControl
<1>1. IndInv => OneInControl
  BY DEF IndInv, Linked, OneInControl
<1> QED BY <1>1, Invariance, PTL

(* A failed context is never resumed. *)
THEOREM DeadNeverResumes == Spec => []DeadStaysParked
<1>1. IndInv => DeadStaysParked
  <2> SUFFICES ASSUME TypeOK, Linked, ~Over, NEW c \in Ctx, dead[c]
               PROVE  /\ pc[c] \in {"posting", "failed"}
                      /\ sem[c] = 0
                      /\ Holder # c
    BY DEF IndInv, DeadStaysParked
  <2>1. pc[c] = "failed" \/ (pc[c] = "posting" /\ park[c] = "failed")
    BY DEF Linked, DeadIsFailed
  <2>2. sem[c] = 0
    <3>1. ASSUME sem[c] > 0 PROVE FALSE
      BY <2>1, <3>1, Waking DEF Linked, PostIsTaken, WaitingStates, ParkedStates
    <3> QED BY <3>1 DEF TypeOK
  <2>3. Holder # c
    <3>1. PICK h \in Ctx : \/ Busy = {h} /\ Holder = IF pc[h] = "posting" THEN peer[h] ELSE h
                           \/ Woken = {h} /\ Holder = h
      BY DEF Linked, OneInControl
    <3>2. CASE Busy = {h} /\ Holder = IF pc[h] = "posting" THEN peer[h] ELSE h
      <4>1. pc[h] \in {"running", "posting", "awaitCreated"}
        BY <3>2 DEF Busy
      <4> QED BY <2>1, <3>2, <4>1 DEF Linked, PostIsTaken
    <3>3. CASE Woken = {h} /\ Holder = h
      BY <2>2, <3>3 DEF Woken
    <3> QED BY <3>1, <3>2, <3>3
  <2> QED BY <2>1, <2>2, <2>3
<1> QED BY <1>1, Invariance, PTL

(* An answer is always awaited, over activator chains of any length. *)
THEOREM AnswersAreAwaited == Spec => []AnswerIsAwaited
<1>1. IndInv => AnswerIsAwaited
  <2> SUFFICES ASSUME IndInv, NEW c \in CoExprs, pc[c] = "running"
               PROVE  LET b == LiveActivator(c, dead)
                      IN  b = c \/ pc[b] \in {"activating", "yielded"}
    BY DEF AnswerIsAwaited
  <2>1. TypeOK /\ Linked
    BY DEF IndInv, Ctx
  <2> QED BY <2>1, AnswerTarget DEF TypeOK
<1> QED BY <1>1, Invariance, PTL

(* The environment is nowhere but with the context that has control. *)
LEMMA EnvAtHolder ==
    ASSUME TypeOK, Linked, NEW x \in Ctx, env[x] \/ regs[x]
    PROVE  Holder = x
<1>1. CASE env[x]
  BY <1>1 DEF Linked, EnvWithControl
<1>2. CASE regs[x]
  <2>1. pc[x] \in {"running", "awaitCreated"}
    BY <1>2 DEF Linked, EnvWithControl
  <2> QED BY <2>1, Executing
<1> QED BY <1>1, <1>2

(* The scanning environment is never in two places. *)
THEOREM EnvNeverShared == Spec => []EnvInOnePlace
<1>1. IndInv => EnvInOnePlace
  <2> SUFFICES ASSUME IndInv, NEW c \in Ctx, NEW d \in Ctx,
                      env[c] \/ regs[c], env[d] \/ regs[d], ~Over
               PROVE  c = d /\ ~(env[c] /\ regs[c])
    BY DEF EnvInOnePlace
  <2>1. TypeOK /\ Linked
    BY DEF IndInv
  <2> QED BY <2>1, EnvAtHolder DEF Linked, EnvWithControl
<1> QED BY <1>1, Invariance, PTL

(* A prepared switch to another context hands the environment to it. *)
LEMMA SwitchHandsOn ==
    ASSUME TypeOK, Linked, NEW r \in Ctx, NEW t \in Ctx, NEW how \in ParkedStates,
           pc[r] = "running", PrepareSwitch(r, t, how), HasEnv
    PROVE  HasEnv' \/ SelfSwitch
<1>1. regs[r]
  <2>1. PICK x \in Ctx : env[x] \/ regs[x]
    BY DEF HasEnv
  <2>2. x = r
    BY <2>1, EnvAtHolder, Executing
  <2> QED BY <2>1, <2>2 DEF Linked, EnvWithControl
<1>2. CASE t = r
  BY <1>2 DEF PrepareSwitch, SelfSwitch, TypeOK
<1>3. CASE t # r
  <2>1. env'[t]
    BY <1>1, <1>3 DEF PrepareSwitch, TypeOK
  <2> QED BY <2>1 DEF HasEnv
<1> QED BY <1>2, <1>3

(* A context that wakes takes the environment from its record. *)
LEMMA WakeTakesEnv ==
    ASSUME TypeOK, Linked, NEW c \in Ctx,
           NEW from \in {"idle", "activating", "yielded"}, Wake(c, from), HasEnv
    PROVE  HasEnv'
<1>1. env[c]
  <2>1. PICK x \in Ctx : env[x] \/ regs[x]
    BY DEF HasEnv
  <2>2. x = c
    BY <2>1, EnvAtHolder, Waking DEF Wake
  <2> QED BY <2>1, <2>2 DEF Linked, EnvWithControl, Wake
<1>2. regs'[c]
  BY <1>1 DEF Wake, TypeOK
<1> QED BY <1>2 DEF HasEnv

(* A switch loses the environment only if it is a switch to oneself. *)
THEOREM EnvIsHandedOn == Spec => EnvHandedOn
<1>1. IndInv /\ [Next]_vars => [~Over /\ HasEnv /\ ~HasEnv' => SelfSwitch]_vars
  <2> SUFFICES ASSUME TypeOK, Linked, [Next]_vars, HasEnv
               PROVE  HasEnv' \/ SelfSwitch
    BY DEF IndInv
  <2>0. ASSUME UNCHANGED <<env, regs>> PROVE HasEnv'
    BY <2>0 DEF HasEnv
  <2>1. ASSUME NEW c \in Ctx, Scheduled(c) PROVE HasEnv'
    <3>1. CASE WakeFirst(c) \/ WakeActivate(c) \/ WakeYield(c)
      BY <3>1, WakeTakesEnv DEF WakeFirst, WakeActivate, WakeYield
    <3>2. CASE Post(c) \/ CreateReturns(c) \/ (c # Root /\ CopyImage(c))
      BY <2>0, <3>2 DEF Post, CreateReturns, CopyImage, record
    <3> QED BY <2>1, <3>1, <3>2 DEF Scheduled
  <2>2. ASSUME NEW r \in Ctx, NEW t \in Ctx, NEW v \in Values, Activate(r, t, v)
        PROVE  HasEnv' \/ SelfSwitch
    <3>1. CASE dead[t]
      BY <2>0, <2>2, <3>1 DEF Activate, record
    <3>2. CASE ~dead[t]
      BY <2>2, <3>2, SwitchHandsOn DEF Activate, ParkedStates
    <3> QED BY <3>1, <3>2
  <2>3. ASSUME NEW r \in Ctx, NEW v \in Values, Coret(r, v) PROVE HasEnv' \/ SelfSwitch
    <3>1. LiveActivator(r, dead) \in Ctx
      BY LiveActivatorFacts DEF Linked
    <3> QED BY <2>3, <3>1, SwitchHandsOn DEF Coret, ParkedStates
  <2>4. ASSUME NEW r \in Ctx, Cofail(r) PROVE HasEnv' \/ SelfSwitch
    <3>1. LiveActivator(r, dead') \in Ctx
      BY LiveActivatorFacts DEF Linked
    <3> QED BY <2>4, <3>1, SwitchHandsOn DEF Cofail, ParkedStates
  <2>5. ASSUME NEW r \in Ctx, Body(r) PROVE HasEnv' \/ SelfSwitch
    <3>1. CASE \E c \in CoExprs, o \in CoExprs : Create(r, c) \/ Refresh(r, c, o)
      BY <2>0, <3>1 DEF Create, Refresh, StartThread
    <3>2. CASE Assign(r)
      BY <2>0, <3>2 DEF Assign, record
    <3> QED BY <2>2, <2>3, <2>4, <2>5, <3>1, <3>2 DEF Body
  <2>6. CASE Exit \/ UNCHANGED vars
    BY <2>0, <2>6 DEF Exit, vars, record
  <2> QED BY <2>1, <2>5, <2>6 DEF Next, Ended
<1> QED BY <1>1, Invariance, PTL DEF EnvHandedOn, Spec

(* While a thread copies its snapshot its creator waits and nobody runs.    *)
LEMMA NobodyRunsDuringACopy ==
    ASSUME TypeOK, Linked, NEW c \in CoExprs, pc[c] = "copying"
    PROVE  /\ \A x \in Ctx : sem[x] = 0 /\ pc[x] \notin {"running", "posting"}
           /\ \A x \in CoExprs : pc[x] = "copying" => x = c
<1>1. PICK r \in Ctx : pc[r] = "awaitCreated" /\ peer[r] = c
  BY DEF Linked, CreationPairs
<1>2. /\ \A x \in Ctx : sem[x] = 0
      /\ \A x \in Ctx \ {r} : pc[x] \in WaitingStates \cup {"absent", "copying"}
  BY <1>1, Executing
<1>3. ASSUME NEW x \in CoExprs, pc[x] = "copying" PROVE x = c
  <2>1. PICK y \in Ctx : pc[y] = "awaitCreated" /\ peer[y] = x
    BY <1>3 DEF Linked, CreationPairs
  <2>2. y = r
    BY <1>2, <2>1 DEF WaitingStates, ParkedStates
  <2> QED BY <1>1, <2>1, <2>2
<1> QED BY <1>1, <1>2, <1>3 DEF WaitingStates, ParkedStates

(* Nobody runs while a snapshot is being taken. *)
THEOREM SourcesAreAtRest == Spec => []SourceIsAtRest
<1>1. IndInv => SourceIsAtRest
  <2> SUFFICES ASSUME IndInv, NEW c \in CoExprs, pc[c] = "copying", NEW x \in Ctx
               PROVE  pc[x] # "running"
    BY DEF SourceIsAtRest
  <2>1. TypeOK /\ Linked
    BY DEF IndInv, Over, Ctx
  <2> QED BY <2>1, NobodyRunsDuringACopy
<1> QED BY <1>1, Invariance, PTL

(* What a new context copies is what it was created from: nothing writes    *)
(* the creator's frame, or the image refreshed, before the copy is made.    *)
THEOREM SnapshotsAreStable == Spec => SnapshotIsStable
<1>1. IndInv /\ [Next]_vars =>
         [\A c \in CoExprs : pc[c] = "copying" /\ pc'[c] = "copying"
                              => Source(c)' = Source(c)]_vars
  <2> SUFFICES ASSUME IndInv, [Next]_vars, NEW c \in CoExprs,
                      pc[c] = "copying", pc'[c] = "copying"
               PROVE  frame' = frame /\ image' = image /\ src' = src
    BY DEF Source
  <2>1. TypeOK /\ Linked /\ c \in Ctx
    BY DEF IndInv, Over, Ctx
  <2>2. /\ \A x \in Ctx : sem[x] = 0 /\ pc[x] \notin {"running", "posting"}
        /\ \A x \in CoExprs : pc[x] = "copying" => x = c
    BY <2>1, NobodyRunsDuringACopy
  <2>3. ASSUME NEW x \in Ctx, Body(x) PROVE FALSE
    BY <2>2, <2>3 DEF Body, Create, Refresh, StartThread, Activate, Coret, Cofail, Assign
  <2>4. ASSUME NEW x \in Ctx, Scheduled(x)
        PROVE  frame' = frame /\ image' = image /\ src' = src
    <3>1. ~(WakeFirst(x) \/ WakeActivate(x) \/ WakeYield(x) \/ Post(x))
      BY <2>2 DEF WakeFirst, WakeActivate, WakeYield, Wake, Post
    <3>2. CASE CreateReturns(x)
      BY <3>2 DEF CreateReturns, frames
    <3>3. CASE x # Root /\ CopyImage(x)
      <4>1. x = c
        BY <2>2, <3>3 DEF CopyImage, Ctx
      <4>2. pc'[c] = "idle"
        BY <2>1, <3>3, <4>1 DEF CopyImage, TypeOK
      <4> QED BY <4>2
    <3> QED BY <2>4, <3>1, <3>2, <3>3 DEF Scheduled
  <2> QED BY <2>3, <2>4 DEF Next, Exit, Ended, vars, frames
<1> QED BY <1>1, Invariance, PTL DEF SnapshotIsStable, Spec
-----------------------------------------------------------------------------
(* A failure is seen as one: no context comes back to control past the     *)
(* activator that has gone on to another context since.                    *)

\* A step that moves no control and starts no activation confines as before.
LEMMA SupersededKept ==
    ASSUME SupersededWaits, Holder' = Holder, activator' = activator,
           \A x \in Ctx : Awaits(x)' => Awaits(x) /\ peer'[x] = peer[x],
           TypeOK
    PROVE  SupersededWaits'
<1> SUFFICES ASSUME NEW c \in CoExprs, activator[c] # None,
                    Awaits(activator[c])', peer'[activator[c]] # c
             PROVE  \E S \in SUBSET (Ctx \ {c}) : Confines(S, activator[c])'
  BY DEF SupersededWaits
<1>1. activator[c] \in Ctx
  BY DEF TypeOK, Ctx
<1>2. PICK S \in SUBSET (Ctx \ {c}) : Confines(S, activator[c])
  BY <1>1 DEF SupersededWaits
<1> QED BY <1>2 DEF Confines

\* Activating t from r: the way back from t begins with r.
LEMMA SupersededActivate ==
    ASSUME TypeOK, Linked, SupersededWaits, NEW r \in Ctx, NEW t \in Ctx,
           pc[r] = "running", PrepareSwitch(r, t, "activating"),
           current' = t, activator' = [activator EXCEPT ![t] = r]
    PROVE  SupersededWaits'
<1>1. Holder = r /\ Holder' = t /\ t # None /\ r # None
  BY Executing, ConstantsAssumption DEF Holder
<1>2. \A x \in Ctx : activator'[x] = IF x = t THEN r ELSE activator[x]
  BY DEF TypeOK
<1>3. \A x \in Ctx : x # r /\ Awaits(x)' => Awaits(x) /\ peer'[x] = peer[x]
  BY DEF Awaits, PrepareSwitch, TypeOK
<1>4. ~Awaits(r) /\ peer'[r] = t
  BY DEF Awaits, PrepareSwitch, TypeOK
<1> SUFFICES ASSUME NEW c \in CoExprs, NEW a \in Ctx, a = activator'[c],
                    Awaits(a)', peer'[a] # c
             PROVE  \E S \in SUBSET (Ctx \ {c}) :
                      /\ t \in S \cup {a}
                      /\ \A x \in S \ {Root} : activator'[x] \in S \cup {a, None}
  <2>1. \A c \in Ctx : activator'[c] # None => activator'[c] \in Ctx
    BY <1>2 DEF TypeOK
  <2> QED BY <1>1, <2>1 DEF SupersededWaits, Confines, Ctx
<1>5. CASE a = r
  <2>1. c # t
    BY <1>4, <1>5
  <2>2. {t} \in SUBSET (Ctx \ {c})
    BY <2>1
  <2> QED BY <1>2, <1>5, <2>2
<1>6. CASE a # r
  <2>1. c # t /\ activator[c] = a /\ c \in Ctx
    BY <1>2, <1>6 DEF Ctx
  <2>2. PICK S \in SUBSET (Ctx \ {c}) : Confines(S, a)
    BY <1>3, <1>6, <2>1, ConstantsAssumption DEF SupersededWaits
  <2>3. S \cup {t} \in SUBSET (Ctx \ {c}) /\ r \in S
    BY <1>1, <1>6, <2>1, <2>2 DEF Confines
  <2>4. \A x \in (S \cup {t}) \ {Root} : activator'[x] \in (S \cup {t}) \cup {a, None}
    BY <1>2, <2>2, <2>3 DEF Confines
  <2> QED BY <2>3, <2>4
<1> QED BY <1>5, <1>6

\* An answer goes back along the activators, so it stays in the set, or
\* comes to the activator that closes it.
LEMMA AnswerIsConfined ==
    ASSUME TypeOK, NEW me \in Ctx \ {Root}, NEW d, \A x \in Ctx : ~dead[x] /\ x # me => ~d[x],
           NEW a \in Ctx, ~dead[a], a # me, NEW S \in SUBSET Ctx, Confines(S, a), me \in S
    PROVE  LiveActivator(me, d) \in S \cup {a, Root}
<1> DEFINE T == S \cup {a, None}
<1>1. activator[me] \in T
  BY DEF Confines
<1>2. \A x \in T : ~Stops(x, d) => activator[x] \in T
  BY DEF Stops, Confines
<1>3. Walk(me, d) \in T
  <2> HIDE DEF T
  <2> QED BY <1>1, <1>2, WalkStaysIn
<1> QED BY <1>3 DEF LiveActivator

LEMMA SupersededAnswer ==
    ASSUME TypeOK, Linked, SupersededWaits, NEW r \in CoExprs, NEW how \in {"yielded", "failed"},
           pc[r] = "running", NEW d, \A x \in Ctx : ~dead[x] /\ x # r => ~d[x],
           NEW b \in Ctx, b = LiveActivator(r, d),
           PrepareSwitch(r, b, how), current' = b, activator' = activator
    PROVE  SupersededWaits'
<1>0. r \in Ctx \ {Root} /\ Root \in Ctx /\ Root \notin CoExprs /\ None \notin Ctx
  BY ConstantsAssumption DEF Ctx
<1>1. Holder = r /\ Holder' = b
  BY <1>0, Executing DEF Holder
<1>2. \A x \in Ctx : Awaits(x)' => Awaits(x) /\ peer'[x] = peer[x] /\ x # r
  BY <1>0 DEF Awaits, PrepareSwitch, TypeOK
<1> SUFFICES ASSUME NEW c \in CoExprs, NEW a \in Ctx, a = activator[c],
                    Awaits(a)', peer'[a] # c
             PROVE  \E S \in SUBSET (Ctx \ {c}) :
                      /\ b \in S \cup {a}
                      /\ \A x \in S \ {Root} : activator[x] \in S \cup {a, None}
  <2>1. \A c \in Ctx : activator[c] # None => activator[c] \in Ctx
    BY DEF TypeOK
  <2> QED BY <1>1, <2>1 DEF SupersededWaits, Confines, Ctx
<1>3. Awaits(a) /\ peer[a] # c /\ a # r
  BY <1>2
<1>4. PICK S \in SUBSET (Ctx \ {c}) : Confines(S, a)
  BY <1>0, <1>3 DEF SupersededWaits
<1>5. r \in S
  BY <1>1, <1>3, <1>4 DEF Confines
<1>6. ~dead[a]
  BY <1>3 DEF Linked, DeadIsFailed, Awaits
<1>7. b \in S \cup {a, Root}
  <2>1. S \in SUBSET Ctx
    OBVIOUS
  <2> QED BY <1>0, <1>3, <1>4, <1>5, <1>6, <2>1, AnswerIsConfined
<1>8. CASE b \in S \cup {a}
  BY <1>4, <1>8 DEF Confines
<1>9. CASE b = Root
  <2>1. {Root} \in SUBSET (Ctx \ {c})
    BY <1>0
  <2> QED BY <1>9, <2>1
<1> QED BY <1>7, <1>8, <1>9

\* The context that fails is the one its activator waits for.
LEMMA FailureFindsItsOwn ==
    ASSUME TypeOK, Linked, SupersededWaits, NEW f \in CoExprs, pc[f] = "running",
           NEW a \in Ctx, a = activator[f], pc[a] = "activating"
    PROVE  peer[a] = f
<1>0. f \in Ctx /\ None \notin Ctx
  BY ConstantsAssumption DEF Ctx
<1> SUFFICES ASSUME peer[a] # f PROVE FALSE
  OBVIOUS
<1>1. PICK S \in SUBSET (Ctx \ {f}) : Confines(S, a)
  BY <1>0 DEF SupersededWaits, Awaits
<1>2. Holder = f
  BY <1>0, Executing
<1> QED BY <1>1, <1>2 DEF Confines

LEMMA FailStep ==
    ASSUME TypeOK, Linked, SupersededWaits, FailureGoesHome, [Next]_vars, ~Exit
    PROVE  SupersededWaits' /\ FailureGoesHome'
<1>0. Root \in Ctx /\ None \notin Ctx /\ CoExprs \subseteq Ctx /\ Root \notin CoExprs
  BY ConstantsAssumption DEF Ctx
<1>1. CASE UNCHANGED vars
  BY <1>1 DEF vars, control, record, SupersededWaits, FailureGoesHome, Awaits, Confines, Holder
\* A step that makes nobody post.
<1>2. ASSUME Holder' = Holder, activator' = activator,
             \A x \in Ctx : Awaits(x)' => Awaits(x) /\ peer'[x] = peer[x],
             \A x \in Ctx : pc'[x] # "posting"
      PROVE  SupersededWaits' /\ FailureGoesHome'
  BY <1>0, <1>2, SupersededKept DEF FailureGoesHome
<1>3. ASSUME NEW c \in Ctx, Post(c) PROVE SupersededWaits' /\ FailureGoesHome'
  <2>1. \A x \in Ctx \ {c} : pc[x] # "posting"
    BY <1>3, Executing DEF Post, WaitingStates, ParkedStates
  <2>2. \A x \in Ctx : pc'[x] = (IF x = c THEN park[c] ELSE pc[x]) /\ park[c] \in ParkedStates
    BY <1>3 DEF Post, TypeOK
  <2>3. UNCHANGED <<current, park, peer, activator>>
    BY <1>3 DEF Post, record
  <2>4. Holder' = Holder
    BY <2>3 DEF Holder
  <2>5. \A x \in Ctx : Awaits(x)' => Awaits(x) /\ peer'[x] = peer[x]
    BY <1>3, <2>2, <2>3 DEF Awaits, Post
  <2> QED BY <1>2, <2>1, <2>2, <2>3, <2>4, <2>5 DEF ParkedStates
<1>4. ASSUME NEW c \in Ctx, NEW from \in {"idle", "activating", "yielded"}, Wake(c, from),
             Holder' = c, activator' = activator
      PROVE  SupersededWaits' /\ FailureGoesHome'
  <2>1. /\ \A x \in Ctx : pc[x] \in WaitingStates \cup {"absent", "copying"}
        /\ Holder = c
    BY <1>4, Waking DEF Wake
  <2>2. \A x \in Ctx : /\ pc'[x] = (IF x = c THEN "running" ELSE pc[x])
                       /\ x # c => peer'[x] = peer[x] /\ park'[x] = park[x]
    BY <1>4 DEF Wake, TypeOK
  <2>3. \A x \in Ctx : Awaits(x)' => Awaits(x) /\ peer'[x] = peer[x]
    BY <2>2 DEF Awaits
  <2> QED BY <1>2, <1>4, <2>1, <2>2, <2>3 DEF WaitingStates, ParkedStates
<1>5. ASSUME NEW c \in Ctx, WakeFirst(c) \/ WakeActivate(c) \/ WakeYield(c)
      PROVE  SupersededWaits' /\ FailureGoesHome'
  <2>0. c # None
    BY <1>0
  <2>1. CASE WakeFirst(c)
    BY <1>4, <2>0, <2>1 DEF WakeFirst, Holder
  <2>2. CASE WakeActivate(c)
    <3>1. Holder' = c
      BY <2>0, <2>2 DEF WakeActivate, Wake, Holder, Linked, PrevIsSelf
    <3> QED BY <1>4, <2>2, <3>1 DEF WakeActivate
  <2>3. CASE WakeYield(c)
    <3>1. Holder = c
      BY <2>3, Waking DEF WakeYield, Wake
    <3>2. Holder' = c
      BY <2>3, <3>1 DEF WakeYield, Holder
    <3> QED BY <1>4, <2>3, <3>2 DEF WakeYield
  <2> QED BY <1>5, <2>1, <2>2, <2>3
\* The steps of a thread that executes and goes on executing.
<1>6. ASSUME NEW r \in Ctx, pc[r] \in {"running", "awaitCreated"}, current' = current,
             activator' = activator,
             \A x \in Ctx \ {r} : /\ peer'[x] = peer[x] /\ park'[x] = park[x]
                                  /\ pc'[x] \in {"activating", "posting"} => pc'[x] = pc[x],
             pc'[r] \in {"running", "awaitCreated"}
      PROVE  SupersededWaits' /\ FailureGoesHome'
  <2>1. \A x \in Ctx \ {r} : pc[x] # "posting"
    BY <1>6, Executing DEF WaitingStates, ParkedStates
  <2>2. Holder' = Holder
    BY <1>6 DEF Holder
  <2>3. \A x \in Ctx : Awaits(x)' => Awaits(x) /\ peer'[x] = peer[x]
    BY <1>6 DEF Awaits
  <2>4. \A x \in Ctx : pc'[x] # "posting"
    BY <1>6, <2>1
  <2> QED BY <1>2, <1>6, <2>2, <2>3, <2>4
<1>7. ASSUME NEW c \in Ctx, CreateReturns(c) PROVE SupersededWaits' /\ FailureGoesHome'
  BY <1>6, <1>7 DEF CreateReturns, TypeOK, record
<1>8. ASSUME NEW c \in CoExprs, CopyImage(c) PROVE SupersededWaits' /\ FailureGoesHome'
  <2>1. PICK r \in Ctx : pc[r] = "awaitCreated" /\ peer[r] = c
    BY <1>8 DEF Linked, CreationPairs, CopyImage
  <2>2. r # c
    BY <1>8, <2>1 DEF CopyImage
  <2> QED BY <1>0, <1>6, <1>8, <2>1, <2>2 DEF CopyImage, TypeOK, record
<1>9. ASSUME NEW r \in Ctx, NEW c \in CoExprs, NEW from, StartThread(r, c, from)
      PROVE  SupersededWaits' /\ FailureGoesHome'
  <2>1. r # c /\ pc[r] = "running"
    BY <1>9 DEF StartThread
  <2> QED BY <1>0, <1>6, <1>9, <2>1 DEF StartThread, TypeOK
<1>10. ASSUME NEW r \in Ctx, Assign(r) PROVE SupersededWaits' /\ FailureGoesHome'
  BY <1>6, <1>10 DEF Assign, control, record
\* A switch makes nobody else post, and it is a failure only in Cofail.
<1>11. ASSUME NEW r \in Ctx, NEW t \in Ctx, NEW how, pc[r] = "running",
              PrepareSwitch(r, t, how)
       PROVE  \A f \in CoExprs :
                pc'[f] = "posting" /\ park'[f] = "failed" => f = r /\ how = "failed" /\ peer'[f] = t
  <2>1. \A x \in Ctx \ {r} : pc[x] # "posting"
    BY <1>11, Executing DEF WaitingStates, ParkedStates
  <2> QED BY <1>0, <1>11, <2>1 DEF PrepareSwitch, TypeOK
<1>12. ASSUME NEW r \in Ctx, NEW t \in Ctx, NEW v \in Values, Activate(r, t, v)
       PROVE  SupersededWaits' /\ FailureGoesHome'
  <2>1. CASE dead[t]
    BY <1>12, <2>1 DEF Activate, control, record, SupersededWaits, FailureGoesHome, Awaits,
                       Confines, Holder
  <2>2. CASE ~dead[t]
    <3>1. /\ pc[r] = "running" /\ PrepareSwitch(r, t, "activating") /\ current' = t
          /\ activator' = [activator EXCEPT ![t] = r]
      BY <1>12, <2>2 DEF Activate
    <3>2. \A f \in CoExprs : ~(pc'[f] = "posting" /\ park'[f] = "failed")
      BY <1>11, <3>1
    <3>3. SupersededWaits'
      BY <3>1, SupersededActivate
    <3> QED BY <3>2, <3>3 DEF FailureGoesHome
  <2> QED BY <2>1, <2>2
<1>13. ASSUME NEW r \in Ctx, NEW v \in Values, Coret(r, v)
       PROVE  SupersededWaits' /\ FailureGoesHome'
  <2> DEFINE b == LiveActivator(r, dead)
  <2>1. /\ r \in CoExprs /\ pc[r] = "running" /\ b \in Ctx /\ activator' = activator
        /\ PrepareSwitch(r, b, "yielded") /\ current' = b
    BY <1>13, LiveActivatorFacts DEF Coret, Ctx, Linked
  <2> HIDE DEF b
  <2>2. SupersededWaits'
    BY <2>1, SupersededAnswer DEF b
  <2> QED BY <1>0, <1>11, <2>1, <2>2 DEF FailureGoesHome
<1>14. ASSUME NEW r \in Ctx, Cofail(r) PROVE SupersededWaits' /\ FailureGoesHome'
  <2> DEFINE b == LiveActivator(r, dead')
  <2>1. /\ r \in CoExprs /\ pc[r] = "running" /\ b \in Ctx /\ activator' = activator
        /\ PrepareSwitch(r, b, "failed") /\ current' = b
        /\ dead' = [dead EXCEPT ![r] = TRUE]
    BY <1>14, LiveActivatorFacts DEF Cofail, Ctx, Linked
  <2>2. \A x \in Ctx : ~dead[x] /\ x # r => ~dead'[x]
    BY <2>1 DEF TypeOK
  <2> HIDE DEF b
  <2>3. SupersededWaits'
    BY <2>1, <2>2, SupersededAnswer DEF b
  <2>4. ASSUME peer'[r] = activator'[r], pc'[peer'[r]] = "activating"
        PROVE  peer'[peer'[r]] = r
    <3>1. peer'[r] = b /\ activator[r] = b
      BY <1>0, <2>1, <2>4 DEF PrepareSwitch, TypeOK
    <3>2. b # r /\ pc[b] = "activating" /\ peer'[b] = peer[b]
      BY <2>1, <2>4, <3>1 DEF PrepareSwitch, TypeOK
    <3>3. peer[b] = r
      BY <2>1, <3>1, <3>2, FailureFindsItsOwn
    <3> QED BY <3>1, <3>2, <3>3
  <2> QED BY <1>0, <1>11, <2>1, <2>3, <2>4 DEF FailureGoesHome
<1>15. ASSUME NEW r \in Ctx, Body(r) PROVE SupersededWaits' /\ FailureGoesHome'
  BY <1>9, <1>10, <1>12, <1>13, <1>14, <1>15 DEF Body, Create, Refresh
<1>16. ASSUME NEW c \in Ctx, Scheduled(c) PROVE SupersededWaits' /\ FailureGoesHome'
  BY <1>3, <1>5, <1>7, <1>8, <1>16 DEF Scheduled, Ctx
<1> QED BY <1>1, <1>15, <1>16 DEF Next, Ended

(* A context that fails and wakes its own activator wakes it inside the    *)
(* activation of that very context, over activator chains of any length:   *)
(* the activator finds its target dead and takes no value for a result     *)
(* (scrip_cofail, scrip_coexpr_activate).                                  *)
THEOREM FailuresAreSeen == Spec => []FailureIsSeen
<1>1. Init => FailInv
  <2> SUFFICES ASSUME Init PROVE FailInv
    OBVIOUS
  <2>1. \A c \in CoExprs : activator[c] = None /\ pc[c] # "posting"
    BY ConstantsAssumption DEF Init, Ctx
  <2> QED BY <2>1 DEF FailInv, SupersededWaits, FailureGoesHome
<1>2. IndInv /\ FailInv /\ [Next]_vars /\ IndInv' => FailInv'
  <2> SUFFICES ASSUME IndInv, FailInv, [Next]_vars, ~Over' PROVE FailInv'
    BY DEF FailInv
  <2>1. ~Over
    <3> SUFFICES ASSUME Over PROVE FALSE
      OBVIOUS
    <3>1. \A c \in Ctx : pc'[c] = "gone"
      BY OverStep DEF IndInv
    <3> QED BY <3>1 DEF Over, Ctx
  <2>2. ~Exit
    BY DEF Exit, Over, Ctx
  <2> QED BY <2>1, <2>2, FailStep DEF IndInv, FailInv
<1>3. IndInv /\ FailInv => FailureIsSeen
  <2> SUFFICES ASSUME IndInv, FailInv, NEW f \in CoExprs,
                      pc[f] = "posting", park[f] = "failed", peer[f] = activator[f],
                      pc[peer[f]] = "activating"
               PROVE  dead[peer[peer[f]]]
    BY DEF FailureIsSeen
  <2>1. f \in Ctx /\ ~Over
    BY DEF IndInv, Ctx
  <2>2. peer[peer[f]] = f
    BY <2>1 DEF FailInv, FailureGoesHome
  <2> QED BY <2>1, <2>2 DEF IndInv, Linked, DeadIsFailed
<1> QED BY <1>1, <1>2, <1>3, Invariance, PTL DEF Spec
-----------------------------------------------------------------------------
(***************************************************************************)
(* The threads implement the coroutines of module Coroutines, as long as   *)
(* there are no more co-expressions than scrip_co_live_activator makes     *)
(* hops.  A chain of failed contexts then ends, or comes round, within the *)
(* hops, and the loop finds what the specification defines without one:    *)
(* the live member of the smallest set the chain stays in.                 *)
(***************************************************************************)
Fits == IsFiniteSet(CoExprs) /\ Cardinality(CoExprs) <= HopLimit

\* The contexts the loop visits.
LEMMA WalkIsHops ==
    ASSUME NEW me, NEW d
    PROVE  \E w : /\ IsHops(w, HopLimit, me, d)
                  /\ Walk(me, d) = w[HopLimit]
<1> DEFINE w == CHOOSE f : IsHops(f, HopLimit, me, d)
<1>1. HopLimit \in Nat
  BY ConstantsAssumption
<1>2. IsHops(w, HopLimit, me, d)
  <2>1. \E f : IsHops(f, HopLimit, me, d)
    BY HopsExist, <1>1
  <2> HIDE DEF IsHops
  <2> QED BY <2>1
<1>3. Walk(me, d) = w[HopLimit]
  BY DEF Walk, Hop, IsHops
<1> QED BY <1>2, <1>3

\* Where the loop stops it stays.
LEMMA StopsForGood ==
    ASSUME NEW me, NEW d, NEW w, IsHops(w, HopLimit, me, d),
           NEW n \in 0..HopLimit, Stops(w[n], d)
    PROVE  w[HopLimit] = w[n]
<1> DEFINE T == {k \in Nat : n + k <= HopLimit => w[n + k] = w[n]}
<1>0. HopLimit \in Nat
  BY ConstantsAssumption
<1>1. 0 \in T
  OBVIOUS
<1>2. ASSUME NEW k \in Nat, k \in T PROVE k + 1 \in T
  <2> SUFFICES ASSUME n + (k + 1) <= HopLimit PROVE w[n + (k + 1)] = w[n]
    OBVIOUS
  <2>1. w[n + k] = w[n]
    BY <1>0, <1>2
  <2>2. /\ n + (k + 1) \in 0..HopLimit /\ n + (k + 1) # 0
        /\ (n + (k + 1)) - 1 = n + k
    BY <1>0
  <2>3. w[n + (k + 1)] = Hop(w, n + (k + 1), me, d)
    BY <2>2 DEF IsHops
  <2> QED BY <2>1, <2>2, <2>3 DEF Hop
<1>3. Nat \subseteq T
  <2> HIDE DEF T
  <2> QED BY <1>1, <1>2, SetInduction
<1>4. HopLimit - n \in Nat /\ n + (HopLimit - n) = HopLimit
  BY <1>0
<1> QED BY <1>3, <1>4

\* If the loop finds nobody, the chain stays among the dead.
LEMMA DeadEnd ==
    ASSUME TypeOK, Fits, NEW me \in Ctx, NEW d,
           Walk(me, d) = None \/ ~Stops(Walk(me, d), d)
    PROVE  \E S \in SUBSET (Ctx \cup {None}) :
             /\ activator[me] \in S
             /\ \A x \in S : x # None => x \in CoExprs /\ d[x] /\ activator[x] \in S
<1>0. HopLimit \in Nat
  BY ConstantsAssumption
<1>1. PICK w : IsHops(w, HopLimit, me, d) /\ Walk(me, d) = w[HopLimit]
  BY WalkIsHops
<1>2. /\ w[0] = activator[me]
      /\ \A n \in 0..HopLimit : n < HopLimit /\ ~Stops(w[n], d) => w[n + 1] = activator[w[n]]
  <2>1. w[0] = activator[me]
    BY <1>0, <1>1 DEF IsHops, Hop
  <2>2. ASSUME NEW n \in 0..HopLimit, n < HopLimit, ~Stops(w[n], d)
        PROVE  w[n + 1] = activator[w[n]]
    <3>1. n + 1 \in 0..HopLimit /\ n + 1 # 0 /\ (n + 1) - 1 = n
      BY <1>0, <2>2
    <3>2. w[n + 1] = Hop(w, n + 1, me, d)
      BY <1>1, <3>1 DEF IsHops
    <3> QED BY <2>2, <3>1, <3>2 DEF Hop
  <2> QED BY <2>1, <2>2
<1>3. \A n \in 0..HopLimit : w[n] = None \/ ~Stops(w[n], d)
  <2> SUFFICES ASSUME NEW n \in 0..HopLimit, Stops(w[n], d) PROVE w[n] = None
    OBVIOUS
  <2>1. w[HopLimit] = w[n]
    BY <1>1, StopsForGood
  <2> QED BY <1>1, <2>1
<1>4. \A n \in 0..HopLimit : w[n] \in Ctx \cup {None}
  <2> DEFINE T == {n \in Nat : n <= HopLimit => w[n] \in Ctx \cup {None}}
  <2>1. 0 \in T
    BY <1>2 DEF TypeOK
  <2>2. ASSUME NEW n \in Nat, n \in T PROVE n + 1 \in T
    <3> SUFFICES ASSUME n + 1 <= HopLimit PROVE w[n + 1] \in Ctx \cup {None}
      OBVIOUS
    <3>1. n \in 0..HopLimit /\ n < HopLimit /\ n + 1 \in 0..HopLimit /\ n + 1 # 0
          /\ (n + 1) - 1 = n /\ w[n] \in Ctx \cup {None}
      BY <1>0, <2>2
    <3>2. w[n + 1] = IF Stops(w[n], d) THEN w[n] ELSE activator[w[n]]
      BY <1>1, <3>1 DEF IsHops, Hop
    <3>3. ~Stops(w[n], d) => w[n] \in Ctx
      BY <3>1 DEF Stops
    <3> QED BY <3>1, <3>2, <3>3 DEF TypeOK
  <2>3. Nat \subseteq T
    <3> HIDE DEF T
    <3> QED BY <2>1, <2>2, SetInduction
  <2> QED BY <1>0, <2>3
<1>5. \A n \in 0..HopLimit : w[n] # None => w[n] \in CoExprs /\ d[w[n]]
  BY <1>3, <1>4 DEF Stops, Ctx
<1>6. CASE w[HopLimit] = None
  <2> DEFINE S == {w[n] : n \in 0..HopLimit}
  <2>1. S \in SUBSET (Ctx \cup {None}) /\ activator[me] \in S
    BY <1>0, <1>2, <1>4
  <2>2. ASSUME NEW x \in S, x # None PROVE x \in CoExprs /\ d[x] /\ activator[x] \in S
    <3>1. PICK n \in 0..HopLimit : x = w[n]
      OBVIOUS
    <3>2. n < HopLimit /\ n + 1 \in 0..HopLimit
      BY <1>0, <1>6, <2>2, <3>1
    <3>3. w[n + 1] = activator[x]
      BY <1>2, <1>3, <2>2, <3>1, <3>2
    <3> QED BY <1>5, <2>2, <3>1, <3>2, <3>3
  <2> HIDE DEF S
  <2> QED BY <2>1, <2>2
<1>7. CASE w[HopLimit] # None
  <2>1. \A n \in 0..HopLimit : w[n] \in CoExprs
    <3> SUFFICES ASSUME NEW n \in 0..HopLimit, w[n] = None PROVE FALSE
      BY <1>5
    <3>1. w[HopLimit] = w[n]
      BY <1>1, StopsForGood DEF Stops
    <3> QED BY <1>7, <3>1
  <2> DEFINE f == [n \in 0..HopLimit |-> w[n]]
  <2>2. PICK i, j \in 0..HopLimit : i < j /\ w[i] = w[j]
    <3>1. IsFiniteSet(0..HopLimit) /\ Cardinality(0..HopLimit) = HopLimit + 1
      BY <1>0, FS_Interval
    <3>2. Cardinality(CoExprs) < Cardinality(0..HopLimit)
      <4>1. Cardinality(CoExprs) \in Nat
        BY FS_CardinalityType DEF Fits
      <4> QED BY <1>0, <3>1, <4>1 DEF Fits
    <3>3. f \in [0..HopLimit -> CoExprs]
      BY <2>1
    <3>4. PICK x, y \in 0..HopLimit : x # y /\ f[x] = f[y]
      <4> HIDE DEF f
      <4> QED BY <3>1, <3>2, <3>3, FS_PigeonHole DEF Fits
    <3>5. x < y \/ y < x
      BY <1>0, <3>4
    <3> QED BY <3>4, <3>5
  <2> DEFINE S == {w[n] : n \in 0..(j - 1)}
  <2>3. 0..(j - 1) \subseteq 0..HopLimit /\ 0 \in 0..(j - 1) /\ i \in 0..(j - 1)
    BY <1>0, <2>2
  <2>4. S \in SUBSET (Ctx \cup {None}) /\ activator[me] \in S
    BY <1>2, <1>4, <2>3
  <2>5. ASSUME NEW x \in S, x # None PROVE x \in CoExprs /\ d[x] /\ activator[x] \in S
    <3>1. PICK n \in 0..(j - 1) : x = w[n]
      OBVIOUS
    <3>2. n \in 0..HopLimit /\ n < HopLimit /\ n + 1 \in 0..j
      BY <1>0, <2>2, <3>1
    <3>3. w[n + 1] = activator[x]
      BY <1>2, <1>3, <2>5, <3>1, <3>2
    <3>4. n + 1 \in 0..(j - 1) \/ n + 1 = j
      BY <1>0, <2>2, <3>2
    <3>5. w[n + 1] \in S
      BY <2>2, <2>3, <3>4
    <3> QED BY <1>5, <2>5, <3>1, <3>2, <3>3, <3>5
  <2> HIDE DEF S
  <2> QED BY <2>4, <2>5
<1> QED BY <1>6, <1>7

(* The loop finds the context the specification names.                     *)
LEMMA AnswersMatch ==
    ASSUME TypeOK, Linked, Fits, NEW me \in CoExprs, NEW d \in [Ctx -> BOOLEAN], ~d[Root],
           NEW ph, \A x \in Ctx : /\ ph[x] = "dead" <=> d[x]
                                  /\ ~d[x] /\ pc[x] # "absent" => ph[x] = "alive"
    PROVE  LiveActivator(me, d) \in Abstract!Answers(me, ph)
<1> DEFINE b == Walk(me, d)
           All == Ctx \cup {None}
           Closed(S) == /\ activator[me] \in S
                        /\ \A x \in S : x \in Ctx /\ ph[x] = "dead" => activator[x] \in S
           C == {x \in All : \A S \in SUBSET All : Closed(S) => x \in S}
           live == {x \in C \ {None} : ph[x] = "alive"}
<1>0. me \in Ctx /\ Root \in Ctx /\ None \notin Ctx
  BY ConstantsAssumption DEF Ctx
<1>1. Abstract!Answers(me, ph) = IF live = {} THEN {Root} ELSE live
  BY DEF Abstract!Answers, Abstract!Chain, Abstract!Ctx, Ctx
<1>2. LiveActivator(me, d) = IF b # None /\ Stops(b, d) THEN b ELSE Root
  BY DEF LiveActivator
<1>3. CASE b # None /\ Stops(b, d)
  <2>1. LiveActivator(me, d) = b
    BY <1>2, <1>3
  <2>2. b \in Ctx /\ (b # Root => ~d[b] /\ pc[b] # "absent")
    BY <1>0, <2>1, LiveActivatorFacts DEF Linked
  <2>3. ph[b] = "alive"
    BY <1>0, <2>2 DEF Linked, RootIsMain
  <2>4. ASSUME NEW S \in SUBSET All, Closed(S) PROVE b \in S
    <3>1. activator[me] \in S
      BY <2>4
    <3>2. \A x \in S : ~Stops(x, d) => activator[x] \in S
      BY <2>4 DEF Stops
    <3> QED BY <3>1, <3>2, WalkStaysIn
  <2>5. b \in C
    BY <2>2, <2>4
  <2>6. b \in live
    BY <1>3, <2>3, <2>5
  <2> HIDE DEF live, b
  <2> QED BY <1>1, <2>1, <2>6
<1>4. CASE ~(b # None /\ Stops(b, d))
  <2>1. PICK S \in SUBSET All :
               /\ activator[me] \in S
               /\ \A x \in S : x # None => x \in CoExprs /\ d[x] /\ activator[x] \in S
    BY <1>0, <1>4, DeadEnd
  <2>2. Closed(S)
    BY <1>0, <2>1
  <2>3. C \subseteq S
    BY <2>2
  <2>4. live = {}
    <3> SUFFICES ASSUME NEW x \in C, x # None, ph[x] = "alive" PROVE FALSE
      OBVIOUS
    <3>1. x \in Ctx /\ d[x]
      BY <2>1, <2>3 DEF Ctx
    <3> QED BY <3>1
  <2> HIDE DEF live, b
  <2> QED BY <1>1, <1>2, <1>4, <2>4
<1> QED BY <1>3, <1>4

\* The phase of a context, as the refinement maps it.
Phase(c) == IF Over THEN "gone" ELSE IF pc[c] = "absent" THEN "unborn"
            ELSE IF dead[c] THEN "dead" ELSE "alive"

\* Steps of the threads that are no step of the coroutines.
LEMMA Stutters ==
    ASSUME Holder' = Holder, UNCHANGED <<activator, xmit>>,
           \A c \in Ctx : Phase(c)' = Phase(c)
    PROVE  UNCHANGED Abstract!vars
<1>1. [c \in Ctx |-> Phase(c)]' = [c \in Ctx |-> Phase(c)]
  OBVIOUS
<1> QED BY <1>1 DEF Abstract!vars, Phase

\* One step of a live process.
LEMMA LiveStepRefines ==
    ASSUME TypeOK, Linked, Linked', ~Over, ~Over', Fits, [Next]_vars
    PROVE  [Abstract!Next]_(Abstract!vars)
<1>0. /\ Root \in Ctx /\ None \notin Ctx /\ CoExprs \subseteq Ctx /\ Root \notin CoExprs
      /\ Abstract!Ctx = Ctx
  BY ConstantsAssumption DEF Ctx, Abstract!Ctx
<1>1. \A c \in Ctx : /\ Phase(c) = (IF pc[c] = "absent" THEN "unborn"
                                    ELSE IF dead[c] THEN "dead" ELSE "alive")
                     /\ Phase(c)' = (IF pc'[c] = "absent" THEN "unborn"
                                     ELSE IF dead'[c] THEN "dead" ELSE "alive")
  BY DEF Phase
<1> DEFINE ph == [c \in Ctx |-> Phase(c)]
<1>2. /\ Abstract!Next <=>
           \/ \E c \in CoExprs : ph[Holder] = "alive" /\ Abstract!Create(c)
           \/ \E t \in Ctx, v \in Values : ph[Holder] = "alive" /\ Abstract!Activate(t, v)
           \/ \E v \in Values : ph[Holder] = "alive" /\ Abstract!Return(v)
           \/ ph[Holder] = "alive" /\ Abstract!Fail
           \/ Abstract!End
  BY <1>0 DEF Abstract!Next, Phase
<1>3. ASSUME UNCHANGED <<activator, xmit, dead>>, Holder' = Holder,
             \A c \in Ctx : pc'[c] = "absent" <=> pc[c] = "absent"
      PROVE  UNCHANGED Abstract!vars
  BY <1>1, <1>3, Stutters
\* The thread that runs is the coroutine that has control, and is alive.
<1>4. ASSUME NEW r \in Ctx, pc[r] = "running"
      PROVE  Holder = r /\ ~dead[r] /\ ph[Holder] = "alive"
  <2>1. Holder = r
    BY <1>4, Executing
  <2>2. ~dead[r]
    BY <1>4 DEF Linked, DeadIsFailed
  <2> QED BY <1>1, <1>4, <2>1, <2>2
<1>5. ASSUME NEW c \in Ctx, Scheduled(c) PROVE UNCHANGED Abstract!vars
  <2>1. CASE Post(c)
    <3>1. \A x \in Ctx : pc'[x] = (IF x = c THEN park[c] ELSE pc[x])
                         /\ park[c] \in ParkedStates /\ pc[c] = "posting"
      BY <2>1 DEF Post, TypeOK
    <3>2. Holder' = Holder
      BY <2>1 DEF Post, Holder
    <3> QED BY <1>3, <2>1, <3>1, <3>2 DEF Post, record, ParkedStates
  <2>2. ASSUME NEW from \in {"idle", "activating", "yielded"}, Wake(c, from), Holder' = c,
               UNCHANGED <<activator, xmit, dead>>
        PROVE  UNCHANGED Abstract!vars
    <3>1. Holder = c
      BY <2>2, Waking DEF Wake
    <3>2. \A x \in Ctx : pc'[x] = (IF x = c THEN "running" ELSE pc[x]) /\ pc[c] = from
      BY <2>2 DEF Wake, TypeOK
    <3> QED BY <1>3, <2>2, <3>1, <3>2
  <2>3. CASE WakeFirst(c)
    BY <1>0, <2>2, <2>3 DEF WakeFirst, Holder
  <2>4. CASE WakeActivate(c)
    <3>1. Holder' = c
      BY <1>0, <2>4 DEF WakeActivate, Wake, Holder, Linked, PrevIsSelf
    <3> QED BY <2>2, <2>4, <3>1 DEF WakeActivate
  <2>5. CASE WakeYield(c)
    <3>1. Holder = c
      BY <2>5, Waking DEF WakeYield, Wake
    <3>2. Holder' = c
      BY <2>5, <3>1 DEF WakeYield, Holder
    <3> QED BY <2>2, <2>5, <3>2 DEF WakeYield
  <2>6. CASE CreateReturns(c)
    BY <1>3, <2>6 DEF CreateReturns, record, TypeOK, Holder
  <2>7. CASE c # Root /\ CopyImage(c)
    BY <1>3, <2>7 DEF CopyImage, record, TypeOK, Holder
  <2> QED BY <1>5, <2>1, <2>3, <2>4, <2>5, <2>6, <2>7 DEF Scheduled
<1>6. ASSUME NEW r \in Ctx, NEW c \in CoExprs, NEW from, StartThread(r, c, from)
      PROVE  Abstract!Next
  <2>1. c \in Ctx /\ c # r /\ pc[r] = "running" /\ pc[c] = "absent"
    BY <1>0, <1>6 DEF StartThread
  <2>2. ~dead[c]
    BY <2>1 DEF Linked, DeadIsFailed
  <2>3. \A x \in Ctx : pc'[x] = IF x = r THEN "awaitCreated"
                                ELSE IF x = c THEN "copying" ELSE pc[x]
    BY <1>6, <2>1 DEF StartThread, TypeOK
  <2>4. UNCHANGED <<current, dead, activator, xmit>>
    BY <1>6 DEF StartThread
  <2>5. ph' = [ph EXCEPT ![c] = "alive"] /\ ph[c] = "unborn"
    BY <1>1, <2>1, <2>2, <2>3, <2>4
  <2>6. Abstract!Create(c)
    BY <2>4, <2>5 DEF Abstract!Create, Holder, Phase
  <2> QED BY <1>2, <1>4, <2>1, <2>6
\* What a switch does to the coroutines' state.
<1>7. ASSUME NEW r \in Ctx, NEW t \in Ctx, NEW how, pc[r] = "running",
             PrepareSwitch(r, t, how), current' = t
      PROVE  /\ Holder' = t
             /\ \A x \in Ctx : pc'[x] = "absent" <=> pc[x] = "absent"
  <2>1. Holder' = t
    BY <1>0, <1>7 DEF Holder
  <2>2. \A x \in Ctx : pc'[x] = IF x = r THEN "posting" ELSE pc[x]
    BY <1>7 DEF PrepareSwitch, TypeOK
  <2> QED BY <1>7, <2>1, <2>2
<1>8. ASSUME NEW r \in Ctx, NEW t \in Ctx, NEW v \in Values, Activate(r, t, v)
      PROVE  [Abstract!Next]_(Abstract!vars)
  <2>1. CASE dead[t]
    BY <1>3, <1>8, <2>1 DEF Activate, control, record, Holder
  <2>2. CASE ~dead[t]
    <3>1. /\ pc[r] = "running" /\ pc[t] # "absent"
          /\ PrepareSwitch(r, t, "activating") /\ current' = t
          /\ activator' = [activator EXCEPT ![t] = r]
          /\ xmit' = [xmit EXCEPT ![t] = v] /\ dead' = dead
      BY <1>8, <2>2 DEF Activate
    <3>2. ph[t] = "alive" /\ ph' = ph /\ Holder' = t /\ Holder = r
      BY <1>1, <1>4, <1>7, <2>2, <3>1
    <3>3. Abstract!Activate(t, v)
      BY <3>1, <3>2 DEF Abstract!Activate, Phase
    <3> QED BY <1>2, <1>4, <3>1, <3>3
  <2> QED BY <2>1, <2>2
<1>9. ASSUME NEW r \in Ctx, NEW v \in Values, Coret(r, v) PROVE Abstract!Next
  <2> DEFINE b == LiveActivator(r, dead)
  <2>1. /\ r \in CoExprs /\ r # Root /\ pc[r] = "running" /\ b \in Ctx
        /\ PrepareSwitch(r, b, "yielded") /\ current' = b /\ xmit' = [xmit EXCEPT ![b] = v]
        /\ UNCHANGED <<dead, activator>>
    BY <1>9, LiveActivatorFacts DEF Coret, Ctx, Linked
  <2>2. b \in Abstract!Answers(r, ph)
    <3>1. \A x \in Ctx : /\ ph[x] = "dead" <=> dead[x]
                         /\ ~dead[x] /\ pc[x] # "absent" => ph[x] = "alive"
      BY <1>1 DEF Linked, DeadIsFailed
    <3>2. dead \in [Ctx -> BOOLEAN] /\ ~dead[Root]
      BY DEF TypeOK, Linked, RootIsMain
    <3> HIDE DEF ph
    <3> QED BY <2>1, <3>1, <3>2, AnswersMatch
  <2> HIDE DEF b
  <2>3. ph' = ph /\ Holder' = b /\ Holder = r
    BY <1>1, <1>4, <1>7, <2>1
  <2>4. Abstract!Return(v)
    BY <2>1, <2>2, <2>3 DEF Abstract!Return, Phase
  <2> QED BY <1>2, <1>4, <2>1, <2>4
<1>10. ASSUME NEW r \in Ctx, Cofail(r) PROVE Abstract!Next
  <2> DEFINE b == LiveActivator(r, dead')
  <2>1. /\ r \in CoExprs /\ r # Root /\ pc[r] = "running" /\ b \in Ctx
        /\ PrepareSwitch(r, b, "failed") /\ current' = b
        /\ dead' = [dead EXCEPT ![r] = TRUE] /\ UNCHANGED <<xmit, activator>>
    BY <1>10, LiveActivatorFacts DEF Cofail, Ctx, Linked
  <2>2. dead' \in [Ctx -> BOOLEAN] /\ ~dead'[Root] /\ \A x \in Ctx \ {r} : dead'[x] = dead[x]
        /\ dead'[r]
    BY <1>0, <2>1 DEF TypeOK, Linked, RootIsMain
  <2>3. /\ Holder = r /\ Holder' = b
        /\ \A x \in Ctx : pc'[x] = "absent" <=> pc[x] = "absent"
    <3> HIDE DEF b
    <3> QED BY <1>4, <1>7, <2>1
  <2>4. \A x \in Ctx : /\ ph'[x] = "dead" <=> dead'[x]
                       /\ ~dead'[x] /\ pc[x] # "absent" => ph'[x] = "alive"
    BY <1>1, <2>1, <2>2, <2>3 DEF Linked, DeadIsFailed
  <2>5. b \in Abstract!Answers(r, ph')
    <3> HIDE DEF ph
    <3> QED BY <2>1, <2>2, <2>4, AnswersMatch
  <2> HIDE DEF b
  <2>6. ph' = [ph EXCEPT ![r] = "dead"]
    BY <1>1, <2>1, <2>2, <2>3
  <2>7. Abstract!Fail
    BY <2>1, <2>3, <2>5, <2>6 DEF Abstract!Fail, Phase
  <2> QED BY <1>2, <1>4, <2>1, <2>7
<1>11. ASSUME NEW r \in Ctx, Assign(r) PROVE UNCHANGED Abstract!vars
  BY <1>3, <1>11 DEF Assign, control, record, Holder
<1>12. ASSUME NEW r \in Ctx, Body(r) PROVE [Abstract!Next]_(Abstract!vars)
  BY <1>6, <1>8, <1>9, <1>10, <1>11, <1>12 DEF Body, Create, Refresh
<1>13. CASE UNCHANGED vars
  BY <1>3, <1>13 DEF vars, control, record, Holder
<1>14. ~Exit
  BY <1>0 DEF Exit, Over
<1> QED BY <1>5, <1>12, <1>13, <1>14 DEF Next, Ended

(* The threads of rt_coexpr.c, posting and waiting, implement coroutines   *)
(* that hand control on in one step: every step of theirs is one of the    *)
(* coroutines' or changes nothing the coroutines have.                     *)
THEOREM ThreadsImplementCoroutines ==
    ASSUME Fits
    PROVE  Spec => Implements
<1>1. Init => Abstract!Init
  <2> SUFFICES ASSUME Init PROVE Abstract!Init
    OBVIOUS
  <2>1. ~Over /\ Holder = Root /\ Abstract!Ctx = Ctx
    BY DEF Init, Over, Holder, Ctx, Abstract!Ctx
  <2>2. /\ pc = [c \in Ctx |-> IF c = Root THEN "running" ELSE "absent"]
        /\ dead = [c \in Ctx |-> FALSE]
    BY DEF Init
  <2>3. [c \in Ctx |-> Phase(c)] = [c \in Ctx |-> IF c = Root THEN "alive" ELSE "unborn"]
    <3>1. \A c \in Ctx : Phase(c) = IF c = Root THEN "alive" ELSE "unborn"
      BY <2>1, <2>2 DEF Phase
    <3> QED BY <3>1
  <2>4. activator = [c \in Ctx |-> None] /\ xmit = [c \in Ctx |-> None]
    BY DEF Init
  <2> QED BY <2>1, <2>3, <2>4 DEF Abstract!Init, Phase
<1>2. IndInv /\ IndInv' /\ [Next]_vars => [Abstract!Next]_(Abstract!vars)
  <2> SUFFICES ASSUME IndInv, IndInv', [Next]_vars
               PROVE  [Abstract!Next]_(Abstract!vars)
    OBVIOUS
  <2>1. CASE ~Over /\ ~Over'
    BY <2>1, LiveStepRefines DEF IndInv
  <2>2. CASE ~Over /\ Over'
    <3>1. \A c \in Ctx : pc'[c] = "gone"
      BY <2>2 DEF IndInv
    <3>2. UNCHANGED <<current, activator, xmit>>
      <4>1. Exit
        <5>1. TypeOK /\ Linked
          BY <2>2 DEF IndInv
        <5>2. ASSUME NEW c \in Ctx, Scheduled(c) PROVE ~Over'
          BY <5>1, <5>2, PostStep, WakesStep, CreateReturnsStep, CopyImageStep
             DEF Scheduled, Ctx
        <5>3. ASSUME NEW c \in Ctx, Body(c) PROVE ~Over'
          BY <5>1, <5>3, StartThreadStep, ActivateStep, CoretStep, CofailStep, QuietStep
             DEF Body, Create, Refresh, Assign
        <5>4. ~(UNCHANGED vars)
          BY <2>2 DEF vars, control, Over
        <5> QED BY <2>2, <5>2, <5>3, <5>4 DEF Next, Ended
      <4> QED BY <4>1 DEF Exit, record
    <3>3. Abstract!End
      BY <2>2, <3>2 DEF Abstract!End, Abstract!Ctx, Ctx, Holder
    <3> QED BY <3>3 DEF Abstract!Next
  <2>3. CASE Over
    <3>1. TypeOK /\ \A c \in Ctx : pc[c] = "gone"
      BY <2>3 DEF IndInv
    <3>2. \A c \in Ctx : pc'[c] = "gone"
      BY <3>1, OverStep
    <3>3. UNCHANGED vars \/ Exit
      BY <3>1 DEF Next, Ended, Scheduled, Body, Post, Wake, WakeFirst, WakeActivate,
           WakeYield, CreateReturns, CopyImage, Create, Refresh, StartThread, Activate,
           Coret, Cofail, Assign
    <3>4. UNCHANGED <<current, activator, xmit>>
      BY <3>3 DEF Exit, vars, control, record
    <3>5. \A c \in Ctx : Phase(c)' = Phase(c)
      BY <2>3, <3>2 DEF Phase, Over, Ctx
    <3> QED BY <3>4, <3>5, Stutters DEF Holder
  <2> QED BY <2>1, <2>2, <2>3
<1> QED BY <1>1, <1>2, Invariance, PTL DEF Spec, Implements, Abstract!Spec
=============================================================================
