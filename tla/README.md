# TLA+ models of SCRIP

SCRIP compiles SNOBOL4, Snocone, Icon, Prolog, Rebus, Raku and Pascal to x86-64. Every
construct is lowered to a graph of four-port Byrd boxes (start α, resume β, succeed γ, fail ω),
and the code of the boxes runs on a runtime written in C and assembly. In mode 3 the code is
sealed in a slab of the running process; in mode 4 it is written out as assembly.

Most of the compiler is a sequence of pure passes over large languages. What is hard about SCRIP
is where several languages that backtrack, suspend, compile at run time and share one compacting
heap meet in the runtime, and where a pass decides, box by box, what a backtracking program will
find on its stack. These modules are about those parts. Paths below are relative to the
repository's `src/`.

## The system

| component | where | state it keeps | how it meets the others | what makes it correct |
|---|---|---|---|---|
| Co-expressions | `runtime/rt/rt_coexpr.c`, `templates/bb/bb_create.cpp`, `bb_activate.cpp`, `bb_coret.cpp`, `bb_cofail.cpp` | one record per context (semaphore, activator, xmit, dead, scanning environment), `g_scrip_co_current` | one thread per context, hand-over by semaphores; frames are copied at creation | one thread runs at a time; a result or failure reaches the nearest live activator; the scanning environment goes with control |
| Code pool and EVAL | `ir/bb_pool.c`, `runtime/runtime_eval.c`, `emit_chain` in `emitter/emit.cpp` | a stack of pages with a list of holes; the EVAL cache; open EVALs | the emitter allocates, EVAL releases to a mark, the Prolog database reclaims clauses out of the middle | code somebody can reach is never given back; no page is used twice or lost |
| Prolog trail | `runtime/rt/rt_pl_trail.c`, `templates/x86/x86_call.cpp`, parts of `unification.c`, `by_name_dispatch.c`, `rtx_gc.s` | trail entries and sentinels, the chain of choices, HB, the wake word | every binding asks it; commits compact it; the collector slides the cells it names | failing back restores every variable of the choice; attributed bindings reach `$wakeup` |
| Prolog coroutines | `runtime/rt/rt.c` 1820-1900, `reset/3` and `shift/1` in `parsers/prolog/prolog_parse.c` | parked goals with their choices, the floor word of each, the goal that runs | threads and the trail, which all goals share | goals fail in one order whoever made the choice; nobody cuts into another's entries |
| Prolog database | `runtime/unification.c` 4180-6200, `templates/bb/bb_to.cpp`, `templates/xa/xa_flat.cpp` | slots with generations, the first-argument index, compiled fragments, transaction logs | code pool, choices of running goals | a goal sees the clauses of the moment it was called |
| Pattern matcher | `lower/lower_snobol4.c` (`sno_pat_node`), `planner/zeta_plan.cpp`, `emitter/emit.cpp`, `templates/bb/bb_match_*.cpp` | cursor, spine of cells, frame homes, deferred assignments | lowering decides the boxes, the planner their cells, the templates their code | a statement matches what its pattern means, in that order |
| Heap cap | `runtime/rt/gc_heap.c` 226-644, `rtx_plunify.s` | top, committed end, the due state, the armed collection | allocation arms, the poll of the emitted code collects and raises | running out is an error a program can catch |
| Collector | the rest of `gc_heap.c`, `rtx_gc.s` | marks, forwarding, pins | called from polls, walks every frame by map | live data survives, references are updated |
| Prolog engines | `runtime/rt/rt_pl_engine.c` | a weak table of engines by id | co-expression contexts; reaped after a collection | an id never reaches another engine or a freed one |
| Generator procedures | the rest of `runtime/rt/rt.c` | parked generators | contexts | dropping, finishing and resuming a handle in any order is safe |
| Slabs, arenas, atoms | `rt_slab.c`, `rt_arena.c`, `ct_arena.c`, `prolog_atom.c` | mappings, journals, tables | everywhere | what was released is what was allocated since the mark |
| Parsers, lowering, optimizer, planner, emitter | `parsers`, `lower`, `optimizer`, `planner`, `emitter`, `templates` | none between programs | front to back | a statement about programs, not about states |
| Numbers, aggregates, strings, I/O, builtins | `runtime` | values | called | sequential data structures |

What is hard in it: interleavings of threads that share unlocked records (co-expressions);
state decided at one moment and used after something else has changed it (the mark of an EVAL,
the trail test of a binding, the watermark of a commit, a raw HB under a collection, a cached
stamp, the next clause of a running goal); protocols over several calls (the heap cap,
transactions, continuations); distances fixed at compile time that every path of a backtracking
match must respect (the pattern boxes); resources at their limit (pool, heap, trail).
`PROJECT.json` lists each hazard at its line with the properties that would notice it going
wrong.

## Modules

| module | what it is |
|---|---|
| `Coroutines` | what co-expressions promise: one holder of control, no threads |
| `Coexpr` | the threads, semaphores and records of `rt_coexpr.c` |
| `CoexprProofs`, `InductionLemmas` | theorems about `Coexpr` |
| `BbPool` | the code pool as operators on a pool record |
| `EvalCode` | EVAL, its cache and everything else that compiles, over `BbPool` |
| `BbPoolProofs`, `EvalCodeProofs` | lemmas about the pool, theorems about EVAL |
| `PlTrail`, `PlTrailProofs` | trail, choices, commits, stores and the collector's slide, for one context; theorems |
| `PlShift`, `PlShiftProofs` | the same trail shared by parked goals: `reset/3`, `shift/1`, floors; theorems |
| `LogicalView` | what a dynamic predicate promises |
| `PlDatabase`, `PlDatabaseProofs` | slots, generations, index, compiled clauses, reclaiming and transactions; theorems |
| `SnoPattern` | SNOBOL4 patterns and what they mean |
| `PatLower` | their lowering to boxes |
| `MatchPlan` | emission order, labels of edges, cells and homes of the boxes |
| `Match` | the boxes at run time, over `MatchPlan` |
| `HeapCap`, `HeapCapProofs` | allocation at the hard cap and the error reserve; theorems |
| `MC...` | the instances TLC checks: symmetry sets, and the statements of `Match` |

Each module holds, beside some definitions, *mutants*: the same definition with a plausible slip.
They are not part of any specification; `PROJECT.json` says which property each one breaks.

### Coexpr

A context is a thread; the main program is the context `Root`. `pc` says where a thread is:
executing a body (`running`), between the writes of a switch and its `sem_post` (`posting`),
waiting in one of the three waits (`activating`, `yielded`, `idle`), dead (`failed`), or in
creation (`copying`, and its creator `awaitCreated`). `park`, `peer` and `prev` are the locals of
the call a thread is in. `env` and `regs` are where the words of the scanning environment are,
in a context's record or in the registers.

`Create`, `Refresh`, `CopyImage`, `CreateReturns` are `scrip_coexpr_create`, `_refresh` and the
trampoline with its `created` semaphore. `Activate`, `Coret`, `Cofail` are the functions of
those names up to the post; `Post` is the post; `WakeFirst`, `WakeActivate`, `WakeYield` are the
three places where a wait returns. `Assign` changes a local of a body: the new thread copies the
frame of its source while the source must not run (`SourceIsAtRest`). `Exit` is the end of the
process, also for want of threads. `stray` is the thread that an activation of `&main` before the
first creation starts on the root's own record.

Fairness: `WF_vars(Scheduled(c))` for every context. `Scheduled` is what a runnable thread does
without the program's help (post, return from a wait, copy a frame): the operating system
schedules runnable threads. A body carries no fairness; it may compute for ever.

Known behaviours the model shows and the properties except by name: a context that activates
itself loses the scanning environment (`SelfSwitch`); with cyclic activators a result may go to the
root; a value for an activator that did not wait for this context is dropped.

### BbPool and EvalCode

The pool is counted in pages. `BbPool` has the operations of `bb_pool.c` as operators from pool to
pool: allocate at the top or from a hole, seal, trim, release to a mark, reclaim a range with the
merging of holes, `bb_pool_in_hole`; and the loop of `emit_chain`, which emits a second time into
a larger buffer if the first was too small (at most two passes, since the second is sized from
the first). `perm` is what `mprotect` last said of each page.

`EvalCode` composes them with `runtime_eval.c`. Opening an EVAL: from the cache, or by compiling a
chain and, if the text has deferred parts, a thunk. In between anything may happen: another EVAL,
of the same text too; a pattern or CODE compiled for good; a clause compiled into a hole and
reclaimed later; a collection that ages the cache; a rehash. Landing settles: enter the cache or
release to the mark. `Unwind` is an error that leaves open EVALs and their code. `live` is a history
variable: the code handed out and not given back.

### PlTrail

A cell is a number, heap cells upwards and stack cells downwards, so that "older than HB" and
"above the frame top" are comparisons as in the code. Actions: `NewVar`, `Call`, `Return`, `Bind`,
`BindAttributed`, `Awaken` (`$wakeup`), `OpenChoice`, `Retry`, `RetryLast`, `Commit(k)` (a cut back to
choice k with the tidying walk), `NbSet` (a non-backtrackable store, which freezes HB), `BSet`
(`b_setval`), `Collect(j)` (the collector removes cell j and slides the rest, mapping every HB by
rank). A choice carries, as a history, the values a backtrack has to restore.

Observed and not a finding: the watermark that bounds the tidying walk survives a backtrack below
it, so that a commit may keep entries its comment (`x86_call.cpp:151`) says it drops. Nothing is
restored wrongly by it.

### PlShift

`reset/3` runs its goal on a thread of its own; the goals share one trail. `chain[c]` is what context
c can fail back into, `running` the contexts that wait for each other with the one that runs last,
`ctx` the record of a goal (its floor, what it keeps for its callers, the trail top it was entered
with), `word` the floor word in force. Two histories no code reads say what failure *should* do:
`living` is what is still to be retried, whoever made it, and `past` how far a context has cut past
one of its shifts.

`Start`, `Call` (calling the continuation), `Answer` (a goal parks, by `shift/1` or at its end),
`Retry`, `RetryLast`, `Exhausted`, `Redo` (failing back into a parked goal through `$reset_redo`),
`Unwind`, `Finish` are the handlers of `rt_plco_start/resume/park/settle` together with the Prolog text
of `reset/3` around them; `CallRefused` and `RedoRefused` are the two `permission_error`s. `Open`,
`Commit(n)` and `Bind` are what any context does in between: `Commit` cuts back to the n-th choice of
its chain, also past its own shifts, and tidies the entries above that mark and above the floor.
`OutOfOrder` is the step after which a goal has failed into a choice older than one its caller made
since. `Chronological` says when that may be: only in a goal that has cut past its own `shift`, and
that has nothing left of what it opened since.

`Strict` leaves out two kinds of programs, both findings below: those in which a choice mark sweeps the
sentinel of another context's living choice (`shift_sweeps` checks without), and those in which a goal
whose floor is back at its base cuts past a shift, or is sent back after it has done so
(`ended = "lost"`).

On a goal's thread every variable counts as older than every choice for the trail test. The code
gets this by address: stacks of threads are mapped below the heap, and the test takes what lies
above the stack pointer for an older stack cell.

What the model shows and the checked properties leave aside, each confirmed by running programs:

* A goal that cuts past its own shift and is then failed back into runs its older alternative, and
  undoes bindings its caller made since, without a refusal. The refusal of a resumption out of
  order only compares the top of the trail with what it was at the answer, so that a caller that
  has bound something meanwhile evades it.
* A continuation resumes once. `once(call(C)), fail` ends in `permission_error` because failure
  comes back to a continuation already left.
* A shift whose ball the inner reset does not match is forwarded outwards; failing back does not
  reach the remaining answers of the goal it came from (not modelled).

### LogicalView and PlDatabase

`LogicalView` is what the reference document says of dynamic predicates: a goal has the sequence of
clauses it has yet to run, fixed when it was called; adding and removing clauses changes `store`
only; closing a transaction leaves either the store it made or the one it found.

`PlDatabase` is one predicate as `unification.c` keeps it: slots with the generation in which each
clause was added and erased, linked in clause order; an index from keys to chains of slots that is
built, extended, rebuilt when full, and given up for good when a clause with a variable key comes; the
two ways in: a walk over data while there are only facts, compiled fragments (one per clause,
chained by the slots) from the first rule on; the erasures counted until a reclaim, which gives back
the code of erased clauses no goal can come to; and the log of a transaction. `Call` enters the
predicate, `CallWalk` is `clause/2` and `retract/1`, which walk the slots themselves; `Redo` and `Cut`
are how goals go on and end. `AssertClause`, `Erase`, `RetractAll`, `Abolish` are the whole handlers with
the reclaim they may end in, where `ok` says whether the walk over the stack could name every frame.

The refinement mapping (`View`) rebuilds the abstract store from the packet without erased clauses
(`StoreOf`), a goal's remaining clauses from its slot, generation and way of walking (`RunningOf`), and the
store a transaction found by undoing its log and those of the transactions within it (`SavedOf`,
`LiveBefore`). A call that finds no way into the predicate changes nothing and maps to a stutter; that this happens
only when there is no clause to find is what `CallFindsAll` says.

Code is `none`, `live`, `gone`, or `late`: compiled for a goal that came to a clause already erased.
Late code below the start of the scan may never be reclaimed; `NothingForgotten` is about the rest.

`Strict` leaves out two steps after which a call goes wrong, both confirmed by running programs:

* `abolish` inside a transaction: the finding of `database_entry`.
* Adding the first rule at the end while the head slot is an erased clause: the entry is then taken
  from the wrong slot, so that a later `abolish` and `assertz` keep raising `existence_error`, and
  after `transaction((retract(foo(1)), assertz(rule), fail))` a call misses `foo(1)`.

### SnoPattern, PatLower, MatchPlan, Match

`SnoPattern` says what a pattern means at a position of a subject: the list of ways in which it
matches, in order, each with the conditional assignments collected on it; immediate assignments
and cuts (FENCE, ABORT) are items of the same list. It is written from the four ports in the
repository's `README.md`, not from the boxes.

`PatLower` is `sno_pat_node` and its helpers: the boxes of a statement in the order of their creation
with the edges the lowering gives them, the rewriting of edges into sequences and bodies, and
where a fragment goes when it fails. `MatchPlan` is what the planner and the emitter derive from that:
the emission order, the label each edge ends at, which box is the tail of an ARBNO's body, how many
cells a body leaves on the spine, which boxes have a home in the match frame instead, which homes
an ARBNO saves with each instance, what a bare FENCE releases.

`Match` runs the boxes: one action per kind of box, over cursor, spine (a sequence of cells that each
say whose they are), homes, deferred and immediate assignments. The box reads its cells at the
distance `MatchPlan` gave it, as the templates do at a fixed offset from `rsp`: whether the cell found
there is its own is a property (`FindsItsCells`). `@V` keeps a cell although it has nothing to put
there: `box_cell_shapes.inc` has no row for its kind, so the last one counts (`MarkCell`); the cell
weighs in the bodies and windows it stands in, and a bare FENCE, whose walk back stops at it, leaves
it alone. A run ends in `result`; `meant` in a compiled
statement is what `SnoPattern` says of it.

The boxes are deterministic; what TLC explores is the set of statements in `MCMatch`, one behaviour
for each. The fairness is `WF_vars(Next)`: the program runs.

### HeapCap

Addresses are granules of 16 bytes, a page is 256 of them. `Alloc` is `c_rt_gcheap_alloc` with
`rt_gcheap_grow`: the request fits, fits after a growth, is served from the reserve, or fails.
`Poll` is a safe point with a collection armed: what survives is arbitrary, then `gc_cap_rearm`, then
the growth of a window that is nearly full; in a resumable frame it goes on to `Raise`
(`rt_pl_cap_raise`), whose error term is allocated like anything else. `Trap` is a SETEXIT
handler taking error 204. The collection line is not modelled: a collection may be armed at any
time. `road`, the presence of a Prolog trail, is fixed from the start, and SETEXIT is there only without
it; programs that mix SNOBOL4 and Prolog are left out.

## Runs

| run | instance | what it shows |
|---|---|---|
| `coexpr` | 3 co-expressions, 1 value, 1 frame content (542,350 states) | `OneInControl`, `EnvInOnePlace`, `DeadStaysParked`, `AnswerIsAwaited`, `FailureIsSeen`, `SourceIsAtRest`, `EnvHandedOn`, `HandOffEnds` (liveness), and that the threads implement `Coroutines` |
| `evalcode` | 2 texts, 2 EVALs open, 5 pages, chains of 1 or 2 pages | `WantedIsLive`, `LiveApart`, `HolesInOrder`, `PagesProtected`, `NothingLost`, `NeverBombs`, `InHoleIsExact`, `CacheNeverForgets` |
| `pltrail` | 2 heap cells, 1 stack cell, 1 global, 2 choices, 4 entries | `RestoresVariables`, `WakeupsAreFound`, `UnwoundIsTheLoop`, `MarksAreSentinels` |
| `shift` | main and 2 goals, 1 choice each, 1 heap cell, 7 entries, 3 answers (1,280,953 states) | `Chronological`, `RestoresVariables` across contexts, `StaysAboveFloor` |
| `database` | 3 slots, 5 generations, 1 goal, 1 transaction (151,797 states) | `CodeIsThere`, `NothingForgotten`, and that the slots implement `LogicalView` |
| `match` | 10,270 statements (238,435 states) | `MatchesAsMeant`, `AssignsAsMeant`, `FindsItsCells`, `HomesAreFresh`, `LeavesNothing`, `KeepsOlderCaptures`, `Terminates` (liveness) |
| `heapcap` | window of 2 pages, cap of 5, requests of ¼, ¾ and 1¼ page | `CapIsCatchable`, `HandlerHasRoom`, `NotRaisedInVain` |
| `pltrail_globals` | violation | `b_setval` is not undone |
| `shift_sweeps` | violation | a choice mark sweeps living sentinels |
| `database_entry` | violation | after an undone abolish a call finds nothing |
| `match_known` | violation | four shapes of pattern that match wrongly |
| `heapcap_full` | violation | no reserve when the window is the cap |

Why the bounds are enough. Three co-expressions give an answer that passes over two dead
activators, and a cycle of activators that does not include the answering context. `HopLimit` is
the code's 64, lowered; as it exceeds the number of contexts the loop reaches it exactly when the
chain is cyclic (in the code a chain of more than 64 dead contexts would also end at the root; the
theorems hold for any limit). With one frame content the copied image cannot differ;
`SourceIsAtRest` says why it never does, and the theorem `SnapshotsAreStable` says it for any
contents.

Five pages hold two code ranges, a hole between them, a hole that touches two others, and a
pool that is full; two open EVALs give an EVAL whose mark lies under what the other left. Two
choices give a commit over a choice to another; `MaxTrail` cuts runs where the arena would refuse;
the properties relate the entries of two choices, which four entries show. In `shift` three
contexts with a choice each give a goal resumed by one that another has started, and two
contexts that fail past one another; `MaxTrail` is above what the bounded choices can make.

Three slots give an index that is built at two (`IxMin`, 8 in the code), outgrows its first size
(`Cap0`, 8 in the code) and is rebuilt; a clause erased before, at and after the one a goal stands at;
reclaims due by count (`Every`, 1024) and by collection. One goal suffices because goals meet only in
what reclaiming may take, which is judged for each by itself.

The statements of `match` are all sequences of two and three elements out of a set that has every
kind of box, inside each of the boxes with a body, followed by something that makes the match go back; nested bodies
two deep; and the primitives that move the cursor; `BAL`, `NOTANY` and `@V` with the boxes they can disturb; and sequences of `@V`, ARB, SPAN and FENCE with
an alternation of arms that leave different numbers of cells (`Marked`), inside each of the boxes
with a body. The seven families of `MCMatch` overlap on purpose. The
requests of `heapcap` are smaller than, nearly as large as and larger than the reserve, and
the survivors leave the reserve free by a lot, exactly, and not at all.

Symmetry is used where contexts or texts are interchangeable and no liveness is checked
(`evalcode`, `shift`). Deadlock is checked where the system may not stop. It is off in `heapcap` (exit
2 and an error nobody traps end the process) and in `match` (a statement ends). In `Coexpr` and
`PlShift` the end of the process is an explicit step.

## Findings

Each was confirmed with a build of the code; `PROJECT.json` has the programs.

* **`b_setval/2` may not be undone** (`pltrail_globals`, `runtime/unification.c:4417`). The box of
  a global is logged unless its stamp equals the mark of the youngest choice. A mark is a trail
  address, and after a commit has lowered the trail a later choice can have the same one.
* **A choice mark sweeps living sentinels** (`shift_sweeps`, `templates/x86/x86_call.cpp:97`). The
  mark takes every sentinel above the youngest choice *of the running context* for dead; those of a
  parked goal, or of the caller of a resumed one, are alive. Bindings made afterwards are judged by
  the wrong frontier and may stay after failure.
* **A goal sent back loses its floor** (no run of its own; `Strict` leaves it out,
  `runtime/rt/rt.c:1896`). `$reset_redo` enters the goal with its floor back at its base. The note at `x86_call.cpp:124` calls the
  floor what "a resumed continuation sets: entries below it are another owner's"; if the goal has been
  resumed before, its caller's entries lie above the base, and once the goal cuts past its shift, or if it
  had already, its commits tidy them away with their sentinels. With
  `h :- shift(a).` and `g(Y) :- ( h, (shift(b) ; true) -> true ; true ), Y = 1.`, the program
  `T = f(P,Q,R,Y), reset(g(Y), _, C), ( true ; write(again-T), nl, fail ), write(T), nl, P = 1, Q = 1, R = 1,
  reset(C, B2, _), write(B2-T), nl, fail` prints `again-f(1,_,_,_)`: `P` stays bound after failure. With
  `true` for `(shift(b) ; true)` it is unbound.
* **After an undone `abolish` the clauses are back and calls raise** (`database_entry`,
  `runtime/unification.c:6063`). Undoing a transaction restores slots, not the entry of the predicate.
* **Four shapes of pattern match wrongly** (`match_known`). A capture of a sequence with two or
  more elements after a fence is resumed at the wrong box (`lower_snobol4.c:2731`). `FENCE(P)` takes over the failure
  exit of the element after it, also of `ABORT`, `FAIL` and `P $ V` (`lower_snobol4.c:2056`). An ARBNO whose body ends
  in `P . V` is resumed past the assignment (`emit.cpp:1630`). An ARBNO whose body ends in a bare FENCE
  goes on to its alternative (`bb_match_arbno.cpp:68`). `MCMatch` names the shapes, leaves them out of
  `match`, and has a statement for each. A fifth shape, ARBNO over a sequence with a `FENCE(ARBNO(...))`, is left out
  too: it runs for ever where the pattern should fail (statement `OfFenced`, violating `Terminates`).
* **No error reserve when the window is the whole cap** (`heapcap_full`,
  `runtime/rt/gc_heap.c:412`). With `-i1m -d1m` a Prolog program that fills the heap dies with
  error 204 that `catch/3` does not see; with `-i1m -d2m` it catches `resource_error(stack)`.

## Proofs

All proofs are checked by TLAPS to the last leaf.

**Co-expressions** (`CoexprProofs`), for any number of co-expressions and any values. `IndInv` is
the types and, while the process lives, `Linked`. `OneInControl` alone is not inductive: that a
post finds its thread waiting needs to know where every activator is (`ActivatorHasRun`,
`PostIsTaken`), that the saved `prev` puts `g_scrip_co_current` back to the thread itself
(`PrevIsSelf`), that dead contexts are exactly those parked in their failure (`DeadIsFailed`), and
how a creator and its new thread pair up (`CreationPairs`). `EnvWithControl` says the
environment is where control is. The walk over dead activators is a recursive function; the proof
uses only that it returns the root or a context that was activated and is not dead. That a failure
reaches only a context that waits for the failing one (`FailuresAreSeen`) rests on
`SupersededWaits`: once the activator of a context waits for another one, control is confined to
contexts that do not include it, and leaves them only by way of that activator (`Confines`), so
that it cannot come back to the superseded context before. `ThreadsImplementCoroutines` is the
refinement, step by step: every action of the threads is a step of `Coroutines` or a stutter. It
assumes that there are no more co-expressions than the walk takes hops (64 in the code); beyond that a
result could go to the root. Theorems: `Invariance`, `TypeCorrect`, `ControlInOnePlace`,
`DeadNeverResumes`, `AnswersAreAwaited`, `FailuresAreSeen`, `EnvNeverShared`, `EnvIsHandedOn`,
`SourcesAreAtRest` and `SnapshotsAreStable` (both from the lemma `NobodyRunsDuringACopy`),
`ThreadsImplementCoroutines`. `InductionLemmas` has the induction over the naturals in a form the
provers can use.

**Code pool** (`BbPoolProofs`), for any pool, any list of holes and any sizes: releasing keeps
everything below the mark (`ReleaseKeepsBelow`), reclaiming frees exactly its range and keeps the
list sorted and merged (`ReclaimFreesTheRange`), a successful emission takes exactly the pages
of its code (`EmitTakesItsCode`). `Guarded` is what the protection of a page should be: writable above
the watermark, out of bounds in a hole, executable when somebody has it. Reclaiming
(`ReclaimKeepsGuard`) and emitting, however often it starts again (`EmitKeepsGuard`), keep it. The binary
search of `bb_pool_in_hole` finds a hole exactly when one covers the address (`InHoleFindsHoles`), by
induction along the recursive function that narrows the interval, on a list that is sorted and apart.

**EVAL** (`EvalCodeProofs`), for any pool size, texts, depth and chain length, under
`KeepsAll == Retain > Limit`, which is the default (`SCRIP_EVAL_RETAIN` unset). `EvalInv` adds to
`WantedIsLive` that the pool has given out exactly the live code (`Blocks`), that an EVAL which
compiled its text is the only one to reach the code and knows where it lies (`FramesOwn`), and
that a clause's code has no other owner (`FragsOwn`): without these, a release to a mark could
not be shown to spare what others hold. `PagesStayProtected` and `HoleCheckIsExact` carry `Guarded` and
the search of the pool to every reachable state. Theorems: `Invariance`, `TypeCorrect`,
`WantedCodeStays`, `LiveCodeIsApart`, `NoPageIsLost`, `HolesStayInOrder`, `AbortIsNeverReached`,
`PagesStayProtected`, `HoleCheckIsExact`, `CacheRemembers`.

**Heap cap** (`HeapCapProofs`), for any cap, any smaller window, any sizes of requests and of the
error term, and whatever collections leave. `HeapInv` adds to the two safety properties that the
reserve is closed while nothing is owed (`ReserveClosed`), that a mark for a served request means
it is open (`ServedMeansOpen`), that a raise is under way only with the page in use
(`RaisingIsDue`), and that after an error was raised a collection that found the page free has
closed it (`RearmedWhenFree`). Page alignment is part of the types: it is why the committed end
is either at the cap or at least a page below it. Theorems: `Invariance`, `TypeCorrect`,
`ExhaustionIsCatchable`, `HandlerFindsTheReserve`, `RaisesAreDue`. The assumption `Window < Cap` is
needed: the last finding is what happens without it.

**Trail** (`PlTrailProofs`), for any number of heap cells, frames, choices and entries. What a
backtrack finds in a cell is the old value of its *oldest* entry above the mark, or the cell's value
if there is none (`Restored`). `RestoresVariables` is not inductive, because a commit moves
the responsibility for a cell from one choice to another. `TrailInv` adds that every choice stands on its
sentinel and that what it has to bring back is older than it by the trail test (`ChoicesStand`); that
a younger choice has to bring back all an older one has to (`ChoicesNest`), so that a binding is recorded
whichever choice is the youngest, and a commit keeps the entry whichever it returns to; that a heap variable is
bound once and has one entry while it is bound (`BoundOnce`), on which `$wakeup` relies; and what is restored, for
every choice and every cell but the box of a global (`Restores`). The tidying walk is a
recursive function; two lemmas say what it keeps (`WalkedIsApart`, `WalkedRestores`), by induction along it. Theorems:
`Invariance`, `VariablesAreRestored`, `SentinelsStand`, `WakeupsAreNotLost`, and `LoopsUnwind`: the loop of
the code, which pops entry by entry and so writes a cell several times, leaves in it what `Restored`
says. The box of `b_setval` is left out because it may not be restored (Findings).

**Coroutines** (`PlShiftProofs`), for any number of goals, choices, answers and entries, under
`Strict`. `ShiftInv` has two halves. On the trail (`Sound`) every choice to be retried stands on its
sentinel, and what it has to bring back is decided by the oldest entry above its mark. This half is
about *all* contexts at once: a binding, a commit, a choice mark or a failure of one must leave what
the choices of the others will find. It goes through because a commit walks only what lies above the
floor, and the choices of others that are to be retried lie below it (`Floored`, `Reach`); and because
a mark swept or an entry dropped belongs to a choice no longer `living`.

In the chains, the contexts that run or wait lie upon each other like plates (`Stacked`): what a
context has opened since its last shift is to be retried and lies above everything of its caller
(`OwnLive`, `Nested`), nothing lies between it and its caller (`Adjoined`) or above the one that
runs (`Highest`), and a context that has cut past a shift stands upon a choice of another (`Grounded`).
To follow a failure the proof has to know what lies *under* a choice before it is popped (`Spliced`):
under a choice of a program, the choice its context opened before (`UserNext`); under a
`$reset_redo`, exactly the choices the goal had when it gave that answer (`RedoNext`), which the goal
will be sent back to. Neither half is inductive without `Contexted` and `Shaped`, which say how
the records of the goals, the kinds of choices and the answers' numbers belong together. Theorems:
`ShiftInvariance`, `ShiftTypes`, `FailsInOrder`, `FailingRestores`, and `OnlyMarksSweep`: besides the
choice mark, whose sweeping `Strict` leaves out, no step takes the sentinel of a choice to be retried.

**Database** (`PlDatabaseProofs`), for any clauses, keys and sizes of the arrays, under `Strict` as far as
it concerns the first rule behind an erased head (of `abolish` inside a transaction only the last two theorems assume
anything).
`DbInv` has four parts. `StoreInv` is about the slots: types, a chain without a cycle (by a rank), dates that lie
behind, and nothing reclaimed but what is erased (`Dated`), where compiled code is entered (`EntersAtHead`), and
that the scan skips nothing there is to reclaim (`ScanSees`). `GoalsServed` says that a goal which runs code stands at
a clause it sees, and sees none whose code is gone. What a transaction may bring back still has its code
(`LogsSpare`), because there are at least as many pins as erasures in the open logs (`Pinned`, by the sum along the
logs), and pins keep the scan off. And transactions and the goals begun within them are `Nested`. The argument for
`CodeStays` is one of time: `Oldest` is at most the generation of every goal that runs compiled code, and a slot is
reclaimed only if it was erased before `Oldest`, so that it is visible to none of them.

That the slots implement `LogicalView` (`SlotsImplementView`) is shown step by step: initial states map to
initial states, and every action to `Call`, `Redo`, `Cut`, `Add`, `RemoveSome`, `Open`, `Close` or a stutter. The
packet, the links of data, the lists of the index and the chained fragments are four walks through the slots; the
proof reduces all of them to one function, what lies ahead of a slot among those of a set (`TraceOf`). A step is
then a change of marks (`StaysAt`: no goal begun before can tell the difference) or one slot linked in at an end
(`Grown`). This needs more than `DbInv`, namely `ViewInv`:
that the chain is one, with no slot outside of it and its tail at the end (`Whole`), or a clause linked at the tail
would be found by nobody; that the index lists every clause of a key in chain order (`IxServes`), or goals with
different keys would disagree on the order; that each goal stands at a clause it sees and began in a generation that has
passed (`GoalsSee`); that no goal from below a transaction can tell what the transaction did (`LogsCover`),
because undoing brings marks back under goals that run; and that a log names what it asserted only after the erasures of it
and that no older log names a clause asserted in a younger one (`LogsOrder`), because the order in which the records are undone
decides which marks are left.

The refinement alone lets a call that finds no way in stutter, whether or not there are clauses. `CallsFindAll` closes
this: while there is no way in (`way` is `none` or `absent`) there are no clauses, and no open log has a
record whose undoing brings one back (`WayInv`). This is the property the second database run sees violated when `abolish` is
called inside a transaction, which `Strict` leaves out. Theorems: `DbInvariance`, `CodeStays`, `ScanIsComplete`,
`ViewInvariance`, `SlotsImplementView`, `WayInvariance`, `CallsFindAll`.

**Model-checked only**: `HandOffEnds` and `Terminates` (liveness under fairness is beyond the prover, as is
ENABLED); `StaysAboveFloor`, which needs to know which dead sentinels a choice mark may find
above a floor; and everything about the matcher, whose lowering and meaning are recursive operators.
In `PlTrail`, `PlShift` and `PlDatabase` the walks, folds and filters of the code are recursive functions, because the
library's theorems about folds and `SelectSeq` take an operator as a parameter, which none of the provers can instantiate.

## Not modelled, and why

* Within the modelled parts: the collector's park records and spilled registers, lazy contexts and
  `coexpr_destroy` (co-expressions); emission inside an emission, `bb_free` (which has no caller), the
  visitor that says a retracted clause is no longer run, and the retention budget (code pool); the
  tabling floor, the residue word, the `undo/1` list, `setarg` and the arena's refusal (trail);
  forwarding of balls, exceptions out of goals, tabling's and the engines' use of the same threads
  (coroutines); static predicates, size limits and fragments too large to record (database);
  patterns held in variables, arguments computed at run time, `SUCCEED`, replacement and the runtime matcher of `rtx_match.s` (matcher);
  a refused `mprotect` and the diagnostic builds (heap cap).
* Prolog engines, generator procedures, the compile-time arena, slabs and the collector's
  compaction: planned, below. Engines behave in ways a model would have to except one by one: an engine that
  destroys itself crashes, `engine_next` of the running engine succeeds with its answer unbound, two engines that
  ask each other give unbound answers, destroying the engine that waits for the answer hangs, and the
  alias of a finished engine stays taken until it is destroyed.
* Hazards seen there or in the modelled parts and not covered: an error that unwinds past an open EVAL leaves its chain in
  the pool (the model has the step, no property forbids it); the walk over dead activators gives up after 64; `ct_release`
  drops blocks that `ct_grow` moved from below the mark (`ct_arena.c:134`); a generator handle may be dropped, resumed and
  reaped through several paths (`rt.c:1737`); an unreachable engine stays in its weak table until reaped (`rt_pl_engine.c:88`).
* Parsers, lowering (but for SNOBOL4 patterns), planner (but for the boxes of a match), emitter
  and templates: pure translations; their correctness is about programs and is tested against
  reference implementations. They are most of the repository's lines, which is why the map
  covers a small share of them.
* Numbers, strings, aggregates and I/O: sequential data structures and system calls.
* The stack-overflow handler: rests on the kernel's signal delivery.
* Tools, self-hosted parsers and runtimes of other platforms: not part of the running system.

## Plan

In this order, the most consequential first:

1. `StaysAboveFloor` of `PlShift`.
2. `PlEngine`: the weak table, reaping after a collection, ids that outlive their instance, over `Coexpr`'s contexts.
3. `GenProc`: generator procedures over contexts, with the paths by which a handle ends.
4. `Match` extended by patterns held in variables (DEFER), the matcher's only dynamic composition.
5. `CtArena` and `Slab`: `ct_mark` and `ct_release` against `ct_grow`; growth of a slab beside the first.
6. `Compact`: the sliding compaction with pins as operators, against "the live blocks in order".
7. Small ones if there is room: the atom table, branch chaining and dead gotos on a port graph.
