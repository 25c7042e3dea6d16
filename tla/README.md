# Verification of the devlore execution engine

devlore-cli plans work as a graph (Starlark recipes, `writ` deployments, `lore`
packages) and hands it to one engine, `pkg/op`, which dispatches the graph's
units, journals an undo for each of them, pauses, resumes, retries and rolls
back.  Everything a tool of this repository does to a machine goes through that
engine, so this project models the engine first: the executor and its recovery
stacks, the parallel `flow.gather`, the resource catalog that records what a run
knows about the world, and the file provider, whose undo the rollback consists
of.  Around the engine it models who talks to it (the control plane and its HTTP
router), how it runs commands (the broker) and what is kept of its runs (the
lifetimes of `writ`).

- [1. The system](#1-the-system)
- [2. Modules and how they correspond to the code](#2-modules-and-how-they-correspond-to-the-code)
- [3. What is checked](#3-what-is-checked)
- [4. What is proved](#4-what-is-proved)
- [5. Where code and documentation disagree](#5-where-code-and-documentation-disagree)
- [6. What is not modelled](#6-what-is-not-modelled)
- [7. Plan](#7-plan)

Run a check with `tlc -config ExecutorCore.cfg MCGraphExecutor` and a proof with
`tlapm GraphExecutorProofs.tla`.  `PROJECT.json` lists every run with its
properties, maps every definition to the lines it models, and lists the hazards
the properties are for.

## 1. The system

| Component | State | Operations | Interacts with |
|---|---|---|---|
| Graph executor (`pkg/op/graph_executor.go`, `node.go`, `subgraph.go`) | phase, condition, reason, pending reaction; the executor of each nested subgraph | `Run`, `ResumeExecutor`, `ResumeUnwind`, dispatch with retry, failure handlers, control points | calls units, pushes on the recovery stacks, polls the control plane |
| Recovery stack (`recovery_stack.go`, `receipt.go`) | a LIFO of receipts and nested stacks, each stamped with unit and outcome | push, nest, stamp, look up by unit, supersede, `Unwind` | owned by an executor, walked by `Unwind`, saved in the trace |
| Run status and policies (`run_state.go`, `policies_config.go`) | the status triple, a reaction per condition | `Transition`, reactions | written by flow drivers, the executor and the unwind |
| Flow provider (`provider/flow`) | none of its own (gather: semaphore, completion channel) | subgraph, gather, choose, wait-until, complete, degraded, failed | calls back into the executor for each child; gather does so from several goroutines |
| Control plane (`control_plane.go`, `server/router.go`) | a queue of 16 commands, subscribers, an event sequence | request, poll, emit, subscribe | consumers on any goroutine or over HTTP; drained by the executor |
| Resource catalog (`resource_catalog.go`) | a ledger of generations: rows, a namespace of current ids, states, producers, destroyers | discover, get-or-create, shadow, verify, mark gone, clone, snapshot, rehydrate | providers on any goroutine; the trace |
| File provider and recovery site (`provider/file`, `recovery_site.go`) | files, the archive under `.devlore/recovery` | write, copy, link, mkdir, move, remove and their undo | catalog, receipts, the trace they travel in |
| Trace (`trace.go`) | status, stack, ledger and variables of a run that returned | save, load, resume | executor |
| Broker (`broker*.go`), process runner (`pkg/process`) | running children, a queue and a drain goroutine per stream subscription, the contexts that end them | run, exec, cancel, console, events | provider actions, the control plane |
| writ lifetimes (`cmd/internal/cli/lifetime.go`, `store.go`, `writ/readback`) | documents of lifetimes, graphs and traces, the pointer to the current lifetime | deploy, upgrade, adopt, decommission; append a run, replace, fold | the engine, whose traces they keep; other processes, through the file system only |
| Planner, receivers, conversion, Starlark bridge, lore, star, CLI support, foundation packages | registries and caches built at start-up | build and validate graphs | hand the executor its graph |

What is hard in it, and what makes each part correct:

- **Executor.**  An error value travels up the tree through the retry loop, the
  reaction, the handlers and the adoption logic of every enclosing boundary, and
  five kinds of it (pause, stop, cancellation, hard failure, ordinary failure) must
  each be treated differently at every level.  Correct means: effects are performed
  once, journaled where an unwind will find them, taken back newest first; a pause,
  a stop and a hard failure cannot be swallowed; the run ends.
- **Recovery stacks.**  Three histories share them: the run that is executing, a
  parked run that will be resumed, and a dirty unwind that will be unwound again.
- **Gather.**  Iterations race for the semaphore, for the commands of the control
  plane and for being the first failure; correct means each remains a saga of its
  own, nothing it did is lost, and the dispatcher cannot deadlock with them.
- **Catalog.**  Its mutex is released around every factory and every probe of the
  disk; correct means it stays a history that old receipts can refer into, and that
  it tells the truth about files nobody else touches.
- **File provider.**  Each mutation moves what it displaces into an archive, and its
  receipt is all the undo has to go by; calls fail half way, other programs write
  beside it, an undo may fail and be repeated, a receipt may have been through a
  file.  Correct means that nothing the run found is lost and that a clean unwind
  restores it.
- **Control plane.**  HTTP clients, the run's goroutines and subscribers meet in one
  queue and one event counter, while runs end and are taken up again under the same
  id.  Correct means that a refusal has no effect, a command is not silently lost
  and a subscriber knows what it missed.
- **Broker.**  A call waits on a child it does not own, a drain goroutine feeds it, and
  contexts, helpers that hold the pipes and other subscribers interfere.  Correct
  means the stream delivers everything once and in order, an outcome is whole and
  the call comes back.
- **Lifetimes.**  Nothing locks the store and a process may die between any two writes.
  Correct means the record can always be read, and says what stands on the machine.

## 2. Modules and how they correspond to the code

`RunStatus.tla` is the status algebra: conditions ordered by severity, reactions,
`Transition` (accepts only a condition that does not improve, records the most
severe pending reaction) and the kinds of error the executor tells apart.

`Saga.tla` is an abstract specification: steps perform effects one at a time, a
completed step only once; a saga parks, wakes, finishes, or unwinds newest first and
ends *clean* only when nothing is left.  It knows nothing of trees, stacks, retries
or goroutines.

`GraphExecutor.tla` (extends RunStatus) is one run.  The tree of units is a constant,
so the Go call stack is encoded by `unit` (what is being dispatched), `pc` (how far
its dispatch has come) and `err` (the error in flight); `Owner(unit)` is the executor
that dispatches it.  Each action is one stretch of code between two points where
another goroutine can act on the run, or between two alternatives of the code:

| Code | Actions |
|---|---|
| `Run`, preflight | `Start`, `StartRefused` (both refusals land by `LandPreflightFailure`) |
| `dispatchWithPolicy` | `DispatchUnit`, `Succeed`, `GiveUp`, `Retry`, `Exhaust` |
| `Node.Execute` | `ExitCancelled`, `ControlPoint`, `ReplayNode`, `RunNode`, `AssertNode`, `UnboundNode` |
| `Subgraph.Execute` | `ExitCancelled`, `ControlPoint`, `PruneSubgraph`, `EnterSubgraph`, `ScopeFault`, `NextChild`, `ExitSubgraph` |
| `gateRetry`, `resolveFailure`, `dispatchHandler` | `HandlerInterrupted`, `HandlerReturns` |
| end of `Run`, `failAndUnwind` | `Complete`, `Park`, `Fail`, `Land` |
| `RecoveryStack.Unwind`, `CompensateSubgraph` | `SkipEntry`, `Compensate`, `Descend`, `Ascend` |
| `ResumeExecutor`, `prepareResume`, `ResumeUnwind` | `Resume`, `ResumeRefused`, `ResumeUnwind` |
| consumers and the host | `Request`, `Cancel` |

An *effect* is what an action leaves in the world, numbered in the order performed;
`whole` says whether the action that left it succeeded.  A receipt carries the number
of its effect or 0.  `clock`, `tried`, `acked`, `issued` and `resumes` are history and
bounds; no guard of the code's own reads them except through the bounds.

`Gather.tla` is one gather: the dispatching goroutine (`Spawn`, `Collect`, `Return`),
one process per item (`Exit1`, `ControlPoint`, `Do`, `Send`), what the boundary's
dispatch loop makes of its outcome (`Complete`, `Park`, `Retry`, `Rollback`), the
undo (`Compensate`, `NextStack`, `Land`) and the resume.  Giving the semaphore back is
part of the send.  The boundary's own control point and handlers are GraphExecutor's.

`ResourceCatalog.tla` is the catalog shared by several callers.  A call is a sequence
of steps, one per critical section of `c.mu` or access to the disk: `Begin`, `Lstat`,
`Current`/`Discovered`, `Intern`, `Shadow`, `Activate`, and for mutations `Write`,
`Archive`, `MarkGone`, and `Exists`/`Record` for verification.  Keys are of two kinds,
locations (a path: one current generation, superseded by production) and contents (a
digest: found again by content).  `Captured` and `Resume` save and rebuild the ledger.

`FileUndo.tla` is the disk under one run: `disk` maps each path to what stands there (a
file the run found is named by the path it was at, so that it can be recognised wherever
it ends up), `archive` is the recovery site, `journal` the receipts.  There is one action
per method and situation - `WriteNew`, `WriteOver`, `LinkNew`, `LinkOver`, `MkdirNew`,
`MkdirOver`, `MoveNew`, `MoveOver`, `RemoveEntry`, and `StageFails` for parents that cannot
be made - each with the places where it can fail half way; `CompensateFileMutation` picks
among the three compensators as the code does; `Compensate`, `Blocked`, `Land`,
`ResumeUnwind` are the unwind over the journal, `Reload` the journal's way through a trace,
`Outside` another program.

`ControlPlane.tla` composes the queue and event stream of a run with the router in front of
it, the goroutines that reach control points and the drivers that register runs.  A client
is one HTTP request (`LookUp`, `CheckPhase`, `Request`, `Receive`, `GiveUp`: what
`handleCommand` does between two points at which others can act), a worker one goroutine
(`Poll`, `Serve`, `Stamp`, `Deliver`: `controlPoint` and the two halves of `emit`), an
observer one subscription; `Begin`, `Start`, `Finish`, `Close`, `Unregister` are the driver.

`Broker.tla` is the console of one run in the in-process broker: the callers of `Run`
(`Subscribe`, `Exec`, `Collect`, `ContextDone`, `Leave`, `Return`), the goroutine of each
child (`Bind`, `Launch`, `Wait`, `ControlFrame`, `Forget`), the child and the helpers it
leaves (`Say`, `Exits`, `HelperExits`), the drain goroutine of each subscription
(`DrainTurn`, `DrainWakes`, `DrainGivesUp`), the goroutine `bindCancel` starts (`Watch`) and
the contexts.  Publishing to all queues happens under the broker's mutex and is one step;
so is leaving the subscriber set and stopping the drain.
`Feed.tla` is what it promises: a log that every subscriber reads from the point at which it
subscribed, each value once, in order, at its own pace.

`Lifetime.tla` is the store of `writ` shared by several processes.  A command is `Deploy`, or
`RequireCurrentLifetime` and `Select`; then, for each scope, `WriteGraph`, a run of the engine
in one step (`RunSucceeds`, `RunFails`, `RunFailsDirty`), `WriteTrace`, `AppendRun` and the
writes it makes, each a temporary (`WriteTemporary`) and a rename (`Place`).  Every write may
fail and the process may die before each (`...Fails`, `Crash`).  `Fold` is the read-back.

`MCGraphExecutor`, `MCGather`, `MCResourceCatalog`, `MCFileUndo`, `MCControlPlane` and
`MCLifetime` hold the instances (Broker's constants are plain sets, given in its cfg);
`SagaProofs`, `GraphExecutorProofs`, `ResourceCatalogProofs`, `ControlPlaneProofs`,
`GatherProofs`, `BrokerProofs`, `FileUndoProofs` and `LifetimeProofs` hold the theorems.

## 3. What is checked

All executor runs share one tree of three nested boundaries,
`root = <outer, middle, last>`, `outer = <left, inner>`, `inner = <right, done, rest>`: it
has a node before, after and inside a nested boundary, which is what adoption,
supersession and LIFO order can be confused about.  `done` is bound to `flow.complete`, so
`rest` must never run.  Outcomes are chosen so that failures occur at the first, the
innermost and the last node.

| Run | Question | Bounds |
|---|---|---|
| `executor_core` | Retry, partial failure, pauses by command and by reaction, stop, cancellation, both ways of resuming and dirty unwinds: is the executor a `Saga`, has a parked run one frontier, does a stop land, does every dispatch end, and a run resumed from its trace after each pause? | 2 commands, resumes unbounded (`MaxResumes = Unset`), 1 inherited and 1 own retry, one node whose undo may fail, one OnError |
| `executor_policies` | `flow.degraded`, `flow.failed`, unbound actions, a faulty scope, OnRetry and OnError with every verdict, under policies that continue, pause or stop, racing commands and cancellation: is the journal whole, a clean stop clean, a pause honoured, a hard failure final? | 1 command, 1 resume; policies that differ per unit; handlers on nodes, the nested boundary and the root; the boundary whose scope fails leaves no effect in this run |
| `catalog_shared` | Two callers of one path and one content, with an outside program, save and resume | 2 calls each, 2 outside changes, 2 resumes |
| `gather_items` | Three items, two at a time, two units each | 1 command (pause or stop), cancellation, 1 retry, 1 resume |
| `file_undo` | Any sequence of mutations, whole or half done, beside another program, undone once or twice, before or after a reload: is every original recoverable, does a clean unwind restore, does what others made survive? | 3 calls, 1 fault in a call or an undo, 1 outside file, 2 unwinds, 1 reload; a directory with a file in it, a free name or file with a path below it |
| `control_plane` | Two commands and a stream over a run of two goroutines and its resumption under the same id: do refusals stay without effect, is every command accounted for, are gaps losses, is the run found? | queue and backlog of 1, 2 runs |
| `broker_console` | A command, a second subscriber and a second exec on one console: is the stream a `Feed`, is an outcome whole, does the call end? | 1 frame each from the child and from the neighbour, any number of helpers one at a time |
| `lifetime` | Deploys, upgrades, adoptions, decommissions in two processes, any write of which may fail and any process die: can the record be read, is it true, is history closed? | 3 commands, 3 runs and edits, 1 mishap (failure, crash or edit); two targets of different scope and kind; 2 lifetimes; policies skip and replace, which do all that stop does; users stop editing once commands have overlapped (`EditsOverlap = FALSE`) |
| `stop_retried`, `claims_drop_stack`, `moved_lost`, `undo_twice` | each shows one statement of the documentation violated, section 5 | the smallest that show it |

Why these bounds are enough: with resumes unbounded a run is parked, adopted, parked again in
the adopted boundary and resumed any number of times, two of which are the shortest history in
which `supersede` can go wrong twice; two commands let a pause race a stop; three items over
two slots is the least in which one iteration waits for a slot, one runs and one has ended; two
callers and two calls each let a key be produced, removed and produced again while another looks
it up.  Three file operations let two receipts concern one path while a third lies above or below
it, and two unwinds are what a dirty one and its resumption are.  A queue and a backlog of one are
full as soon as anything is in them, which is where `Request` and `emit` have their branches (the
code's 16 and 64 are only larger), and two runs let a client hold a handle of the one while the
other goes on.  Three commands let a lifetime be deployed, changed and replaced, or two overlap
after a third.

The properties, and what would break them:

- `EffectsJournaled`: every effect has its receipt on a stack an unwind reaches,
  whatever adopted, superseded, retried or failed in between.  It does not hold of a boundary
  that is adopted with effects on its stack and then fails its claims: that is
  `claims_drop_stack`, and `executor_policies` keeps scope faults to a boundary that leaves none.
- `FrontierIsNewest`: in a parked run only the newest entry of a stack is unfinished.
- `ImplementsSaga`, `ItemsAreSagas`: refinement of `Saga` by the executor and by each
  iteration of a gather; a replay that fails to recognise a receipt, an unwind in the
  wrong order, a clean verdict over a dirty stack all break it.
- `CleanStopRestores`: the promise of `failAndUnwind`, with the same exception.
- `PauseHonoured`, `StopHonoured` (violated), `StopLands` (what holds instead),
  `HardFailureEnds`: an acknowledged command or a hard failure is never followed by
  another effect and is not swallowed on its way up.
- `ConditionOnlyWorsens`: several units, handlers and the unwind assert conditions.
- `RunSettles`, `PausedFinishes`, `GatherSettles`: liveness.
- `EffectsNested`, `CompletedWhole`, `AckEndsPass`: gather.
- `CurrentIsNewest`, `IDsFresh`, `ReceiptsResolve`, `LedgerAppendOnly`,
  `ProducedKeepsItsKey`, `LedgerTruthful`, `ContentSingleton`: catalog.  `LedgerTruthful` and
  `ContentSingleton` hold for keys that were touched by one call at a time and by no outside
  program (`overlapped` marks the others): a path that another program changes, or a content
  two callers create at once, has no such promise in the code either.
- `OriginalsRecoverable`, `CleanUndoRestores`: no file the run found is lost, and a clean unwind
  restores every path.  Both speak of one unwind over receipts that were never reloaded
  (`Straight`); what a second unwind and a reload cost is `undo_twice` and `moved_lost`.  A
  directory that a failed `mkdirAll` or the target of a move made may be left over, and a file
  displaced by a directory something still lives in stays in the archive (documented).
- `ForeignSurvives`: an undo leaves alone what other programs made, even while dirty.
- `RefusedHasNoEffect`, `CommandsSettle`: a refused command is in no queue and never obeyed;
  one that was accepted is answered, given up on, or still queued when its run has ended.
- `GapsAreLosses`: as long as emits did not overlap, the numbers tell an observer exactly how
  many events it lost.  `RunningIsReachable`: a run in progress is found under its id unless an
  earlier driver unregistered late.
- `IsFeed`: refinement of `Feed` by the subscriptions; `OutcomeWhole`: an outcome holds
  everything its child, and the helpers it left, said; `CallsEnd`: a call whose child exited or
  whose context is done comes back, with the child ended.
- `RecordReadable`: `current` names a document with a run in it, and every run any document
  names has its trace, whatever overlapped, failed or died.  `RecordTruthful`: when the last
  thing that touched a target is a run that the current lifetime records, that can be read and
  that did not unwind dirty, the fold says what is on disk, however commands overlap; a run that
  unwound dirty counts as having touched whatever it has a receipt for, and so vouches for
  nothing.  `HistoryClosed`: the document of a replaced lifetime never changes.  That one is
  claimed while commands did not overlap (`alone`); the code has no lock and promises nothing
  beyond.

**Fairness.**  `FairSpec` of the executor asks weak fairness of the run's own goroutine: between
its actions it waits for nothing but calls that return (an action, a compensation, a retry
delay, which `waitRetryDelay` bounds and a cancellation ends), and for no other
goroutine.  `HostSpec` adds a host that takes a run which keeps pausing up from its trace sooner
or later, without which a paused run legitimately stays paused; taking it up on the same executor
(`Run` again) is left free, and is not enough (section 5).  Gather's `FairSpec` asks only that
some goroutine moves while one of them can: every step uses up a bounded amount of work, so
no goroutine has to be treated fairly by itself and none is asked to win a race.  ControlPlane's
asks that each goroutine of the run goes on and that `Run` returns when they have; nothing of
clients and observers.  Broker's asks that drains, callers and the goroutine behind each child
run - a child that was killed dies, and `WaitDelay` bounds the wait for pipes held by helpers -
and nothing of the child itself, of contexts or of watchers.  Nothing is assumed of consumers,
of cancellation, or of the outcome of an action.

Deadlock checking is off in every run because every system here may stop: a run that
completed, landed or stays parked, callers, clients and processes that made their last call.

## 4. What is proved

The theorems hold for every tree, policy, set of actors and bound that the ASSUMEs of
the modules admit.  TLC evaluates the same assumptions on its instances.  They say what the
code's constructors establish:

- the executor's tree is a tree (`TreeAssumption`): no unit occurs twice among the children of a
  boundary, every unit but the root is a child of exactly one, `Enclosing` is the owners on the
  way up, the root among them, no boundary is empty; retry counts are naturals and policies map
  conditions to reactions;
- the paths of `FileUndo` are those of a file system (`PathsAssumption`): what lies above a path
  is ordered, so that any set of it has a nearest one; the disk a run finds has a directory above
  everything (`DisksAssumption`);
- `CallerOf` maps callers to identifiers, capacities are positive, a gather has items, a body
  without repetitions and a limit of at least one, `current` is not the id of a lifetime.

**Saga.** `SagaTyped`, `CleanRollback` (clean means nothing stands), `StepsPerformedOnce` (by an
invariant that a new effect is newer than all standing).

**Executor.** Each theorem adds what it needs to the one before.

- `ExecutorTyped`, `JournalsOwned`, `UnwindNested`: `TypeOK` is not inductive, since an unwind
  reads stack entries through its cursor, `Ascend` and `Land` clear the stack of the frame they
  leave, and `Descend` walks into the stack named by an entry.  The inductive invariant is
  `IInv == TypeOK /\ StacksOwned /\ CursorNested /\ Unstarted`: entries lie on the stack of the
  boundary that owns their unit, the frames of the cursor descend the tree strictly and stay
  inside their stacks, and nothing is dispatched before the run has started.  That frames descend
  strictly is what shows that clearing one stack cannot shorten another frame's.
- `HardFailuresEnd` adds `HardShape` (a hard error is an ordinary error in flight that is being
  returned, settled or unwound) and has one step per action: every action enabled with a hard
  error performs nothing and hands the same error on.
- `PausesHonoured` and `StopsLand` add `Answering`: between a command's acknowledgement and the
  next control point the only places are those that hand the error up.  `StopsLand` is what is
  left of the promise `stop_retried` breaks: nothing swallows a stop where no retry and no handler
  is in the way.
- `ConditionsWorsen` adds `Worst`: a failed compensation is a condition of the run alone, and only
  once it has stopped.
- `StacksReached`: whatever adopts, supersedes, nests, drops and clears stacks, a stack that holds
  anything is the run's own, hangs from an entry of one that is reached, or belongs to a boundary
  on the call stack (`Attached`).  `Descent` says that what an unwind has behind it is undone.
- `EffectsKept` and `CleanStopsRestore` follow (`Journaled`), under the hypothesis
  `[][~Loses]_vars`: no boundary fails its claims, or has no action, while effects stand on the
  stack it has just adopted.  Without it both are false, and `claims_drop_stack` is the behaviour
  that shows it; with it they hold for every tree and policy - for every run, if no scope has a
  fault (`Faults` empty).
- `FrontierStays` likewise needs `[][~Absorbs]_vars`: a handler that absorbs a failure lets the
  walk go past a unit that a resumed run dispatches again, above the entry of a paused boundary
  that comes after it.  Here too the hypothesis is about one step of the code, and all runs whose
  handlers do not absorb meet it.  (In `executor_core` a handler does absorb, of a node that no
  boundary follows, and the property holds there.)

**Catalog.** `CatalogInvariant` proves
`IInv == Ledger /\ CurrentIsNewest /\ IDsFresh /\ CallsHold /\ Surroundings /\ ReceiptsResolve`;
from it `CatalogTyped`, `NewestIsCurrent`, `FreshIDs`, `ReferencesResolve`, `HistoryKept`,
`ProducersDeferredTo`.  The strengthening says what a call in flight may rely on after it released
the lock (an id it read stays in the ledger, with its key), and that the saved trace is a
prefix-preserving copy whose next id is above all it holds.  `LedgerTellsTruth` and
`ContentInternedOnce` add `TInv`: at most one call is at a key that nobody overlapped, and each
place of that call says how far ledger and disk are apart just then (`RightAt`) - after the disk
was changed and before the row was marked, for one, the file is already gone.

**Control plane.** `PlaneTyped`, `RefusalsHaveNoEffect`, `RunsReachable`.  That a refused command
is nowhere is not inductive by itself: a request is refused or queued according to where it has
got to, so the invariant says of every client that has not been queued yet that its command is in
no queue and was not obeyed (`UnqueuedNowhere`), that whoever got past the registry holds a run
and a serving goroutine a request (`HandlesHeld`), and that a run is registered from its driver's
registration until a late unregister is recorded (`StaysRegistered`).  `GapsTellLosses` proves the
action property with an account per subscription: the number last sent, plus what was dropped
since, plus the one event between its number and its delivery, is the counter (`Accounted`).

**Gather.** `CompletesWhole`, `AckEndsGather`: the invariant follows an error from the iteration
that ended with it to `firstErr` - it is in the iteration, in the completion channel or seen
(`ErrorArrives`), and the gather returns only with the channel empty.  Beside it,
`JournalFollowsPlace` says what the iteration's stack holds at each place, and that a stack
stamped without an error is whole, which is what lets `classifyGatherRuns` skip it.
`NothingOutOfReach` and `IterationsAreSagas` rest on `SInv`: every effect has one receipt that
answers for it, at the place its number says, and the completed receipt of a unit is its last
(`Booked`); nothing is tried before the unwind, and the unwind has tried everything above its
cursor and nothing below (`Untried`, `Unwound`); a gather that has returned has nested every
stamped stack once (`Nesting`).  `IterationsAreSagas` is the refinement of `Saga`, step by step,
for each iteration.

**Broker.** `ConsoleIsFeed`, the refinement of `Feed` as a theorem, and `NothingLostBetween`, its
invariant: what a subscription was given is what its reader took, what the drain has in hand and
what is queued, consecutive and up to the end of the log (`QueuesJoin`).  `OutcomesWhole` counts
(`TellsInv`): a caller has kept as many frames of its child as are in the part of the log it has
read, and an exit frame is the last frame of its exec, so that who has read it has them all.

**File undo.** `TypesHold`, `NothingIsLost`, `CleanUndoGivesBack`, `ForeignFilesSurvive`.  The first
and the last follow from `Kinds`, which says what each entry of the disk, an archive and a receipt
may be, that no two receipts share an archive, and that a file of another program's making appears
only after `Outside`.  For the other two the invariant `BackInv` is a way back: for every receipt
still to be undone there are two disks, the one its call found and the one it left, related as that
kind of call with that kind of partial failure relates them (`Made`), each the next one's start up
to left-over directories (`Like`), the last like the disk there is.  A call appends to the way
back (`CallDone`), a compensation takes its last piece off (`GivesBack`, one lemma for each of the
compensators and each place its call can have failed at), and at its end is the disk the run
found.  The theorem has no bound on calls, faults or receipts.

**Lifetimes.** `RecordAlwaysReadable`: what is in place is not enough to go by, since a process
writes out what it read or made up earlier and a crash leaves a temporary that another process may
put in place; `RecordInvariant` therefore says the same of every process's copy (`CommandsKnow`)
and of every temporary (`TemporariesKept`), for any number of processes and with any overlap.
`NothingRewritesHistory` adds `CInv`: while alone, a command knows whether its lifetime was
replaced and finds in the temporary what it put there.  `RecordTellsTruth` adds `HInv`, which
needs no such condition: every copy of a document, in place or not, lists its runs in the order in
which they ran, with disjoint targets as long as they are of the deploy that minted it, and the
disk holds what the last run that touched a target wrote.

What attempts at proofs changed: in the executor two guards of a CASE overlapped, where the code
takes the first (`Verdict`), and TLC had always taken the first as well; `RecordTruthful` was
claimed for too little (commands that never overlapped) and of runs whose targets were mistaken
for what they touched; the assumptions on trees and paths were too weak to exclude shapes that no
graph and no file system has.

Only model-checked: liveness and everything else that rests on fairness, which is outside the
prover's reach; the refinement of `Saga` by the executor (`ImplementsSaga`), which needs the
order of effects across all stacks as an invariant; `EffectsJournaled`, `CleanStopRestores` and
`FrontierIsNewest` in runs outside the hypotheses above, of which `executor_core` and
`executor_policies` have many.

## 5. Where code and documentation disagree

Shown by a run each:

1. `stop_retried` - a stop acknowledged inside a unit with retry budget left is retried
   like an action's failure (`graph_executor.go`, `dispatchWithPolicy`), although `Stop`
   promises that the run unwinds and lands.  An `OnError` handler can absorb it as well.
2. `claims_drop_stack` - a boundary that adopted its prior stack and then fails claim
   verification journals a receipt with no compensator: the completed children's effects
   survive a "clean" unwind (`subgraph.go`, `Execute`).
3. `moved_lost` - the source of a move is a candidate the catalog never interned, so it has no
   id and is lost in the trace; after a resume the move is undone as if it were a creation, by
   deleting the moved file (`receipt.go`, `provider.go`).
4. `undo_twice` - a dirty unwind keeps the receipts it compensated, and compensating a write or
   a removal again deletes what the first time restored, although `ResumeUnwind` says that an
   already-cleared state is a no-op.

Met while modelling, without a run of their own:

*Executor and flow*

- Re-entering an absorbed boundary on resume moves its old effects above younger siblings
  (`supersede`): the unwind is then not LIFO.  The doc of `adoptPriorStack` says that "in a
  resumable trace the only error stacks are paused subgraphs"; an absorbed one is another.
- `flow.degraded` after `flow.failed` panics (`assert.NoError` in `provider/flow`), where the
  doc says the refused submission is discarded.
- A boundary that was stopped does not bubble its condition up as the comment at the end of
  `Run` says of failures.
- A second `Run` on an executor that paused with a reaction still pending parks again
  for ever; only `ResumeExecutor` resets it.
- After a pause was acknowledged, a gather larger than its limit still starts the remaining
  iterations; a pause acknowledged after another iteration failed, or a stop after one paused,
  decides nothing, since only the first completion does.  `CompensateGather` says stacks are
  nested in completion order; they are nested in index order.

*Catalog*

- `VerifyExistence` turns a Gone entry Active again, where `markGone` says no operation does; a
  revived entry keeps its destroyer, which `DestroyedBy` denies.
- `GetOrCreate` promises an entry "in state Active"; a content hit on a Pending entry is
  returned as it is.
- Compensation never updates the ledger, so a trace saved after an unwind describes the
  files before it.

*File provider*

- In one dirty unwind, a compensation that is blocked and an older `compensateWrite` after it
  ("ALWAYS remove") delete the file the blocked one's move had brought there.
- `Link` and `Mkdir` beneath a path that is a file journal a receipt although they did nothing,
  and its undo fails with ENOTDIR: the run lands dirty for nothing.

*Control plane*

- Overlapping emits deliver out of order, where `Subscribe` promises order (`control_plane.go`).
- A command answered with 503 after the client's context ended stays queued and still takes
  effect; one queued after the last control point is never answered.
- A late unregister removes a later registration of the same id (`router.go`, `Register`).

*Broker and process runner*

- `runner.go` says the subprocess is killed when the context is done; the goroutine that does it
  fires once, and when the context ends before `Start` the child is started and never killed.
  It also reads `cmd.Process` unsynchronized with `Start`, and stays for ever on a context that
  never ends.
- The doc of `InProcessBroker` says that a subscriber that has fallen behind misses frames; the
  queues are unbounded and nothing is missed.
- A child that exits 0 while a helper holds its pipes for longer than `pipeWaitDelay` is reported
  with status -1 and an error.  `Cancel` right after the control frame still answers nil.

*writ*

- A target left alone under `--conflict=skip` is folded as deployed (`readback.go`, `foldRun`), so
  a later decommission removes the user's file.  A copied file that the user changed is removed
  as well: the claim is about the kind of entry only.
- A crash between marking the previous lifetime replaced and moving the pointer leaves `current`
  on a lifetime that refuses every run, with a warning only, until the next deploy.  A failed
  first save makes the next scope's run the second, and the previous lifetime is never marked.
- `WriteGraph` writes in place and returns early when the path exists: a document cut short stays,
  and later runs of that plan are recorded and never read back.
- `writeAtomically` says that a reader never sees a torn document; two processes share the
  temporary's name, so that needs one writer.  When commands overlap the last save wins and drops
  the other's run.
- A dirty unwind's trace keeps the receipts of what was undone, and the fold counts them.
- Nothing ever sets the state `ended` of a lifetime.

## 6. What is not modelled

Inside the modelled parts: a failing `Commit` (minting a UUID), hooks, kwargs and
variables, results of units, retry delays, the decision-tree walk and `flow.choose`,
`WaitUntil`; a failure handler is one control point and a verdict; `PhasePausing` is never
assigned by the code and does not occur; gather bodies neither branch nor assert
conditions; resource kinds, etags and digests in the catalog; file modes and contents, moves of
populated directories, the policies stop and skip in `FileUndo` (they change nothing); exit
statuses and the event stream in `Broker`; digests, drift and the run index in `Lifetime`, where
writing a temporary is one step.  There is no crash in the middle of a run of the engine: a
trace exists only after `Run` returned, so a process that dies leaves nothing to resume
(`Lifetime` has such crashes, and what they leave on disk).  `CompensateSubgraph` fails as its
children do; compensation of an irreversible effect either works or leaves the effect as it is.

Data races: the iterations of a gather share the executor's status and pending reaction
without synchronization.  The model keeps their error values, which do not race, and leaves
the shared status out.

The components with status `not_modelled` in `PROJECT.json` and the reason for each:

- **Runtime environment**, **Graph, planner and validation**, **Receivers, methods, conversion**:
  sequential construction, reflection and validation before a run; what they can do to a run is
  a preflight failure, which GraphExecutor has.
- **Other providers**: what they do to the world is the executor's `Outcomes`; the rest is I/O.
- **Plan provider and Starlark bridge**: an interpreter.
- **lore**, **Command-line support**, **star and developer tools**, **Foundation packages**: pure
  I/O, code generation and libraries without state that several actors share.

These are by far the larger part of the repository's lines; the state and the concurrency are in
what is modelled.

## 7. Plan

Done: the executor with its saga, gather, the catalog, the file provider's undo, the control
plane with its router, the broker with its feed, the lifetimes.  What is left, in the order in
which it matters:

1. **Proofs** - the refinement of `Saga` by the executor, `ImplementsSaga`: it needs the order in
   which an unwind meets the effects of nested boundaries as part of the invariant.
2. **Gather** extended with condition assertions on the shared status.
3. **Kinds** in ResourceCatalog (`Supersede`, `rebindEntry`), and the composition of FileUndo with
   the ledger: what a dispatch after an undo reads.
4. **flow.choose** and `WaitUntil` in the executor.
5. **Runtime environment**: the provider cache and its closing.
