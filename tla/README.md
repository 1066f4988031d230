# Effect Reconciler in TLA+

`effect-reconciler` keeps a tree of long-lived physical resources (*lifetimes*) in step with an
application state: the application commits states, a Binding derives which semantic identities
should exist, and a controller starts, replaces, supervises and finalizes *generations* of them.
This directory holds TLA+ models of that controller and of the parts around it (the Definition
compiler, desired evaluation, nested Reconcilers, the UI mirror, and three other runtimes the
repository keeps for comparison), the TLC configurations that check them on small instances, and
TLAPS proofs, for every instance, of the controller's safety invariants and its refinement of an
abstract specification, of what the Definition compiler accepts and what an evaluation answers, and of
the main invariants of nested Reconcilers, the mirror, the hand-written supervisor, the rebase kernel
and the editor runtime.

Source paths below are relative to the repository root; the implementation is in `src/`
(`src/internal/controller.ts` is its heart), the intent in `README.md` and `docs/spec.md`.

## 1. Inventory

| Component | State | Operations | Interacts with | Must be true of it |
|---|---|---|---|---|
| Identity (`internal/identity.ts`) | none: immutable paths of (family, key), a hash cache | equality, `slotIdent` | every index | equality is path equality; a slot is per owner for a "one" family, per identity for "many" |
| Definition compilation (`internal/compiledDefinition.ts`, `Definition.ts`) | none after compilation | `compileDefinition` | constants of everything else | owners and providers are numbered before what names them; a requirement is an ancestor or a collateral "one" family |
| Desired evaluation (`internal/desiredSnapshot.ts`, `Binding.ts`) | incremental memory between commits | `evaluate`, prune | called by `commit` outside the mutex | a child only under a desired owner, one key per "one" slot, incremental = full evaluation |
| Live state (`internal/liveState.ts`) | generations, index by identity, by slot (current, retiring), children and dependents edges, `version` | `track`, `retire`, `concludeStartup`, `forget` | the controller, under its mutex | indexes and edges agree with what generations record |
| Controller (`internal/controller.ts`) | published snapshot and revision, match cache, `wakeVersion`, `reconciledVersion`, `retiredOutOfBand`, `publishedVersion`, latches | `commit`, `retry`, reconcile loop and pass, startup completion, `status`, `snapshot` | mutex, fibers in the root Scope | authority closure, slot exclusion, no lost wake, no lost change signal, convergence |
| Finalization (`internal/finalization.ts`) | `closing` deferred per generation, Scopes | `closeInstance`, `beginStop`, `ownedSubtree` | Scope of the effect library, live state, wake | forgotten only after finalizers; every retired generation is reached |
| Supervision (`Supervision.ts`, `superviseFailure`) | one schedule driver per identity, sleeping fibers | count, sleep, fire, reset | retires between passes | counts across generations, never acts on a stranger, dies with the desire |
| Shutdown (`shutdown`) | `open` | retire all, close the root Scope, forget all, signal | interrupts everything | completes; nothing acts afterwards |
| Change signal (`publishChanges`) | `publishedVersion`, a one-slot replaying log | publish | mirrors | every visible transition is followed by a signal |
| Convergence barrier (`TestHooks.idle`) | `converged` latch, `convergenceObserved` | await | the loop | opens exactly when settled |
| Diagnostics, Snapshot, Status, Failure | counters, logs | read-only views | the mutex | the two views agree; `settled` means converged |
| Nested Reconcilers (`Reconciler.ts`) | a child controller per parent generation | commit of projections | parent Scope | child follows the projection, dies with the parent |
| UI mirror (`examples/ui/mirror.ts`) and adapters (`react.tsx`, `solid.ts`, `lit.ts`) | cache with listeners, pending state and retries, a latch, a semaphore | `commit`, `retry`, `watch`, flush | change signal, components | a watching component ends up showing what the controller answers; commits never roll back |
| Foldkit driver (`examples/foldkit/driver.ts`) and hand-written supervisor (`before/app.ts`) | the Model, one managed resource, Command fibers | `dispatch`, `syncResources`, `update`, `reconcileAnalyzers` | a backend of servers and analyzers | the latest choice wins; no stale analyzer, none forgotten |
| Rebase kernel (`experiments/layer-atom/rebase/kernel.ts`) | generations, status Atoms, latches, one timer | `publishDesired`, pass, watcher, stop, `retry`, `shutdown` | Atom registry, Scopes, timers | no wake is lost while one is scheduled; `idle` means converged |
| Editor runtime (`experiments/layer-atom/editor.ts`) | six indexes by family, slots, latches | Atom write, hand-written `invalidate` and `admit`, watcher, stop, `retryLanguage`, `shutdown` | Atom registry, Scopes | settles on exactly what the Model asks for; nothing stands on a replaced provider |
| CLI session | none of its own | commands over `commit` and `retry` | controller | - |

What is hard here is not any one operation; each mutexed section is short. It is what runs
*between* sections: the startup fiber, the fiber that waits for it and then queues for the
mutex, the close of a Scope and the fiber that awaits it, the cleanup of a failed startup, a
backoff asleep for a generation that may be long gone, the loop between closing its latch and
taking the mutex, and the application committing, retrying or shutting down at any point of
all that. Around the controller it is the same question with other actors: two commits that
evaluate at once, a projection that changes while a child subscribes to it, a component that
mounts during a flush, a server that answers a request nobody makes any more, an Atom written
between the two halves of a pass. `PROJECT.json` lists these hazards at their lines.

## 2. Modules

    Topology          identities, slots, requirements, coherent desired snapshots
      LiveState       the live-state record and its transitions
        Controller    commit, passes, completions, finalization, supervision, shutdown
          Barrier     + the convergence latch and a waiter
          Nested      + a child controller in each hosting lifetime
      Evaluation      evaluate, its incremental memory, concurrent commits
    Lifetimes         what a runtime promises of generations; Controller, Kernel and Editor implement it
    Definition        define, bind, make; what it accepts satisfies Topology's assumptions
    Mirror            the UI mirror, its two fibers and its components
    Foldkit           the headless driver and the hand-written analyzer supervisor
    Closing           generations and Scope closes of the Layer/Atom experiments
      Kernel          the rebase kernel
      Editor          the hand-written editor runtime
    Instances, MC, MCBarrier, MCNested, MCDefinition, MCEvaluation, MCKernel, MCEditor
    ControllerProofs, DefinitionProofs, EvaluationProofs, MirrorProofs, FoldkitProofs,
    KernelProofs, ClosingProofs, EditorProofs                    (TLAPS)

**Topology.** The constants are the compiled Definition. `TopologyAssumption` states what
`compileDefinition` guarantees of a Definition it accepts (checked in Definition). An identity is the sequence of
`<<family, key>>` pairs along the owner chain, which is what `Ident` equality compares.
`Candidates` is the desired-side half of `resolveProvider`. `DesiredSnapshot` is every
coherent snapshot; that `evaluate` publishes no others is proved of Evaluation. A snapshot maps an identity to its projection.

**LiveState.** One record `L`; `track`, `retire`, `concludeStartup` and `forget` map records to
records, the first, second and last for a set of generations because the code applies them in
loops inside one mutexed section. `status = "none"` means "not in `live.all`". `moved` is
`version # publishedVersion`: only the inequality matters to any branch.
A generation is a token `<<identity, n>>`. The code mints `nextGeneration++`; the model takes an
unused token from a finite pool. A token is reusable when nothing refers to it (`Unused`), so
that a generation the code would still mention is never confused with a new one. When a pool is
exhausted `ReconcilePass` is disabled until a token comes back; runs give every sequential
identity one token, which is all its slot admits, and an overlapping one two.

**Controller.** One action per mutexed section and one per step of each fiber outside it.

| Action | Code |
|---|---|
| `Commit` | `commitWith` from entry into the mutex: publish, next revision, wake |
| `Retry`, `TimerFires` | `retry`; the section run when a backoff's sleep ends, with its four re-checks |
| `StartExits`, `OnStartupDone` | the start fiber ends; the waiting fiber gets the mutex (late, superseded, success, failure) |
| `CleanupWakes` | the close of a failed startup has returned |
| `OwnerClosesChild`, `FinalizersRun` | `Scope.close` descending to a forked Scope, and ending |
| `StopForgets`, `StopWakes` | a stop fiber: `forget` under the mutex, then `wakeUp` after it |
| `LoopWakes`, `ReconcilePass`, `ClosedPass` | latch closed; one pass; a pass that finds the controller closed |
| `BeginShutdown`, `ShutdownForgets`, `ShutdownSignals`, `LoopInterrupted` | the sections of `shutdown` and the interruption of the loop |

`ReconcilePass` is the whole pass: `invalidate` from withdrawn desire and the out-of-band seeds,
`beginStop` for subtree roots and for those already closing, `republish`, admission, the new
generations' startups, `reconciledVersion`, `publishChanges`. Recursion is avoided: `invalidate`
and `ownedSubtree` are least sets, `startupIsAuthoritative` a greatest one (its `checked` set
makes a revisited generation count as fine).

Points where the abstraction has an argument behind it:

- *Admission at once.* The code admits in topological order, one at a time. A fresh generation
  is Starting, hence neither an owner nor a provider for another admission of the same pass, and
  no two desired identities share a slot; the set admitted is the same.
- *The match cache.* `desiredRevision`, `desiredNode` and `node.live` are one set `matched`: the
  generations matched to the current revision's node. Only a commit empties it, and only
  `invalidate` trusts it.
- *Owed.* `wakeVersion # reconciledVersion` is a Boolean. A pass sets
  `reconciledVersion` to the version it saw when it began; a wake that arrives during
  the pass is, in the model, one that arrives just after it.
- *Closes.* `closeInstance` claims `closing` and the Scope when it is called. The code forks the
  close; nothing reads the Scope's state between the fork and its first step. A second close of a
  claimed Scope returns at once, as `Scope.close` does, and its deferred completes then.
- *Sibling order.* A sequential Scope closes children in reverse order. The model leaves the
  order open, which allows strictly more interleavings.
- *Supervisors.* A schedule is the number of attempts it offers. `supervisors[i]` is 0 without
  an entry, then the attempts consumed, `MaxRestarts + 1` once the schedule has said `Done`.
- *Left out.* Contexts, causes, events, counters, the failure log: nothing branches on them.

**Lifetimes** is the abstract specification: a generation has a status, what it stands on, and
whether it holds resources. It comes to be on what runs and in an empty slot, is retired together
with all that stands on it, and is gone only once it holds nothing. Many may move in one step. It
has no passes, desire, Scopes or fibers, so a runtime that implements it does so whatever its loop
does. `Controller` maps `held` to an unclosed Scope or a running startup. `Kernel` and `Editor` map
what an owner's close has reached to the owner: there a stop fiber may forget its generation while
the owner's close still releases it.

**Definition.** `makeHandle`, `bind`, `make`; `compileFamily` and `compileBinding` return the first
error in the order the source meets them (`DeclarationError`, `EntryError`, `FamilyError`). The `"ok"` results say what the rest of the model assumes.

**Evaluation.** `evaluate` is one synchronous stretch: families in compiled order, owners in
topological order, memo lookups by the owner's identity, errors that leave what the memory has
already recorded, the sweep once the memory outgrows the visited owners. `Publish` is the section
under the mutex; callers publish in any order, or are interrupted while they queue. `accept` keeps the
nodes by family, from which the owners of a later family are read. Selectors are constant operators:
`SelectorAssumption` says that an answer is a list of keys (at most one for a "one" family), a throw or
misshapen, and states the documented contract of `deps`, "if `deps` is unchanged, the selector must
return the same keys" (`Binding.ts:64`). It covers only what a selector may be asked about (`OwnerIdents`).

**Barrier** and **Nested** compose with the whole `Controller`: their variables change in its
sections (`LatchedSteps`, `ControllerSteps`) and in steps of their own. `Nested` keeps of the child
controller what its host can tell (open or not, what was last committed); the projection is the
host generation's `seen`.

**Mirror.** The controller from outside: transitions, a signal with one slot, and the phases of its
shutdown, which retires everything, forgets everything and signals once more. `Controller.snapshot`
answers in each of them (it has no error and asks for no open controller, so the branch of
`mirror.ts:196` for a failed one is not reachable). Two fibers flush under one semaphore in
three steps (take and commit and retry; read; apply). Components: hooks mount and unmount (a
later mount is another component), Lit elements disconnect and reconnect with their last rendering.

**Foldkit.** `update` for every message with the supervisor it runs, `syncResources` with its
in-flight acquisition and last failure, Command fibers that end in any order.

**Closing, Kernel, Editor.** The two experiments share how a generation is closed: its own stop
fiber claims the Scope, or its owner's close reaches it first (`closes`, `reaches`, `releases`), and
the loser returns at once. Indexes are set where status is, and are read off it. A pass is split in
two, because desire is written outside the mutex and its second half reads it again. `Kernel`'s
`invalidate` sweeps generations in order of admission, `Editor`'s by family (`swept`), and what it
admits is what desire names (`named`) and `admissible`, in the order of the source.

## 3. Runs

TLC is exhaustive in every passing run.

| Run | Module | Instance | States | Question |
|---|---|---|---|---|
| `slot` | MCNested | one sequential "one" family, two keys, three projections of which the child rejects one; retry, shutdown | 507,000 | does a replacement ever overlap its predecessor? does the nested child follow its host's projection? |
| `overlap` | MC | one overlapping supervised identity, two tokens, two attempts, retry, shutdown | 104,000 | do indexes and views stay right while a successor runs beside its predecessor? is every change going to be signalled, every effective backoff counted? |
| `tree` | MCBarrier | an owner and its child, a waiter on the barrier, retry, shutdown; fairness | 59,000 | is everything that drains reached by a close and forgotten only when finalized? does the latch mean what it says, and is a waiter owed what opens it? does the runtime converge, drain, signal and shut down, and does the waiter return? |
| `provision` | MC | provider with two keys, dependent, dependent of the dependent; commits switch the foot, retries retire between passes | 485,000 | do the completion check and the pass's cascade agree about bindings that went stale at a distance? is a pass owed when there is work? does the controller implement `Lifetimes`? |
| `definition` | MCDefinition | every declaration of up to three families; every Binding of up to two entries for up to two families | 1,318,000 | is exactly what is well declared accepted, and is what is accepted what the other modules assume? |
| `evaluation` | MCEvaluation | three families deep, ten states (duplicates, throws, misshapen answers), two callers | 19,000 | does the memory ever show in a result? |
| `mirror` | Mirror | one lifetime, one foreign ref, a hook and an element, two commits and retries, shutdown; fairness | 1,496,000 | is a reading stale with no refresh to come, a request lost or reordered, a screen left behind, also by a controller that shuts down? |
| `kernel` | MCKernel | Settings with two revisions, a fallible Session over them, a Document | 139,000 | does `idle` return, and then mean what it says? does one sweep take all that stands on what it retires (`Lifetimes`)? |
| `editor` | MCEditor | all six families, two settings revisions, a document opened and closed, a fallible Language | 371,000 | does the hand-written runtime settle on the Model, and implement `Lifetimes`? |
| `foldkit` | Foldkit | a language without a server, two revisions, one document, one retry | 716,000 | does the hand-written supervisor keep up with choices made while it is busy? |

*Bounds.* Keys: two where switching matters, since a pass compares only equality. Families:
three in the controller, because the longest argument about stale bindings involves a generation,
its provider and its provider's provider. Tokens (`Incarnation`): one per sequential identity (its
slot admits no more), two for an overlapping one; in `kernel` two, because an owner's draining and its
successor can both have a child there. `MaxRestarts`: two, so that a count can be zero, partial and
exhausted. `MaxPending`: one projection published and not yet followed, which is the case in which
two can be confused. `MaxAsked`: two, for order. `MaxServers`, `MaxHandles`: enough
for one in the Model, one being released and, for servers, one being acquired; names are reused. `Few` in `editor`: shutdown comes while at most two generations are remembered;
six at once close in millions of orders, and closing with children is covered there by the document and
its diagnostics. `Retryable`, `MayShutdown` and `Desire` switch application calls off in runs
whose question does not need them. `CHECK_DEADLOCK FALSE` in `kernel` and `editor`: a converged kernel waits
for the application, and one that is closed, or has used up its tokens, stops.

The properties:

- `SequentialExclusive`, `IndexesAgree`, `OwnershipClosure`, `MatchCacheCoherent`,
  `StatusAgreesWithSnapshot`: the consistency of live state, proved as well (section 4).
- `CompletionCheckAgreesWithPass`: two independent algorithms, a recursive check at a
  completion and a cascade in a pass, answer the same question about a Starting generation.
- `NothingOwedNothingToDo`: when no pass is owed and no stop fiber is about to ask for one, a
  pass would change nothing. This is "no lost wake" as a state predicate.
- `NoLostChange`, `ChangesAreSignalled`: the same for observers, as safety and as liveness.
- `DrainingIsCovered`, `AuthorityKeepsScope`, `ClosedIsEmpty`: finalization. `DrainingIsCovered` is what makes `ownStops`' second disjunct
  necessary: a failed child in cleanup is skipped by its owner's close.
- `EffectiveBackoffIsCounted`: resets and stale sleeps never leave an attempt uncounted.
- `Convergence`, `DrainingEnds`, `ShutdownCompletes`, `NobodyWaitsForever`: liveness.
- `ImplementsLifetimes`, `KernelImplementsLifetimes`, `EditorImplementsLifetimes`: refinement of
  `Lifetimes`, by three runtimes whose passes go about it differently. That what is forgotten has been
  finalized is part of it; for the controller it is a theorem of its own (`ForgottenIsFinalized`),
  and so is that what drains is never revived nor told of another world (`ObsoleteIsFinal`).
- `LatchTells` (`LatchMeansConverged` and `WaiterIsOwed`): the barrier's latch holds a state and not an event, and who waits
  while it is closed waits for something that is under way. Proved as well. The first is more than
  `quiescent`, which `TestHooks.idle` reads: between `forget` and `wakeUp` of a stop fiber that is true with an
  admission outstanding (`SettledIsConverged` below), but the latch opens only after a pass.
- `ChildFollows`: between the first commit and the subscription, and after, no projection is lost.
- `MadeIffWellDeclared`, `AcceptedIsWellFormed`: the compiler against the declarations, and against
  what `Topology` assumes, proved as well.
- `EvaluationIsPure`, `PublishedIsCoherent`, `MemoryFollowsDesire`: an evaluation with memory answers as
  one without, whatever failed or ran in between; what is published is one whole state; the memory
  does not outlive the owners. Proved as well.
- `NoStaleReading`, `PendingIsRequested`, `RetriesInOrder`, `CommitsNeverRollBack`, `ScreenCatchesUp`: the
  mirror rests on `NoLostChange` and adds that nothing is lost between its latch, its semaphore and
  its listeners. Both hold through a shutdown: what shows last is that nothing is left, which only the
  signal of its last step can bring about.
- `IdleReturns`, `ConvergedIsConverged`, `SequentialUnderOneOwner`: batching wakes behind one timer loses
  none; the open latch means nothing starts, drains or is outstanding.
- `SettledMatchesModel`: what the editor settles on is compared with a reference read off the Model,
  without passes.
- `NoStaleAnalyzer`, `NothingForgotten`, `LatestChoiceWins`: the supervisor and the driver together.

*Fairness.* Each step the runtime takes by itself is weakly fair: Effect's scheduler
runs every runnable fiber and the mutex serves waiters in order, so a section that stays enabled
is reached. User finalizers are assumed to end and sleeping backoffs to wake. Nothing is
assumed of the application, nor of a startup, except that one in a closing Scope responds to its
interruption. `TestHooks.idle` documents the same exceptions (a wedged startup or finalizer).
A blocked startup leaves its generation Starting, and `Convergence` does not promise otherwise.
In `Barrier` the waiter's own steps are fair, in `Mirror` the two fibers are, and of the controller
what `Controller` shows of it: an open one signals what moved, one that is closing forgets and
signals at the end. `IdleReturns` needs no fairness: it says that the kernel never stops unconverged.

### Where the repository says something else

Two runs end in a counterexample: a comment claims more than the code does.

| Run | Claim | What happens |
|---|---|---|
| `overtaken` | `controller.ts:454`: the owed pass closes a superseded startup | desire is withdrawn, the completion discarded, desire restored before the pass: the generation is kept, Starting for good |
| `second_analyzer` | `examples/foldkit/before/app.ts:165`: never a second analyzer while the previous one is still stopping | a start that is stale on completion is stopped with its document listed in `stopping` only, which the starting loop does not consult; the document is opened again |

The first means `Convergence` cannot ask that every desired identity becomes Running or Failed.
It asks that nothing undesired has authority, nothing drains, and nothing admissible is left out.

More claims that the models refute are kept as definitions no run names; to see the
counterexample, name one as an INVARIANT in the cfg given.

| Definition | cfg | Claim | What happens |
|---|---|---|---|
| `Controller!FailureIsSupervised` | `overlap` | `Supervision.ts:57`: restarts end when the schedule is exhausted | the backoff fires while desire is withdrawn and gives up; desire is restored before the pass: Failed, with attempts left, nobody asleep |
| `Controller!BackoffDiesWithDesire` | `overlap` | `Supervision.ts:48`: the count is gone with the desire | desire withdrawn while a scheduled restart drains: no retirement follows, the count survives |
| `Controller!ChildNeverOutlivesOwner` | `tree` | `docs/spec.md:130`: a child never outlives its physical owner | a child with its own close in flight is skipped by the owner's close and still finalizing when the owner is forgotten |
| `Controller!SettledIsConverged` | `slot` | `Diagnostics.ts:110`: settled means converged | between `forget` and `wakeUp` of a stop fiber `settled` is true with an admission outstanding |
| `Foldkit!ReleasesThenReacquires` | `foldkit` | `examples/foldkit/driver.ts:13`: releases, then acquires again | the new acquisition is forked beside the release |
| `Mirror!ElementShowsCache` | `mirror` | `examples/ui/lit.ts:24`: an element back in the tree does not keep a stale rendering | reconnecting watches again but renders only on the next change |
| `Kernel!SequentialExclusion` | `kernel` with `Overlap` naming the owner's family | `experiments/layer-atom/README.md:92`: a sequential slot never overlaps | a slot is shared by two generations of an overlapping owner, and a child forgotten early is still being released |

## 4. Proofs

`ControllerProofs` proves, for all constants that satisfy `TopologyAssumption`,
`NoGenAssumption` and `ControllerAssumption`:
`TypeOK`, `IndexesAgree`, `OwnershipClosure`, `SequentialExclusive`, `MatchCacheCoherent` and
`StatusAgreesWithSnapshot` are invariants of `Spec`. The Definition, keys, number of
generations and set of committed snapshots are arbitrary, infinite ones included.

The invariants are not inductive one by one. `IInv` conjoins them with two facts:

- `StopFibersDrain`: a stop fiber waiting on a close belongs to a draining generation that has
  claimed its deferred. Without it, `StopForgets` could forget a generation with authority.
- `ClosingHasNoAuthority`: after `BeginShutdown` nothing has authority, so that
  `ShutdownForgets` takes the support from nobody.

The argument, following the source's own structure:

1. Live state (the first part of the module): each of `track`, `retire`, `concludeStartup`, `forget` keeps the indexes in
   agreement, from assumptions its callers meet (`Admits` collects those of `track`).
   `RetireKeepsSupport` is where closure along the two edges is needed, and `EdgesAgree` why
   walking `children` and `dependents` finds everything that names a generation.
2. `DrainingSupportsNothing`: nothing with authority stands on a generation that is not Running.
   That is why an out-of-band retirement (a Failed generation) needs no cascade of its own to
   keep `OwnershipClosure`, and why `OwnedSubtreeDrains` can show that what a stop fiber
   forgets, reached through children edges, is all draining.
3. `InvalidateIsClosed`, `DrainedIsInOrder` (Phase A), `AdmissionsStand`, `AdmittingKeeps`
   (Phase B): a pass keeps everything, because `admissible` is evaluated after Phase A.
4. One lemma per action, `NextKeepsIInv`, and the temporal step.

Its second part, about finalization, continues from `IInv` for the same constants: `AuthorityKeepsScope`,
`DrainingIsCovered` and `ClosedIsEmpty` are invariants of `Spec`, and `ForgottenIsFinalized` and
`ObsoleteIsFinal` are properties of its steps. It rests on `ScopeInv`, inductive together with `IInv`:

- `AuthorityKeepsScope` and `FailedAreClaimed`: while the controller is open a generation with
  authority has an open Scope unless it failed, and exactly those that failed were claimed by a
  close. So when a pass claims what it retires, an unclaimed Scope is still open.
- `DoneIsClosed`: the deferred of a dedicated close completes only with the last finalizer. This
  needs the previous two: a close that found its Scope claimed by somebody else would return at
  once, and its deferred would prove nothing.
- `ClosedIsQuiet`: beneath a closed Scope nothing runs, except beneath a child with a close of
  its own. The exception is the one `ownedSubtree` makes, so `SubtreeIsFinalized`
  concludes that what a stop fiber forgets has all been finalized.
- `UntrackedHasNoScope`: a fresh generation starts from nothing.

`DrainingIsCovered` is inductive given `ClosedIsEmpty`. Its two interesting steps are a pass, which
gives every retired generation a stop fiber or leaves it to an owner it retires too, and
`StopForgets`, which drops a generation only with all the children it covers
(`StopForgetsKeepsCover`): no child is left waiting for a close that has already been forgotten.

The third part is what passes are for:

- `ControllerImplementsLifetimes`: `Spec => ImplementsLifetimes`. The mapping needs one more fact
  than `IInv` and `ScopeInv`, `UntrackedIsIdle`: a token that names no generation has no startup
  running, so a new lifetime starts by holding nothing it did not acquire. Each action is then a
  step of `Lifetimes` or a stutter (`NextRefines`). The hard ones are `ReconcilePass` (Phase A retires
  a set closed under what stands on it, which is `InvalidateIsClosed`, and Phase B binds only what
  Phase A left running, `TrackedFields`) and `StopForgets`, which `SubtreeIsFinalized` shows to find
  nothing held.
- `NoChangeIsLost`, `NothingToDoUnlessOwed`: every step either leaves alone what passes read, is a
  pass, closes the controller, or asks for a pass, at once or through the stop fiber that forgot
  something (`StepsAsk`). A pass leaves nothing to do (`PassAdmitsAll`).
- `BackoffsAreCounted`: `BackoffInv` adds `SleepFollowsFailure`, no backoff sleeps for a generation
  that has not failed.
- `CompletionDecidesAsPass`: what `startupIsAuthoritative` accepts, looking down from one Starting
  generation, is what `invalidate` leaves, cascading up from all that is no longer desired.

Its last two parts are about what runs beside a controller, and begin with `NestedSpec => Spec` and
`BarrierSpec => Spec`, so that every theorem above holds of a controller that hosts others or is
watched. `ChildFollows` follows from `NestedInv`: what a follower has yet to take is a queue whose last
element is what its host was handed last. The barrier adds `OwingInv` and `LatchInv`:

- `OwedIsComing`: while a pass is owed the loop has been woken, or is about to run.
- `PendingIsCleaned`: somebody waits for the close of every startup that failed.
- `OwnersGround`: ownership has no cycle, so that above whatever drains there is a root, and
  `DrainingIsCovered` gives it a stop fiber (`DrainingHasFiber`).
- `WaiterInv`: if all has settled while somebody waits on a closed latch, then a stop fiber or a cleanup
  is about to wake the loop.

`QuietStep` is the common step: one after which nothing is owed, and that is no pass, lets a close
complete, lets a stop fiber forget, or changes nothing a pass reads. A pass may still be due when the
latch opens; it then finds nothing to do and leaves all settled (`IdlePassSettles`), and the latch open.
When the last thing in flight ends, who ended it has yet to wake the loop (`SettlingStirs`).

`DefinitionProofs`, for any number of declarations, requirements and entries
(`DefinitionAssumption` only gives their types): `MadeIffWellDeclared` and `AcceptedIsWellFormed`.

- The compiler decides by comparing chains, the reference by the families above. A chain's elements are
  the families above and its end (`PathsGrow`, `ChainEnds`), and what is a prefix of a chain is the chain of a
  family on it (`PrefixIsAbove`); so `IsPrefix` asks whether a provider is above.
- `DeclarationIsRight`: given the right chains of the families before it, the first error in a
  declaration is absent exactly if the declaration `Fits`.
- `CompileIs`: what has been compiled after n families is either the compiled form of n families that all
  fit, or the first error. Stages are numbered, and `FromBelow` takes a claim about all of them from
  a least counterexample.
- `BindingIs`: after the entries are found right, one selector for each family is what is left to ask.
- `AcceptedTopology`, `AcceptedArrives`: an accepted Definition meets what `TopologyAssumption` says of
  families and requirements, so what is proved of the controller is proved of every Definition that
  `make` starts one on; and each compiled requirement leads `resolveProvider` to its provider or to
  its owner.

`EvaluationProofs`, for every compiled Definition, set of states and selectors within
`SelectorAssumption`, and any number of callers. The reference, `Desires`, looks at an identity from its
own chain, without order, memory or bookkeeping. `EvalInv` conjoins `EvaluationIsPure`, the like for what
is published, and `MemoryIsSound`: each memo is what some state's `deps` and selector answered for that
very owner.

- `AskIs`: over a sound memory, reuse is invisible. If `deps` agrees with the memo's, so do the keys and
  the identities built from them, whichever state the memo is from.
- `Stage` says what holds between two questions: either an error was met, and the state is not
  acceptable; or `Built`: the nodes are exactly what is `Below` the owners asked about so far, once each, owners
  first. A duplicate can only come from the answer itself: what is below two owners, or of two
  families, differs (`AcceptKeeps`). `ByStages` carries it along the two loops.
- `FamilyDesires`: the desired identities of a family are what is below its owners, which is why the
  nodes of earlier families are all the owners a later one has (`OwnersListed`).
- `PruneKeeps`: every visited owner has a memo, so a memory no larger than the visited owners holds
  just those, and the condition on the sweep loses nothing.
- `DesiresCohere`: in what a state desires every owner is there and slots are not contended.

With `PublishedAlwaysCoherent` the chain is closed: the compiler accepts what `Topology` assumes
(`DefinitionProofs`), evaluation publishes what is coherent, and `ControllerProofs` takes it from there.

`MirrorProofs`, for every set of refs and components and any number of commits and retries.
`MirrorInv` conjoins the three invariants of the run with `Serialized` (one flush at a time, holding
what it took until it has read), `StatesInOrder` (the pending state is the newest, one being committed
is newer than the last), from which `CommitsNeverRollBack` follows, and `ReadingIsTraced`: what moves
between a flush's reading and its being applied leaves a movement, a signal or a fiber that is due; `NothingUnsaid` says that a movement counts
for that, since none is left without its signal by a controller that is closed.

`FoldkitProofs`: a message ends with the supervisor at rest (`SupervisorSettles`) and the driver in
line with the Model (`SyncBringsInLine`), whatever both held before. `FoldkitInv` says this
of every state, except that a start which is stale when it completes leaves a stop under way
instead, and the end of that stop runs the supervisor.

`KernelProofs`: `TypeOK`, `SequentialUnderOneOwner`, `ConvergedIsConverged` and the refinement of
`Lifetimes`, for every tree of
identities (`KernelAssumption` says that none is its own ancestor: an identity is interned beneath its owner's)
and every set of desired lists. `KernelInv` adds:

- `Sound`: the fields of one generation agree (a running one's Scope is open and unclaimed; one that
  is forgotten but still closing is being closed by its owner).
- `Remembers`, `OwnersRun`: `all` names each generation with a status once, and who has authority
  stands on an owner that runs and precedes it.
- `ClosesUnderOwner`: what an owner's close has reached is closed before the owner.
- `HasRoom`: the tokens for what a pass under way may admit are there.

A slot waits for what the kernel remembers, but a child may be forgotten while its owner's close
still releases it; then `ClosesUnderOwner` makes that owner one that closes, and `admissible` asks
for one that runs (`SlotIsEmpty`). The other half is that the sweep of a pass takes what it retires
together with what stands on it, which is why it must go in order of admission
(`SweepTakesWhatItCarried`). Both loops, the sweep and the admission, are recursive functions; what
holds of every stage of a loop is proved from a least stage that violates it (`AllAlong`,
`LoopRuns`), where an induction rule would need an operator as a parameter.

`ConvergedIsConverged` needs `IdleInv`, which says why nothing is left to do:

- `Tidy`: one generation of an identity has authority; its providers run and precede it, as its owner
  does; a startup runs in a Scope that is not closed; a failed generation is released by a close of its
  own, which is pending until then.
- `AtomsTell`: each status Atom is what `readStatus` would compute.
- `SweptClean`: between the sweep of a pass and its admissions, unless desire has been written
  meanwhile, what has authority matches desire. One sweep is enough because what a generation is
  compared with comes before it and has been decided (`SweepLeavesMatches`).
- `Settled`: while the latch is open nothing remembered moves, and a pass would change nothing.

What is forgotten is not in `all`, so `settledWith` does not look at it; but a Scope its owner's close
has reached has an ancestor that is closing and still remembered, which `settledWith` does see
(`RestIsQuiet`).

`KernelKeepsLifetimes`: `Spec => KernelImplementsLifetimes`, from the same `IdleInv`. A pass is two
steps of `Lifetimes`. The sweep retires a set that is closed under what stands on it: owners by
`SweepTakesWhatItCarried`, providers by `SweepTakesWhatItProvidedFor`, and transitively because each
is compared with what the sweep has left of those before it. The admissions find what they stand on
running (`AdmissibleStands`) and their slots empty, of each other too (`OneToASlot`). An overtaken
startup and a retried failure are retired alone, since nothing stands on a generation that never ran
(`OwnersRun`, `ProvidersRun`). A startup that ends late and a close that returns are stutters.

`ClosingProofs` has the part of that argument that is not `Kernel`'s own, stated for `Closing`: an
invariant of generations and their closes (`ClosingInv`: `Sound`, a variant of `Tidy` called `Kempt`,
`Remembers`, `OwnersRun`, `ProvidersRun`, `ClosesUnderOwner`), four kinds of step that keep it, and
what of `Lifetimes` each kind implements. A close goes on (`Closings`), startups end or generations
are retired (`Turns`), a stop fiber forgets (`Forgets`), a pass starts some (`Starts`).

`EditorProofs` adds what six hand-written families need, for every set of identities, Models and bounds:

- `Places`, `Placed`: each variable or map entry of the source has at most one holder, which stands on
  the generations that its identity and the families say.
- `Matched`: an open runtime that owes no pass has nothing a pass would retire. The six sweeps end
  where a single look at the final state would (`SweptIs`), because each family is compared only
  with families swept before it; the order of the source is what makes one round enough.
- `Complete`: once nothing moves and no pass is owed, nothing that desire names could start.

`SettledAlwaysMatchesModel` puts them together. By `Matched` what is remembered is of the Model
(`SettledIsOf`), once each (`OneToAnIdentity`). By `Complete` what the Model asks for on a running basis
is there (`WantedIsThere`), from the roots down: a name whose place is empty, whose slot nothing drains
in and whose basis runs would have been startable. `EditorKeepsLifetimes` takes each kind of step from
`ClosingProofs` and adds that slots are exclusive (`PassAdmitsAlone`): a slot is asked for again while
it is filled, and two names of one pass never share one (`SlotsAreDistinct`).

What stays with TLC:

- liveness and everything under fairness, and `IdleReturns`, which is about `ENABLED`: out of the
  prover's reach;
- the counterexamples.

## 5. Not modelled, and the plan

Not modelled, and why:

- `run`, `runDocument`: they fork the caller's Effect into a generation's Scope under the mutex and
  change no state of a runtime; the close of that Scope interrupts it like a startup.
- Events, diagnostics other than `settled`, the failure stream: nothing reads them back.
- `Foldkit`: subscriptions, diagnostics messages and the end of a session; `after/app.ts` is an
  application of the Reconciler.
- `experiments/layer-atom/direct.ts` leaves lifetimes to the Atom library, whose source is not in the
  repository; `rebase/editor.ts` and `examples/editor.ts` declare applications; the CLI and devtools
  are sequential clients.
- Tests, benchmarks and scripts are not part of the runtime.

Every safety invariant and action property that a run checks has a theorem, except `IdleReturns`. What
would say most next: a composition of `Evaluation` with `Controller`, so that the snapshots committed
are those an evaluation publishes and not just any of `Desire`; and more of `Foldkit`, whose driver
has subscriptions that are not modelled.
