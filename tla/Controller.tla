----------------------------- MODULE Controller -----------------------------
(***************************************************************************)
(* The serialized controller state machine: commits, reconcile passes,     *)
(* startup completions, finalization, retry, supervision and shutdown.     *)
(*                                                                         *)
(* Every section the code runs under its mutex is one action.  The fibers  *)
(* that run outside the mutex - a generation's startup and the fiber       *)
(* waiting on it, the closes, the backoff timers, the reconcile loop -     *)
(* have state of their own and interleave with it freely.                  *)
(***************************************************************************)
EXTENDS LiveState

CONSTANTS
  Desire,        \* the snapshots the application commits
  Retryable,     \* the identities the application calls Controller.retry for
  MaxRestarts,   \* attempts a restart schedule offers before it is done
  MayShutdown    \* whether the application shuts the controller down

ASSUME ControllerAssumption ==
  /\ Desire \subseteq DesiredSnapshot
  /\ Retryable \subseteq Ident
  /\ MaxRestarts \in Nat
  /\ MayShutdown \in BOOLEAN

VARIABLES
  phase,        \* of shutdown: open; closing; forgotten; closed
  desired,      \* the published snapshot
  matched,      \* generations matched to their node of this very snapshot
  live,         \* the LiveState record
  scope,        \* a generation's Scope: none, open, closing, closed
  closing,      \* its `closing` deferred: none, pending, done
  start,        \* its startup: none, running, or the exit being delivered
  cleanup,      \* is a failed startup's close fiber in flight?
  stop,         \* its stop fiber: none, closing, wake (forgotten, wake due)
  timer,        \* is a backoff asleep for it?
  supervisors,  \* attempts the backoff of an identity has consumed
  seen,         \* the projection it was last handed
  outOfBand,    \* retiredOutOfBand
  loop,         \* the reconcile loop: waiting, due (latch closed), dead
  wake,         \* the latch: is it open?
  owed          \* wakeVersion # reconciledVersion

scopes == <<scope, closing>>
fibers == <<start, cleanup, stop, timer>>
loops == <<loop, wake, owed>>
vars == <<phase, desired, matched, live, scopes, fibers, supervisors, seen,
          outOfBand, loops>>

NotStarted == 0   \* no supervisor entry: nothing consumed, nothing remembered

TypeOK ==
  /\ phase \in {"open", "closing", "forgotten", "closed"}
  /\ desired \in Desire \cup {EmptySnapshot}
  /\ matched \subseteq Gen
  /\ live \in LiveState
  /\ scope \in [Gen -> {"none", "open", "closing", "closed"}]
  /\ closing \in [Gen -> {"none", "pending", "done"}]
  /\ start \in [Gen -> {"none", "running", "succeeded", "failed"}]
  /\ cleanup \in [Gen -> BOOLEAN]
  /\ stop \in [Gen -> {"none", "closing", "wake"}]
  /\ timer \in [Gen -> BOOLEAN]
  /\ supervisors \in [Ident -> 0..MaxRestarts + 1]
  /\ seen \in [Gen -> Projection \cup {NoProjection}]
  /\ outOfBand \subseteq Gen
  /\ loop \in {"waiting", "due", "dead"}
  /\ wake \in BOOLEAN
  /\ owed \in BOOLEAN

Init ==
  /\ phase = "open"
  /\ desired = EmptySnapshot
  /\ matched = {}
  /\ live = makeLiveState
  /\ scope = [g \in Gen |-> "none"]
  /\ closing = [g \in Gen |-> "none"]
  /\ start = [g \in Gen |-> "none"]
  /\ cleanup = [g \in Gen |-> FALSE]
  /\ stop = [g \in Gen |-> "none"]
  /\ timer = [g \in Gen |-> FALSE]
  /\ supervisors = [i \in Ident |-> NotStarted]
  /\ seen = [g \in Gen |-> NoProjection]
  /\ outOfBand = {}
  /\ loop = "waiting"
  /\ wake = FALSE
  /\ owed = FALSE

wakeUp ==
  /\ owed' = TRUE
  /\ wake' = TRUE
  /\ UNCHANGED loop

-----------------------------------------------------------------------------
(***************************************************************************)
(* Closing a generation's Scope.  A dedicated close claims the Scope if it *)
(* is still open; on one that another close has claimed Scope.close        *)
(* returns at once, and the deferred completes with nothing awaited.  A    *)
(* generation with a dedicated close in flight is not claimed twice.       *)
(***************************************************************************)
closingAfter(S) ==
  [g \in Gen |-> IF g \in S /\ closing[g] = "none"
                   THEN IF scope[g] = "open" THEN "pending" ELSE "done"
                   ELSE closing[g]]
scopeAfter(S) ==
  [g \in Gen |-> IF g \in S /\ closing[g] = "none" /\ scope[g] = "open"
                   THEN "closing" ELSE scope[g]]
closeInstance(S) ==
  /\ closing' = closingAfter(S)
  /\ scope' = scopeAfter(S)

beginStop(S) ==
  /\ closeInstance(S)
  /\ stop' = [g \in Gen |-> IF g \in S THEN "closing" ELSE stop[g]]

\* Mutated: the owner's close is taken to cover every child.
ownedSubtree_Whole(g) ==
  { h \in All(live) :
      \A R \in SUBSET All(live) :
        g \in R /\ (\A r \in R : live.children[r] \subseteq R) => h \in R }
\* The part of the subtree whose finalization g's close covers: the least set
\* that contains g and the children of its members with no dedicated close.
ownedSubtree(g) ==
  { h \in All(live) :
      \A R \in SUBSET All(live) :
        /\ g \in R
        /\ \A r \in R : {c \in live.children[r] : closing[c] = "none"} \subseteq R
        => h \in R }

settled ==
  /\ \A g \in All(live) :
       /\ live.status[g] \notin {"starting", "stopping"}
       /\ closing[g] # "pending"
  /\ \A s \in Slot : live.retiring[s] = {}

\* A controller that is closing counts as quiescent, vacuously.
quiescent == phase # "open" \/ (~owed /\ settled)

-----------------------------------------------------------------------------
(***************************************************************************)
(* The decisions of a pass over the live state L and the published desire. *)
(***************************************************************************)
Wanted == DOMAIN desired

\* The generation a requirement on p resolves to now, if it has one.
resolveProvider(L, i, p) ==
  {L.currentByIdent[j] : j \in Candidates(Wanted, i, p)} \ {NoGen}

CurrentOwner(L, i) == IF IsRoot(i) THEN NoGen ELSE L.currentByIdent[Parent(i)]
CurrentProviders(L, i) ==
  UNION {resolveProvider(L, i, p) : p \in Requires[FamilyOf(i)]}

\* invalidate: generations whose desire is withdrawn, and everything below
\* them and below the seeds along the owner and provider edges.
Withdrawn == {g \in Authority(live) : g \notin matched /\ IdentOf(g) \notin Wanted}
\* Mutated: invalidity does not travel to dependents.
Cascades_NotToDependents(R) ==
  /\ Withdrawn \subseteq R
  /\ \A h \in R \cup outOfBand : live.children[h] \cap Authority(live) \subseteq R
Cascades(R) ==
  /\ Withdrawn \subseteq R
  /\ \A h \in R \cup outOfBand :
       (live.children[h] \cup live.dependents[h]) \cap Authority(live) \subseteq R
invalidate ==
  {g \in Authority(live) : \A R \in SUBSET Authority(live) : Cascades(R) => g \in R}

\* Mutated: a draining generation does not hold a sequential slot.
admissible_IgnoresDraining(L, i) ==
  /\ IsRoot(i) \/ /\ CurrentOwner(L, i) # NoGen
                  /\ L.status[CurrentOwner(L, i)] = "running"
  /\ L.current[SlotIdent(i)] = NoGen
  /\ \A p \in Requires[FamilyOf(i)] :
       /\ resolveProvider(L, i, p) # {}
       /\ \A h \in resolveProvider(L, i, p) : L.status[h] = "running"
\* Mutated: an owner that is current need not be Running.
admissible_CurrentOwner(L, i) ==
  /\ IsRoot(i) \/ CurrentOwner(L, i) # NoGen
  /\ L.current[SlotIdent(i)] = NoGen
  /\ FamilyOf(i) \in Overlap \/ L.retiring[SlotIdent(i)] = {}
  /\ \A p \in Requires[FamilyOf(i)] :
       /\ resolveProvider(L, i, p) # {}
       /\ \A h \in resolveProvider(L, i, p) : L.status[h] = "running"
\* admissible: owner current and Running, the slot free under the replacement
\* policy, every provider current and Running.
admissible(L, i) ==
  /\ IsRoot(i) \/ /\ CurrentOwner(L, i) # NoGen
                  /\ L.status[CurrentOwner(L, i)] = "running"
  /\ L.current[SlotIdent(i)] = NoGen
  /\ FamilyOf(i) \in Overlap \/ L.retiring[SlotIdent(i)] = {}
  /\ \A p \in Requires[FamilyOf(i)] :
       /\ resolveProvider(L, i, p) # {}
       /\ \A h \in resolveProvider(L, i, p) : L.status[h] = "running"

\* Nothing refers to the token any more, so it may name a fresh generation.
Unused(g) ==
  /\ live.status[g] = "none"
  /\ live.children[g] = {}
  /\ live.dependents[g] = {}
  /\ start[g] = "none"
  /\ ~cleanup[g]
  /\ stop[g] = "none"
  /\ ~timer[g]

\* startupIsAuthoritative: g, and by recursion its owner and providers, are
\* current, desired, and bound to what their requirements resolve to now.
BoundAsDesired(g) ==
  LET i == IdentOf(g) IN
  /\ live.status[g] \in {"starting", "running"}
  /\ live.currentByIdent[i] = g
  /\ i \in Wanted
  /\ live.owner[g] = CurrentOwner(live, i)
  /\ IsRoot(i) \/ live.owner[g] # NoGen
  /\ \A p \in Requires[FamilyOf(i)] :
       \E h \in resolveProvider(live, i, p) : h \in live.providers[g]
\* Mutated: only the generation itself is checked, not what it stands on.
startupIsAuthoritative_Shallow(g) == BoundAsDesired(g)
startupIsAuthoritative(g) ==
  \E S \in SUBSET Authority(live) :
    /\ g \in S
    /\ \A h \in S : /\ BoundAsDesired(h)
                    /\ {live.owner[h]} \ {NoGen} \subseteq S
                    /\ live.providers[h] \subseteq S

-----------------------------------------------------------------------------
(***************************************************************************)
(* The application: commit, retry, shutdown.                               *)
(***************************************************************************)

\* Mutated: the revision is not advanced; the snapshot is merged, not replaced.
Commit_SameRevision(d) ==
  /\ phase = "open"
  /\ desired' = d
  /\ wakeUp
  /\ UNCHANGED <<phase, matched, live, scopes, fibers, supervisors, seen, outOfBand>>
Commit_Merges(d) ==
  /\ phase = "open"
  /\ desired' = d @@ desired
  /\ matched' = {}
  /\ wakeUp
  /\ UNCHANGED <<phase, live, scopes, fibers, supervisors, seen, outOfBand>>
\* commit, on entry into the publication region.
Commit(d) ==
  /\ phase = "open"
  /\ desired' = d
  /\ matched' = {}
  /\ wakeUp
  /\ UNCHANGED <<phase, live, scopes, fibers, supervisors, seen, outOfBand>>

\* The retirement retry and a fired backoff share, between two passes.
RetireOutOfBand(g) ==
  /\ live' = retire(live, {g})
  /\ matched' = matched \ {g}
  /\ outOfBand' = outOfBand \cup {g}
  /\ beginStop({g})
  /\ wakeUp

Retry(i) ==
  LET g == live.currentByIdent[i] IN
  /\ phase = "open"
  /\ g # NoGen
  /\ live.status[g] = "failed"
  /\ i \in Wanted
  /\ RetireOutOfBand(g)
  /\ supervisors' = [supervisors EXCEPT ![i] = NotStarted]
  /\ UNCHANGED <<phase, desired, start, cleanup, timer, seen>>

\* shutdown's first section: every generation is retired, none is replaced.
BeginShutdown ==
  /\ phase = "open"
  /\ phase' = "closing"
  /\ desired' = EmptySnapshot
  /\ matched' = {}
  /\ live' = retire(live, Authority(live))
  /\ supervisors' = [i \in Ident |->
       IF \E g \in Authority(live) : IdentOf(g) = i THEN NotStarted ELSE supervisors[i]]
  /\ UNCHANGED <<scopes, fibers, seen, outOfBand, loops>>

\* Mutated: shutdown does not await the stop fibers in flight.
ShutdownForgets_Early ==
  /\ phase = "closing"
  /\ loop = "dead"
  /\ \A g \in Gen : start[g] # "running"
  /\ \A g \in All(live) : scope[g] = "closed"
  /\ phase' = "forgotten"
  /\ live' = forget(live, All(live))
  /\ scope' = [g \in Gen |-> "none"]
  /\ closing' = [g \in Gen |-> "none"]
  /\ start' = [g \in Gen |-> "none"]
  /\ timer' = [g \in Gen |-> FALSE]
  /\ seen' = [g \in Gen |-> NoProjection]
  /\ UNCHANGED <<desired, matched, cleanup, stop, supervisors, outOfBand, loops>>

\* Its second section, once the root Scope's close has awaited every
\* generation's Scope, every stop and cleanup fiber, and the loop.
ShutdownForgets ==
  /\ phase = "closing"
  /\ loop = "dead"
  /\ \A g \in Gen : stop[g] = "none" /\ ~cleanup[g] /\ start[g] # "running"
  /\ \A g \in All(live) : scope[g] = "closed"
  /\ phase' = "forgotten"
  /\ live' = forget(live, All(live))
  /\ scope' = [g \in Gen |-> "none"]
  /\ closing' = [g \in Gen |-> "none"]
  /\ start' = [g \in Gen |-> "none"]
  /\ timer' = [g \in Gen |-> FALSE]
  /\ seen' = [g \in Gen |-> NoProjection]
  /\ UNCHANGED <<desired, matched, cleanup, stop, supervisors, outOfBand, loops>>

\* Mutated: nothing is signalled after the close.
ShutdownSignals_Silent ==
  /\ phase = "forgotten"
  /\ phase' = "closed"
  /\ UNCHANGED <<desired, matched, live, scopes, fibers, supervisors, seen, outOfBand, loops>>

\* Its last step, the only signal for what the close itself moved.
ShutdownSignals ==
  /\ phase = "forgotten"
  /\ phase' = "closed"
  /\ live' = [live EXCEPT !.moved = FALSE]
  /\ UNCHANGED <<desired, matched, scopes, fibers, supervisors, seen, outOfBand, loops>>

-----------------------------------------------------------------------------
(***************************************************************************)
(* Startup.                                                                *)
(***************************************************************************)

\* The start Effect ends: by itself, or interrupted by the Scope's close.
StartExits(g, exit) ==
  /\ start[g] = "running"
  /\ start' = [start EXCEPT ![g] = exit]
  /\ UNCHANGED <<phase, desired, matched, live, scopes, cleanup, stop, timer,
                 supervisors, seen, outOfBand, loops>>

\* Mutated: the supervisor entry is not stored.
superviseFailure_Forgets(g) ==
  /\ timer' = [timer EXCEPT ![g] = FamilyOf(IdentOf(g)) \in Restarting]
  /\ UNCHANGED supervisors

\* superviseFailure: consume one attempt of the identity's backoff, and sleep
\* unless the schedule is done.
superviseFailure(g) ==
  LET i == IdentOf(g)
      attempt == IF supervisors[i] > MaxRestarts THEN supervisors[i] ELSE supervisors[i] + 1
  IN IF FamilyOf(i) \in Restarting
       THEN /\ supervisors' = [supervisors EXCEPT ![i] = attempt]
            /\ timer' = [timer EXCEPT ![g] = attempt <= MaxRestarts]
       ELSE UNCHANGED <<supervisors, timer>>

\* onStartupDone.  Each alternative is one way the mutexed section can end; an
\* exit that is authoritative is also still desired.
StartupIsLate(g) ==
  /\ phase # "open" \/ live.status[g] # "starting"
  /\ UNCHANGED <<live, scopes, cleanup, timer, supervisors, loops>>
StartupIsSuperseded(g) ==
  /\ phase = "open" /\ live.status[g] = "starting"
  /\ ~startupIsAuthoritative(g)
  /\ wakeUp
  /\ UNCHANGED <<live, scopes, cleanup, timer, supervisors>>
\* Mutated: the loop is not woken.
StartupSucceeds_Silent(g) ==
  /\ phase = "open" /\ live.status[g] = "starting"
  /\ startupIsAuthoritative(g)
  /\ start[g] = "succeeded"
  /\ live' = concludeStartup(live, g, "running")
  /\ supervisors' = [supervisors EXCEPT ![IdentOf(g)] = NotStarted]
  /\ UNCHANGED <<scopes, cleanup, timer, loops>>
StartupSucceeds(g) ==
  /\ phase = "open" /\ live.status[g] = "starting"
  /\ startupIsAuthoritative(g)
  /\ start[g] = "succeeded"
  /\ live' = concludeStartup(live, g, "running")
  /\ supervisors' = [supervisors EXCEPT ![IdentOf(g)] = NotStarted]
  /\ wakeUp
  /\ UNCHANGED <<scopes, cleanup, timer>>
\* Mutated: the loop is woken only once the failed startup is cleaned up.
StartupFails_WakesLate(g) ==
  /\ phase = "open" /\ live.status[g] = "starting"
  /\ startupIsAuthoritative(g)
  /\ start[g] = "failed"
  /\ live' = concludeStartup(live, g, "failed")
  /\ closeInstance({g})
  /\ cleanup' = [cleanup EXCEPT ![g] = TRUE]
  /\ superviseFailure(g)
  /\ UNCHANGED loops
StartupFails(g) ==
  /\ phase = "open" /\ live.status[g] = "starting"
  /\ startupIsAuthoritative(g)
  /\ start[g] = "failed"
  /\ live' = concludeStartup(live, g, "failed")
  /\ closeInstance({g})
  /\ cleanup' = [cleanup EXCEPT ![g] = TRUE]
  /\ superviseFailure(g)
  /\ wakeUp

OnStartupDone(g) ==
  /\ start[g] \in {"succeeded", "failed"}
  /\ \/ StartupIsLate(g)
     \/ StartupIsSuperseded(g)
     \/ StartupSucceeds(g)
     \/ StartupFails(g)
  /\ start' = [start EXCEPT ![g] = "none"]
  /\ UNCHANGED <<phase, desired, matched, stop, seen, outOfBand>>

\* A failed startup's close has returned: wake the loop.  The generation may
\* have been forgotten meanwhile by a stop fiber that awaited the same close.
CleanupWakes(g) ==
  /\ cleanup[g]
  /\ closing[g] # "pending"
  /\ cleanup' = [cleanup EXCEPT ![g] = FALSE]
  /\ wakeUp
  /\ UNCHANGED <<phase, desired, matched, live, scopes, start, stop, timer,
                 supervisors, seen, outOfBand>>

\* A backoff wakes.  It re-checks the exact generation it slept for.
TimerFires(g) ==
  /\ timer[g]
  /\ timer' = [timer EXCEPT ![g] = FALSE]
  /\ \/ /\ phase = "open"
        /\ live.currentByIdent[IdentOf(g)] = g
        /\ live.status[g] = "failed"
        /\ IdentOf(g) \in Wanted
        /\ RetireOutOfBand(g)
     \/ /\ \/ phase # "open"
           \/ live.currentByIdent[IdentOf(g)] # g
           \/ live.status[g] # "failed"
           \/ IdentOf(g) \notin Wanted
        /\ UNCHANGED <<live, matched, outOfBand, scopes, stop, loops>>
  /\ UNCHANGED <<phase, desired, start, cleanup, supervisors, seen>>

-----------------------------------------------------------------------------
(***************************************************************************)
(* Finalization.                                                           *)
(***************************************************************************)

\* The close of an owner's Scope (or of the root Scope) reaches the Scope of a
\* child that no other close has claimed.
OwnerClosesChild(g) ==
  /\ scope[g] = "open"
  /\ IF live.owner[g] = NoGen THEN phase = "closing"
                              ELSE scope[live.owner[g]] = "closing"
  /\ scope' = [scope EXCEPT ![g] = "closing"]
  /\ UNCHANGED <<phase, desired, matched, live, closing, fibers, supervisors, seen,
                 outOfBand, loops>>

\* Its last finalizer has run: the startup was interrupted and awaited, and so
\* was the Scope of every child but those another close had claimed.
FinalizersRun(g) ==
  /\ scope[g] = "closing"
  /\ start[g] # "running"
  /\ \A c \in live.children[g] : scope[c] = "closed" \/ closing[c] # "none"
  /\ scope' = [scope EXCEPT ![g] = "closed"]
  /\ closing' = [closing EXCEPT ![g] = IF closing[g] = "pending" THEN "done" ELSE closing[g]]
  /\ UNCHANGED <<phase, desired, matched, live, fibers, supervisors, seen, outOfBand, loops>>

\* A stop fiber drops the bookkeeping its close covered, under the mutex ...
StopForgets(g) ==
  LET gone == ownedSubtree(g) IN
  /\ stop[g] = "closing"
  /\ closing[g] = "done"
  /\ live' = forget(live, gone)
  /\ scope' = [h \in Gen |-> IF h \in gone THEN "none" ELSE scope[h]]
  /\ closing' = [h \in Gen |-> IF h \in gone THEN "none" ELSE closing[h]]
  /\ seen' = [h \in Gen |-> IF h \in gone THEN NoProjection ELSE seen[h]]
  /\ stop' = [stop EXCEPT ![g] = "wake"]
  /\ UNCHANGED <<phase, desired, matched, start, cleanup, timer, supervisors,
                 outOfBand, loops>>

\* Mutated: finalization does not wake the loop.
StopWakes_Silent(g) ==
  /\ stop[g] = "wake"
  /\ stop' = [stop EXCEPT ![g] = "none"]
  /\ UNCHANGED <<phase, desired, matched, live, scopes, start, cleanup, timer,
                 supervisors, seen, outOfBand, loops>>

\* ... and wakes the loop after releasing it.
StopWakes(g) ==
  /\ stop[g] = "wake"
  /\ stop' = [stop EXCEPT ![g] = "none"]
  /\ wakeUp
  /\ UNCHANGED <<phase, desired, matched, live, scopes, start, cleanup, timer,
                 supervisors, seen, outOfBand>>

-----------------------------------------------------------------------------
(***************************************************************************)
(* The reconcile loop: closes the latch, then runs one pass under the      *)
(* mutex, to completion.                                                   *)
(***************************************************************************)
LoopWakes ==
  /\ loop = "waiting"
  /\ wake
  /\ loop' = "due"
  /\ wake' = FALSE
  /\ UNCHANGED <<phase, desired, matched, live, scopes, fibers, supervisors, seen,
                 outOfBand, owed>>

\* Mutated: only the roots of what is retired get a close of their own.
ownStops_RootsOnly(retired) == {g \in retired : live.owner[g] \notin retired}

\* The generations a pass gives a close of their own: the roots of what it
\* retires, and those whose dedicated close an ancestor's would not await.
ownStops(retired) ==
  {g \in retired : live.owner[g] \notin retired \/ closing[g] # "none"}

\* The desired identities a pass admits once the obsolete have been retired.
admissions(L, kept) ==
  {i \in Wanted : i \notin {IdentOf(g) : g \in kept} /\ admissible(L, i)}

\* Phase A, the closes it starts, the republished projections, then Phase B.
\* No slot is desired twice and a generation just admitted is not Running, so
\* admitting in topological order admits exactly these together.
ReconcilePass ==
  LET retired == invalidate
      drained == retire(live, retired)
      kept == Authority(live) \ retired
      admitted == admissions(drained, kept)
      admit == [i \in admitted |-> CHOOSE g \in Gen : Unused(g) /\ IdentOf(g) = i]
      fresh == {admit[i] : i \in admitted}
  IN
  /\ phase = "open"
  /\ loop = "due"
  /\ \A i \in admitted : \E g \in Gen : Unused(g) /\ IdentOf(g) = i  \* bound: Incarnation
  /\ live' = [track(drained, admit,
                    [i \in admitted |-> CurrentOwner(drained, i)],
                    [i \in admitted |-> CurrentProviders(drained, i)])
              EXCEPT !.moved = FALSE]
  /\ matched' = kept \cup fresh
  /\ closing' = closingAfter(ownStops(retired))
  /\ scope' = [g \in Gen |-> IF g \in fresh THEN "open"
                             ELSE scopeAfter(ownStops(retired))[g]]
  /\ stop' = [g \in Gen |-> IF g \in ownStops(retired) THEN "closing" ELSE stop[g]]
  /\ start' = [g \in Gen |-> IF g \in fresh THEN "running" ELSE start[g]]
  /\ seen' = [g \in Gen |-> IF g \in kept \cup fresh THEN desired[IdentOf(g)] ELSE seen[g]]
  /\ supervisors' = [i \in Ident |->
       IF \E g \in retired : IdentOf(g) = i THEN NotStarted ELSE supervisors[i]]
  /\ outOfBand' = {}
  /\ loop' = "waiting"
  /\ owed' = FALSE
  /\ UNCHANGED <<phase, desired, cleanup, timer, wake>>

\* A pass that finds the controller closed still accounts for itself.
ClosedPass ==
  /\ phase # "open"
  /\ loop = "due"
  /\ loop' = "waiting"
  /\ owed' = FALSE
  /\ live' = [live EXCEPT !.moved = FALSE]
  /\ UNCHANGED <<phase, desired, matched, scopes, fibers, supervisors, seen, outOfBand, wake>>

\* Mutated: the loop cannot be interrupted while it waits on the latch.
LoopInterrupted_OnlyDue ==
  /\ phase = "closing"
  /\ loop = "due"
  /\ loop' = "dead"
  /\ UNCHANGED <<phase, desired, matched, live, scopes, fibers, supervisors, seen,
                 outOfBand, wake, owed>>

\* The root Scope's close interrupts the loop wherever it waits.
LoopInterrupted ==
  /\ phase = "closing"
  /\ loop # "dead"
  /\ loop' = "dead"
  /\ UNCHANGED <<phase, desired, matched, live, scopes, fibers, supervisors, seen,
                 outOfBand, wake, owed>>

-----------------------------------------------------------------------------
Application ==
  \/ \E d \in Desire : Commit(d)
  \/ \E i \in Retryable : Retry(i)
  \/ MayShutdown /\ BeginShutdown

\* The user's own Effects: a startup that ends of its own accord.
Startup ==
  \E g \in Gen, exit \in {"succeeded", "failed"} : StartExits(g, exit)

Runtime ==
  \/ \E g \in Gen : \/ OnStartupDone(g)
                     \/ CleanupWakes(g)
                     \/ TimerFires(g)
                     \/ OwnerClosesChild(g)
                     \/ FinalizersRun(g)
                     \/ StopForgets(g)
                     \/ StopWakes(g)
  \/ LoopWakes \/ ReconcilePass \/ ClosedPass \/ LoopInterrupted
  \/ ShutdownForgets \/ ShutdownSignals

\* Nothing is left to do once shutdown has completed.
Terminated == phase = "closed" /\ UNCHANGED vars

Next == Application \/ Startup \/ Runtime \/ Terminated

Spec == Init /\ [][Next]_vars

(***************************************************************************)
(* Fairness.  Effect's scheduler runs every fiber that can run, and the    *)
(* mutex serves its waiters in order, so each of the runtime's own steps   *)
(* is weakly fair; so is the interruption a closing Scope delivers to its  *)
(* startup.  User finalizers are assumed to end and backoffs to wake.  The *)
(* application, and a startup nothing interrupts, owe nothing.             *)
(***************************************************************************)
StartInterrupted(g) == scope[g] = "closing" /\ StartExits(g, "failed")

Fairness ==
  /\ \A g \in Gen :
       /\ WF_vars(StartInterrupted(g))
       /\ WF_vars(OnStartupDone(g))
       /\ WF_vars(CleanupWakes(g))
       /\ WF_vars(TimerFires(g))
       /\ WF_vars(OwnerClosesChild(g))
       /\ WF_vars(FinalizersRun(g))
       /\ WF_vars(StopForgets(g))
       /\ WF_vars(StopWakes(g))
  /\ WF_vars(LoopWakes)
  /\ WF_vars(ReconcilePass)
  /\ WF_vars(ClosedPass)
  /\ WF_vars(LoopInterrupted)
  /\ WF_vars(ShutdownForgets)
  /\ WF_vars(ShutdownSignals)

FairSpec == Spec /\ Fairness

-----------------------------------------------------------------------------
(***************************************************************************)
(* Safety.                                                                 *)
(***************************************************************************)

\* The three indexes and the two reverse edges always agree with what the
\* generations themselves record (liveState.ts: track, retire, forget).
IndexesAgree == IndexesConsistent(live)

\* A generation keeps authority only while the generation that answers for its
\* owner's identity is the one it was admitted under and is Running, and every
\* provider it captured is Running (invalidate, admissible).
OwnershipClosure == AuthoritySupported(live)

\* A sequential slot holds one generation from admission to the end of its
\* finalizers: a replacement never overlaps what it replaces.
SequentialExclusive == SlotsExclusive(live)

\* The per-snapshot match cache (desiredRevision, desiredNode, node.live) names
\* exactly current generations whose identity the published snapshot desires.
MatchCacheCoherent ==
  \A g \in matched : g \in Authority(live) /\ IdentOf(g) \in Wanted

\* Controller.status and Snapshot.get give one answer for every identity,
\* though one reads the indexes and the other walks live.all.
StatusAgreesWithSnapshot ==
  \A i \in Ident : statusOf(live, i) = snapshotGet(live, i)

\* A startup completion is published exactly when the pass run at that moment
\* would keep the generation: the recursive check of startupIsAuthoritative and
\* the cascade of invalidate decide alike, whatever was committed in between.
CompletionCheckAgreesWithPass ==
  phase = "open" =>
    LET obsolete == invalidate IN
    \A g \in Gen : live.status[g] = "starting" =>
      (startupIsAuthoritative(g) <=> g \notin obsolete)

\* No wake is lost: when no pass is owed and no stop fiber is about to ask for
\* one, a pass would retire nothing, admit nothing and republish nothing.
NothingOwedNothingToDo ==
  phase = "open" /\ ~owed /\ (\A g \in Gen : stop[g] # "wake") =>
    /\ invalidate = {}
    /\ admissions(live, Authority(live)) = {}
    /\ \A g \in Authority(live) : seen[g] = desired[IdentOf(g)]

\* A transition an observer could see always has a signal coming: from the pass
\* owed, from the one a stop fiber is about to request, or from shutdown.
NoLostChange ==
  live.moved => owed \/ (\E g \in Gen : stop[g] = "wake") \/ phase \in {"closing", "forgotten"}

\* While the controller is open, a Scope begins to close only if its generation
\* has failed or lost authority: a lifetime with authority is never torn down.
AuthorityKeepsScope ==
  \A g \in Authority(live) :
    phase = "open" => scope[g] = "open" \/ live.status[g] = "failed"

\* Every draining generation has a close that will reach it: its own stop fiber,
\* or its owner's, or the root Scope's.
DrainingIsCovered ==
  \A g \in Obsolete(live) :
    \/ stop[g] = "closing"
    \/ phase = "closing"
    \/ closing[g] = "none" /\ live.owner[g] \in Obsolete(live)

\* Once shutdown has completed nothing is tracked and no fiber survives that
\* could still change anything.
ClosedIsEmpty ==
  phase \in {"forgotten", "closed"} =>
    /\ All(live) = {}
    /\ \A g \in Gen : /\ start[g] = "none" /\ stop[g] = "none"
                      /\ ~cleanup[g] /\ ~timer[g] /\ scope[g] = "none"
    /\ loop = "dead"
    /\ phase = "closed" => ~live.moved

\* A backoff that can still act - asleep for the generation that is current and
\* Failed - is one the identity's count knows of, within what the schedule
\* offers: resets and stale sleeps never leave an uncounted attempt behind.
EffectiveBackoffIsCounted ==
  \A g \in Gen :
    timer[g] /\ live.status[g] = "failed" =>
      supervisors[IdentOf(g)] \in 1..MaxRestarts

-----------------------------------------------------------------------------
(***************************************************************************)
(* What a step may never do.                                               *)
(***************************************************************************)

\* A generation is dropped from the live state only once its finalizers have
\* run: `closing` is the finalization boundary, not the return of a close call.
ForgottenIsFinalized ==
  [][\A g \in Gen : live.status[g] # "none" /\ live'.status[g] = "none"
       => scope[g] = "closed" /\ start[g] # "running"]_vars

\* An obsolete generation is never revived and never told of another world: it
\* drains, keeping the projection it had, and is forgotten.
ObsoleteIsFinal ==
  [][\A g \in Obsolete(live) :
       \/ live'.status[g] = "none"
       \/ live'.status[g] = "stopping" /\ seen'[g] = seen[g]]_vars

\* Without passes, Scopes, fibers and indexes the controller is what Lifetimes
\* says: a generation is admitted onto what runs, into an empty slot, retired with
\* all that stands on it, and forgotten once its finalizers have run.
Generations ==
  INSTANCE Lifetimes WITH
    Gen <- Gen,
    Rivals <- {p \in Gen \X Gen : /\ p[1] # p[2]
                                 /\ Sequential(p[1]) /\ Sequential(p[2])
                                 /\ SlotOf(p[1]) = SlotOf(p[2])},
    status <- live.status,
    stands <- [g \in Gen |-> live.providers[g] \cup ({live.owner[g]} \ {NoGen})],
    held <- [g \in Gen |-> scope[g] \in {"open", "closing"} \/ start[g] = "running"]
ImplementsLifetimes == Generations!Spec

-----------------------------------------------------------------------------
(***************************************************************************)
(* What must eventually happen, under FairSpec.                            *)
(***************************************************************************)

\* While the application leaves one snapshot published, the runtime keeps
\* reaching states where nothing undesired has authority, nothing drains, and
\* whatever owner, slot and providers permit has been admitted.
Converged == invalidate = {} /\ admissions(live, Authority(live)) = {} /\ Obsolete(live) = {}
Convergence ==
  \A d \in Desire : <>[](phase = "open" /\ desired = d) => []<>Converged

\* Every retired generation reaches its finalization boundary and is forgotten.
DrainingEnds ==
  \A g \in Gen : live.status[g] = "stopping" ~> live.status[g] = "none"

\* Every transition an observer could see is followed by a change signal.
ChangesAreSignalled == live.moved ~> ~live.moved

\* A shutdown that begins completes: nobody waits for somebody who waits for it.
ShutdownCompletes == phase = "closing" ~> phase = "closed"

-----------------------------------------------------------------------------
(***************************************************************************)
(* What the repository says that the code does not do.                     *)
(***************************************************************************)

\* controller.ts says of a completion that a newer commit overtook: "the owed
\* pass closes it instead".  So a generation whose completion was discarded is
\* Starting only while a pass is owed.
OvertakenStartupIsClosed ==
  \A g \in Gen : live.status[g] = "starting" /\ start[g] = "none" => owed

\* spec.md: a child may never outlive the physical owner instance beneath which
\* it was admitted.
ChildNeverOutlivesOwner ==
  \A g \in All(live) : live.owner[g] # NoGen => live.status[live.owner[g]] # "none"

\* Diagnostics.ts says of `settled`: the runtime has converged on the published
\* desire.  So a pass would find nothing to do.
SettledIsConverged ==
  phase = "open" /\ quiescent =>
    invalidate = {} /\ admissions(live, Authority(live)) = {}

\* Supervision.ts: when the desire for a lifetime is withdrawn, the count of how
\* often it failed is gone.
BackoffDiesWithDesire ==
  phase = "open" /\ ~owed =>
    \A i \in Ident : supervisors[i] # NotStarted => i \in Wanted

\* Supervision.ts: the runtime stops restarting a Failed generation when the
\* schedule is exhausted.  So one that stays desired is asleep in its backoff,
\* or the schedule has no further attempt to offer.
FailureIsSupervised ==
  phase = "open" /\ ~owed =>
    \A g \in Gen :
      live.status[g] = "failed" /\ FamilyOf(IdentOf(g)) \in Restarting =>
        timer[g] \/ supervisors[IdentOf(g)] > MaxRestarts
=============================================================================
