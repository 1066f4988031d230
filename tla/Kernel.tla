------------------------------- MODULE Kernel -------------------------------
(***************************************************************************)
(* The generation kernel of the Layer/Atom rebase: desire is an Atom       *)
(* somebody else writes, this module owns physical generations only.       *)
(*                                                                         *)
(* A write of desire is synchronous and takes no mutex; startups and       *)
(* finalizers end whenever they like; one loop reconciles.                 *)
(***************************************************************************)
EXTENDS Closing

CONSTANTS
  Parent,    \* per identity, its owner's, or NoRef
  Family,    \* per identity, its family
  Many,      \* families of cardinality "many"
  Overlap,   \* families whose replacement overlaps
  Desire,    \* the desired lists the Atom publishes, owners and providers first
  NoRef,
  Fallible,  \* identities whose startup may fail
  MayShutdown

ASSUME KernelAssumption ==
  /\ Parent \in [Ref -> Ref \cup {NoRef}] /\ NoRef \notin Ref
  /\ \A rs \in SUBSET Ref : rs # {} => \E r \in rs : Parent[r] \notin rs   \* no cycles
  /\ DOMAIN Family = Ref
  /\ MayShutdown \in BOOLEAN
  /\ Desire \subseteq Seq([ref : Ref, providers : Seq(Ref)])
  /\ \A d \in Desire : \A i, j \in DOMAIN d : d[i].ref = d[j].ref => i = j

VARIABLES
  desired,    \* the published list of [ref, providers]
  atom,       \* the status Atom of each identity
  loop,       \* waiting, due (latch taken), or admitting (holds the mutex)
  wake,       \* the latch the loop waits for
  owed,       \* wakeVersion # reconciledVersion
  scheduled,  \* asyncWakeScheduled: a zero-delay timer is pending
  converged,  \* the latch `idle` waits for
  phase       \* open, closing, closed

generations == <<all, inst, atom>>
wakes == <<wake, owed, scheduled, converged>>
vars == <<desired, generations, loop, wakes, phase>>

TypeOK ==
  /\ desired \in Desire
  /\ Range(all) \subseteq Gen
  /\ inst \in [Gen -> Generation]
  /\ atom \in [Ref -> {"none", "starting", "running", "failed", "stopping"}]
  /\ loop \in {"waiting", "due", "admitting"}
  /\ {wake, owed, scheduled, converged} \subseteq BOOLEAN
  /\ phase \in {"open", "closing", "closed"}

Init ==
  /\ desired \in Desire          \* subscribed with immediate: true
  /\ all = << >>
  /\ inst = [g \in Gen |-> Nobody]
  /\ atom = [r \in Ref |-> "none"]
  /\ loop = "waiting"
  /\ wake = TRUE /\ owed = TRUE /\ scheduled = FALSE /\ converged = FALSE
  /\ phase = "open"

-----------------------------------------------------------------------------
(***************************************************************************)
(* Indexes: currentByRef, and a slot's current and retiring generations.   *)
(***************************************************************************)
current(is, r) ==
  IF \E g \in Live(is) : refOf(g) = r
    THEN CHOOSE g \in Live(is) : refOf(g) = r ELSE NoGen

node(r) == CHOOSE n \in Range(desired) : n.ref = r
wanted(r) == \E n \in Range(desired) : n.ref = r

\* One slot per identity, or per family and owner identity.
slotFor(r) == IF Family[r] \in Many THEN <<r>> ELSE <<Family[r], Parent[r]>>

retiring(is, r) ==
  {g \in Range(all) : is[g].status = "stopping" /\ slotFor(refOf(g)) = slotFor(r)}

readStatus(is, remembered, r) ==
  CASE current(is, r) # NoGen -> is[current(is, r)].status
    [] \E g \in remembered : refOf(g) = r /\ is[g].status = "stopping" -> "stopping"
    [] OTHER -> "none"

\* publishStatus, for the identities `rs`.
publishStatus(rs) ==
  atom' = [r \in Ref |-> IF r \in rs THEN readStatus(inst', Range(all'), r) ELSE atom[r]]

ownerOf(is, r) == IF Parent[r] = NoRef THEN NoGen ELSE current(is, Parent[r])
bound(is, ps) == [i \in DOMAIN ps |-> current(is, ps[i])]

\* Does what g captured still match desire, were `is` the generations?
matches(is, g) ==
  /\ wanted(refOf(g))
  /\ ownerOf(is, refOf(g)) = inst[g].owner
  /\ bound(is, node(refOf(g)).providers) = inst[g].providers

\* Mutated: a sequential slot waits only for its current generation.
admissible_Early(is, n) ==
  /\ current(is, n.ref) = NoGen
  /\ Parent[n.ref] = NoRef \/ runs(ownerOf(is, n.ref))
  /\ \A p \in Range(n.providers) : runs(current(is, p))
  /\ \A g \in Live(is) : slotFor(refOf(g)) # slotFor(n.ref)
\* Does node n lack a generation, with all it needs running and its slot free?
admissible(is, n) ==
  /\ current(is, n.ref) = NoGen
  /\ Parent[n.ref] = NoRef \/ runs(ownerOf(is, n.ref))
  /\ \A p \in Range(n.providers) : runs(current(is, p))
  /\ \A g \in Live(is) : slotFor(refOf(g)) # slotFor(n.ref)
  /\ Family[n.ref] \in Overlap \/ retiring(is, n.ref) = {}

\* `ns`, and n after them where it may start: the first of a slot takes it.
admit(is, ns, n) ==
  IF admissible(is, n) /\ \A m \in Range(ns) : slotFor(m.ref) # slotFor(n.ref)
    THEN Append(ns, n) ELSE ns

\* The nodes of d a pass starts, in order.
admitted(is, d) ==
  LET upTo[i \in 0 .. Len(d)] == IF i = 0 THEN << >> ELSE admit(is, upTo[i - 1], d[i])
  IN upTo[Len(d)]

\* The bound: a list is taken up when there are tokens for what may start now.
room(is, d) ==
  \A n \in Range(d) : admissible(is, n) => Free \cap ({n.ref} \X Incarnation) # {}

-----------------------------------------------------------------------------
(***************************************************************************)
(* Wakes.                                                                  *)
(***************************************************************************)
wakeUp == /\ wake' = TRUE
          /\ owed' = TRUE
          /\ converged' = FALSE
          /\ UNCHANGED scheduled

\* Completions come in batches: one timer stands for all of them.
scheduleAsyncWake == scheduled' = TRUE /\ UNCHANGED <<wake, owed, converged>>

mutex == loop # "admitting"

TimerFires ==
  /\ mutex
  /\ scheduled
  /\ scheduled' = FALSE
  /\ wake' = TRUE
  /\ owed' = TRUE
  /\ converged' = FALSE
  /\ UNCHANGED <<desired, generations, loop, phase>>

\* The Atom is written: synchronous, whatever the loop is doing.
publishDesired(d) ==
  /\ phase = "open"
  /\ d # desired
  /\ loop = "admitting" => room(inst, d)
  /\ desired' = d
  /\ wakeUp
  /\ UNCHANGED <<generations, loop, phase>>

-----------------------------------------------------------------------------
(***************************************************************************)
(* Retirement and finalization.                                            *)
(***************************************************************************)
retire(gs) ==
  /\ inst' = [g \in Gen |-> IF g \in gs THEN Stopping(inst[g]) ELSE inst[g]]
  /\ all' = all
  /\ publishStatus({refOf(g) : g \in gs})

\* The cleanup of a failed startup asks for a pass when its close returns.
asksForPass(g) == IF inst[g].cleanup THEN scheduleAsyncWake ELSE UNCHANGED wakes

\* The fiber that claimed the close of g.
closeInstance(g) ==
  /\ \/ closes(g) /\ UNCHANGED wakes
     \/ findsClosed(g) /\ asksForPass(g)
  /\ UNCHANGED <<desired, all, atom, loop, phase>>

ScopeCloses(g) ==
  /\ \/ releases(g) /\ (IF inst[g].closer = "self" THEN asksForPass(g) ELSE UNCHANGED wakes)
     \/ \E c \in Gen : reaches(g, c) /\ UNCHANGED wakes
  /\ UNCHANGED <<desired, all, atom, loop, phase>>

\* Mutated: the stop fiber forgets its generation and asks for nothing.
StopEnds_Quiet(g) ==
  /\ mutex
  /\ stopped(g)
  /\ publishStatus({refOf(g)})
  /\ UNCHANGED <<desired, loop, wakes, phase>>
StopEnds(g) ==
  /\ mutex
  /\ stopped(g)
  /\ publishStatus({refOf(g)})
  /\ scheduleAsyncWake
  /\ UNCHANGED <<desired, loop, phase>>

-----------------------------------------------------------------------------
(***************************************************************************)
(* Startup.                                                                *)
(***************************************************************************)
startupIsAuthoritative(g) ==
  \A h \in lineage(g) : current(inst, refOf(h)) = h /\ matches(inst, h)

\* A startup has ended and its watcher holds the mutex.
Completed(g, ok) ==
  /\ mutex
  /\ inst[g].building
  /\ ok \/ refOf(g) \in Fallible
  /\ inst[g].status = "starting"
  /\ \/ ~startupIsAuthoritative(g) /\ endsOvertaken(g) /\ UNCHANGED wakes
     \/ startupIsAuthoritative(g) /\ ends(g, ok) /\ scheduleAsyncWake
  /\ all' = all
  /\ publishStatus({refOf(g)})
  /\ UNCHANGED <<desired, loop, phase>>

\* ... and one that was retired meanwhile has nothing to publish.
CompletedLate(g) ==
  /\ mutex
  /\ endsLate(g)
  /\ UNCHANGED <<desired, all, atom, loop, wakes, phase>>

-----------------------------------------------------------------------------
(***************************************************************************)
(* A reconcile pass: invalidate, then admit.                               *)
(***************************************************************************)
LoopTakes ==
  /\ loop = "waiting"
  /\ wake
  /\ wake' = FALSE
  /\ loop' = "due"
  /\ UNCHANGED <<desired, generations, owed, scheduled, converged, phase>>

\* Mutated: compared with the generations as the pass found them.
sweep_AsFound(is, g) ==
  IF is[g].status # "stopping" /\ ~matches(inst, g)
    THEN [is EXCEPT ![g].status = "stopping"] ELSE is
\* Where g has come to stand on nothing that is desired, it goes.
sweep(is, g) ==
  IF is[g].status # "stopping" /\ ~matches(is, g)
    THEN [is EXCEPT ![g].status = "stopping"] ELSE is

\* In order of admission, so that what a retired generation carried goes in the
\* same pass.
survivors ==
  LET upTo[i \in 0 .. Len(all)] == IF i = 0 THEN inst ELSE sweep(upTo[i - 1], all[i])
  IN upTo[Len(all)]
invalid == LET is == survivors IN {g \in Gen : is[g] # inst[g]}

PassInvalidates ==
  /\ loop = "due"
  /\ phase = "open"
  /\ room(survivors, desired)
  /\ loop' = "admitting"
  /\ owed' = FALSE
  /\ retire(invalid)
  /\ UNCHANGED <<desired, wake, scheduled, converged, phase>>

PassIsLate ==
  /\ loop = "due"
  /\ phase # "open"
  /\ loop' = "waiting"
  /\ UNCHANGED <<desired, generations, wakes, phase>>

\* Mutated: only what is starting or stopping counts, not the cleanup of a
\* failed startup.
settledWith_Careless(is, remembered) ==
  /\ ~scheduled /\ ~owed
  /\ \A g \in remembered : is[g].status \notin {"starting", "stopping"}
settledWith(is, remembered) ==
  /\ ~scheduled /\ ~owed
  /\ \A g \in remembered : /\ is[g].status \notin {"starting", "stopping"}
                           /\ is[g].closing # "pending"

PassAdmits ==
  LET nodes == admitted(inst, desired)
      new == {token(n.ref) : n \in Range(nodes)}
  IN
  /\ loop = "admitting"
  /\ loop' = "waiting"
  /\ all' = all \o [i \in DOMAIN nodes |-> token(nodes[i].ref)]
  /\ inst' = [g \in Gen |->
       IF g \in new
         THEN Admitted(ownerOf(inst, refOf(g)), bound(inst, node(refOf(g)).providers))
         ELSE inst[g]]
  /\ publishStatus({n.ref : n \in Range(nodes)})
  /\ converged' = (converged \/ settledWith(inst', Range(all')))
  /\ UNCHANGED <<desired, wake, owed, scheduled, phase>>

-----------------------------------------------------------------------------
(***************************************************************************)
(* What the application calls.                                             *)
(***************************************************************************)
retry(r) ==
  LET g == current(inst, r) IN
  /\ mutex
  /\ g # NoGen
  /\ inst[g].status = "failed"
  /\ wanted(r)
  /\ retire({g})
  /\ wakeUp
  /\ UNCHANGED <<desired, loop, phase>>

Shutdown ==
  /\ MayShutdown
  /\ mutex
  /\ phase = "open"
  /\ phase' = "closing"
  /\ retire(Live(inst))
  /\ UNCHANGED <<desired, loop, wakes>>

\* The root Scope awaits the stop fibers and what they finalize.
ShutdownEnds ==
  /\ phase = "closing"
  /\ inst = [g \in Gen |-> Nobody]
  /\ phase' = "closed"
  /\ UNCHANGED <<desired, generations, loop, wakes>>

-----------------------------------------------------------------------------
Application ==
  \/ \E d \in Desire : publishDesired(d)
  \/ \E r \in Ref : retry(r)
  \/ Shutdown

Closes(g) == closeInstance(g) \/ ScopeCloses(g) \/ StopEnds(g)

Runtime ==
  \/ TimerFires \/ LoopTakes \/ PassInvalidates \/ PassIsLate \/ PassAdmits \/ ShutdownEnds
  \/ \E g \in Gen : Closes(g) \/ CompletedLate(g) \/ \E ok \in BOOLEAN : Completed(g, ok)

Next == Application \/ Runtime

Spec == Init /\ [][Next]_vars

-----------------------------------------------------------------------------
\* Would a pass change nothing?
AtRest == phase = "open" => invalid = {} /\ admitted(inst, desired) = << >>

\* Batching wakes behind one timer loses none of them: when the loop, the timer
\* and every fiber are through, the kernel has converged and `idle` returns.
IdleReturns == phase = "open" /\ ~ENABLED Runtime => converged

\* What `idle` waits for: while the latch is open nothing is starting, draining
\* or being finalized, a pass would change nothing, and the status Atoms a woken
\* reader finds are what the generations say.
ConvergedIsConverged ==
  converged /\ phase = "open" =>
    /\ AtRest
    /\ \A g \in Gen : inst[g].scope # "closing" /\ ~inst[g].building
    /\ \A r \in Ref : atom[r] = readStatus(inst, Range(all), r)

Holds(g) == inst[g].scope \in {"open", "closing"}

\* Sequential replacement: in one slot of one physical owner, resources of two
\* generations never exist at once.
SequentialUnderOneOwner ==
  \A g, h \in Gen : g # h /\ Holds(g) /\ Holds(h) =>
    \/ Family[refOf(g)] \in Overlap
    \/ slotFor(refOf(g)) # slotFor(refOf(h))
    \/ inst[g].owner # inst[h].owner

\* layer-atom/README.md says it of the slot, which an owner's replacement keeps.
\* Not so where owners overlap.
SequentialExclusion ==
  \A g, h \in Gen : g # h /\ Holds(g) /\ Holds(h) =>
    \/ Family[refOf(g)] \in Overlap
    \/ slotFor(refOf(g)) # slotFor(refOf(h))

Rivals == {p \in Gen \X Gen : /\ p[1] # p[2] /\ slotFor(refOf(p[1])) = slotFor(refOf(p[2]))
                              /\ Family[refOf(p[1])] \notin Overlap}

\* What the close of an owner has reached is the owner's to release, as in Editor.
Promise == INSTANCE Lifetimes WITH
  status <- [g \in Gen |-> inst[g].status],
  stands <- [g \in Gen |-> IF inst[g].status = "none" THEN {} ELSE standsOn(g)],
  held <- [g \in Gen |-> inst[g].scope \in {"open", "closing"} /\ inst[g].closer # "owner"]

\* The kernel keeps what Lifetimes promises: a start only on what runs and in a
\* slot that is empty, and with a generation everything that captured it is
\* retired in the same step, though a pass decides on one after the other.
KernelImplementsLifetimes == Promise!Spec
=============================================================================
