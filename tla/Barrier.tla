------------------------------ MODULE Barrier -------------------------------
(***************************************************************************)
(* The convergence barrier beside the controller: a latch that holds a     *)
(* state, and a waiter that asks, suspends on the latch, and asks again.   *)
(*                                                                         *)
(* The latch belongs to sections the controller already has: every wake    *)
(* closes it, the end of a pass opens it, the end of a shutdown does.      *)
(***************************************************************************)
EXTENDS Controller

VARIABLES
  converged,  \* the latch: open?
  observed,   \* convergenceObserved: has anyone asked?
  waiter      \* idle, asking (about to take the mutex), or waiting on the latch

barrier == <<converged, observed, waiter>>

BarrierInit == Init /\ converged = FALSE /\ observed = FALSE /\ waiter = "idle"

PassEnds == loop = "due" /\ loop' = "waiting"

\* Mutated: whether it has settled is read before the pass is accounted for.
Latch_Early ==
  converged' = \/ phase' = "closed"
               \/ ~owed' /\ (converged \/ (PassEnds /\ observed /\ quiescent))
\* Mutated: a wake asks for a pass and leaves the latch alone.
Latch_Sticky ==
  converged' = \/ phase' = "closed"
               \/ converged \/ (PassEnds /\ observed /\ quiescent')
\* What a step of the controller does to the latch.
Latch ==
  converged' = \/ phase' = "closed"
               \/ ~owed' /\ (converged \/ (PassEnds /\ observed /\ quiescent'))

LatchedSteps == Next /\ Latch /\ UNCHANGED <<observed, waiter>>

Asks ==
  /\ observed' = TRUE
  /\ waiter' = IF quiescent THEN "idle" ELSE "waiting"
  /\ UNCHANGED <<vars, converged>>

idle == waiter = "idle" /\ Asks
AsksAgain == waiter = "asking" /\ Asks

LatchLetsThrough ==
  /\ waiter = "waiting"
  /\ converged
  /\ waiter' = "asking"
  /\ UNCHANGED <<vars, converged, observed>>

BarrierNext == LatchedSteps \/ idle \/ AsksAgain \/ LatchLetsThrough

BarrierSpec ==
  /\ BarrierInit /\ [][BarrierNext]_<<vars, barrier>>
  /\ Fairness
  /\ WF_<<vars, barrier>>(AsksAgain) /\ WF_<<vars, barrier>>(LatchLetsThrough)

-----------------------------------------------------------------------------
\* The latch holds a state, not an edge: while it is open and the controller too,
\* no pass is owed, nothing starts, drains or is being finalized, and a pass would
\* retire and admit nothing, whoever looks at it and when.
LatchMeansConverged ==
  converged /\ phase = "open" =>
    quiescent /\ invalidate = {} /\ admissions(live, Authority(live)) = {}

\* Who waits on a closed latch is owed a pass, which the loop is sure to make, or
\* something in flight ends in one: a startup, the cleanup of a failed one, a
\* stop fiber; or else shutdown has begun, which opens the latch at its end.
WaiterIsOwed ==
  waiter = "waiting" /\ ~converged =>
    \/ owed /\ (wake \/ loop = "due")
    \/ \E g \in Gen : live.status[g] = "starting" \/ cleanup[g] \/ stop[g] # "none"
    \/ phase \in {"closing", "forgotten"}

\* An open latch tells the truth about the controller whenever it is looked at, and
\* nobody waits on a closed one in vain (controller.ts: converged, wakeUp, idle).
LatchTells == LatchMeansConverged /\ WaiterIsOwed

\* No wake-up is lost between asking and suspending: once the controller has
\* settled for good, or closed, nobody waits any more, whichever pass settled it
\* and whether or not anyone had asked by then.
NobodyWaitsForever == <>[]quiescent => <>[](waiter # "waiting")
=============================================================================
