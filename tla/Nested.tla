------------------------------- MODULE Nested -------------------------------
(***************************************************************************)
(* Lifetimes that run a Reconciler of their own, beside the controller     *)
(* that hosts them: the child controller lives in the host's Scope, and a  *)
(* fiber commits to it every projection the host is handed.                *)
(*                                                                         *)
(* Of the child, the model keeps what its host can tell: whether it is     *)
(* open, and what was last committed to it.                                *)
(***************************************************************************)
EXTENDS Controller, SequencesExt

CONSTANTS
  Rejected,    \* the projections the child's Binding does not accept
  MaxPending   \* bound: projections published and not yet followed

ASSUME NestedAssumption == Rejected \subseteq Projection /\ MaxPending \in Nat

VARIABLES
  child,       \* of a host: none, open, or closed
  committed,   \* what its child's desire was last computed from
  follower,    \* none, forked, following, or ended
  pending      \* the changes the follower has yet to take

children == <<child, committed, follower, pending>>

\* A family that observes hosts a child.
Hosts == {g \in Gen : FamilyOf(IdentOf(g)) \in Observing}

NestedInit ==
  /\ Init
  /\ child = [g \in Gen |-> "none"]
  /\ committed = [g \in Gen |-> NoProjection]
  /\ follower = [g \in Gen |-> "none"]
  /\ pending = [g \in Gen |-> << >>]

-----------------------------------------------------------------------------
\* In the host's startup: the child is made, and the first projection committed.
\* If that is rejected the startup fails.
FirstCommit(g) ==
  /\ g \in Hosts
  /\ start[g] = "running" /\ child[g] = "none" /\ scope[g] = "open"
  /\ child' = [child EXCEPT ![g] = "open"]
  /\ IF seen[g] \in Rejected
       THEN UNCHANGED <<committed, follower>>
       ELSE /\ committed' = [committed EXCEPT ![g] = seen[g]]
            /\ follower' = [follower EXCEPT ![g] = "forked"]
  /\ UNCHANGED <<vars, pending>>

\* Mutated: the stream of changes does not begin with the current value.
Subscribes_NoReplay(g) ==
  /\ follower[g] = "forked"
  /\ follower' = [follower EXCEPT ![g] = "following"]
  /\ UNCHANGED <<vars, child, committed, pending>>
\* The forked fiber subscribes: changes replays the value of now.
Subscribes(g) ==
  /\ follower[g] = "forked"
  /\ follower' = [follower EXCEPT ![g] = "following"]
  /\ pending' = [pending EXCEPT ![g] = <<seen[g]>>]
  /\ UNCHANGED <<vars, child, committed>>

\* It commits what comes.  A rejection ends it, and so does a closed child.
Follows(g) ==
  /\ follower[g] = "following"
  /\ pending[g] # << >>
  /\ IF child[g] = "closed" \/ Head(pending[g]) \in Rejected
       THEN /\ follower' = [follower EXCEPT ![g] = "ended"]
            /\ pending' = [pending EXCEPT ![g] = << >>]
            /\ UNCHANGED committed
       ELSE /\ committed' = [committed EXCEPT ![g] = Head(pending[g])]
            /\ pending' = [pending EXCEPT ![g] = Tail(@)]
            /\ UNCHANGED follower
  /\ UNCHANGED <<vars, child>>

\* The close of the host's Scope shuts the child down and interrupts the
\* follower, in whichever order.
ChildShutsDown(g) ==
  /\ scope[g] = "closing" /\ child[g] = "open"
  /\ child' = [child EXCEPT ![g] = "closed"]
  /\ UNCHANGED <<vars, committed, follower, pending>>

FollowerInterrupted(g) ==
  /\ scope[g] = "closing" /\ follower[g] \in {"forked", "following"}
  /\ follower' = [follower EXCEPT ![g] = "ended"]
  /\ pending' = [pending EXCEPT ![g] = << >>]
  /\ UNCHANGED <<vars, child, committed>>

-----------------------------------------------------------------------------
Gone(g) == live.status[g] # "none" /\ live'.status[g] = "none"
Told(g) == follower[g] = "following" /\ seen'[g] # seen[g] /\ ~Gone(g)

\* A step of the host's controller: a startup that succeeds has made its first
\* commit, a Scope is closed when its finalizers are through, a projection a
\* pass sets is published to the subscriber.
ControllerSteps ==
  /\ Next
  /\ \A g \in Hosts :
       /\ start[g] = "running" /\ start'[g] = "succeeded" => follower[g] # "none"
       /\ scope[g] = "closing" /\ scope'[g] = "closed" =>
            child[g] # "open" /\ follower[g] \in {"none", "ended"}
       /\ Told(g) => Len(pending[g]) < MaxPending
  /\ child' = [g \in Gen |-> IF Gone(g) THEN "none" ELSE child[g]]
  /\ committed' = [g \in Gen |-> IF Gone(g) THEN NoProjection ELSE committed[g]]
  /\ follower' = [g \in Gen |-> IF Gone(g) THEN "none" ELSE follower[g]]
  /\ pending' = [g \in Gen |-> IF Told(g) THEN Append(pending[g], seen'[g]) ELSE pending[g]]

HostFiber(g) ==
  FirstCommit(g) \/ Subscribes(g) \/ Follows(g) \/ ChildShutsDown(g) \/ FollowerInterrupted(g)

NestedNext == ControllerSteps \/ \E g \in Gen : HostFiber(g)

NestedSpec == NestedInit /\ [][NestedNext]_<<vars, children>>

-----------------------------------------------------------------------------
\* No projection is lost between the first commit and the subscription, nor
\* after: what the child was committed or has still to take ends with what its
\* host was handed last, unless the child rejected one or is being shut down.
ChildFollows ==
  \A g \in Hosts : follower[g] = "following" =>
    seen[g] = IF pending[g] = << >> THEN committed[g] ELSE Last(pending[g])
=============================================================================
