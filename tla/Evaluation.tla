----------------------------- MODULE Evaluation -----------------------------
(***************************************************************************)
(* The front half of a commit: evaluating the Binding against one state,   *)
(* with the incremental memory that spans commits, and publishing the      *)
(* result under the controller's mutex.                                    *)
(*                                                                         *)
(* evaluate runs outside the mutex, in one synchronous stretch; callers    *)
(* then queue for the mutex, so results may be published in another order  *)
(* than they were evaluated in, or not at all.                             *)
(***************************************************************************)
EXTENDS Topology, Functions

CONSTANTS
  State,             \* the control states the application commits
  Selector(_, _, _), \* what a family's selector answers: keys, Throws, Misshapen
  Deps(_, _, _),     \* what it says it read: a value, Throws
  Observe(_, _, _),  \* the projection of an observing family: a value, Throws
  Incremental,       \* the families whose entry declares deps
  Caller,            \* the fibers that commit
  Throws, Misshapen, NoState, Idle

\* What a family's selector may be asked about.
OwnerIdents(f) == IF OwnerId[f] = 0 THEN {<< >>} ELSE IdentsOf(OwnerId[f])

\* A "many" selector answers keys, a "one" selector an Option; and what deps
\* says it read determines what the selector answers, which is its contract.
ASSUME SelectorAssumption ==
  /\ Incremental \subseteq Family
  /\ \A s \in State, f \in Family : \A o \in OwnerIdents(f) :
       \/ Selector(s, f, o) \in {Throws, Misshapen}
       \/ /\ Selector(s, f, o) \in Seq(KeysOf[f])
          /\ f \in Cardinality1 => Len(Selector(s, f, o)) <= 1
  /\ \A s, t \in State, f \in Incremental : \A o \in OwnerIdents(f) :
       Deps(s, f, o) = Deps(t, f, o) /\ Deps(s, f, o) # Throws =>
         Selector(s, f, o) = Selector(t, f, o)

VARIABLES
  memory,    \* per incremental family and owner: the deps, keys and idents
  call,      \* per caller: Idle, or the evaluated commit waiting for the mutex
  desired,   \* the published snapshot, with the state it was evaluated from
  open

vars == <<memory, call, desired, open>>

EmptyMemory == [f \in Incremental |-> << >>]

-----------------------------------------------------------------------------
(***************************************************************************)
(* evaluate.  Families in compiled order, owners in topological order, and *)
(* an error wherever it is met ends the evaluation: the snapshot is        *)
(* discarded, what the memory has recorded until then stays.               *)
(***************************************************************************)
Start(m) ==
  [error |-> "none", nodes |-> [f \in Family |-> << >>], topo |-> << >>,
   observed |-> << >>, memory |-> m]

owners(e, f) == IF OwnerId[f] = 0 THEN << << >> >> ELSE e.nodes[OwnerId[f]]

\* Mutated: the memory is keyed by the owner's own key, not by its identity.
previous_ByKey(e, f, o) ==
  {e.memory[f][p] : p \in {p \in IF f \in Incremental THEN DOMAIN e.memory[f] ELSE {} :
                             o = p \/ (o # << >> /\ p # << >> /\ Last(o) = Last(p))}}
\* What was recorded for the owner when it was last asked about, if anything.
previous(e, f, o) ==
  {e.memory[f][p] : p \in IF f \in Incremental THEN DOMAIN e.memory[f] \cap {o} ELSE {}}

remember(e, f, o, memo) ==
  IF f \notin Incremental THEN e.memory
  ELSE [e.memory EXCEPT ![f] = [p \in DOMAIN @ \cup {o} |-> IF p = o THEN memo ELSE @[p]]]

\* Why an answer of keys for o, which stand for idents, is refused.
refusal(s, f, e, o, keys, idents) ==
  IF \/ f \in Observing /\ Observe(s, f, o) = Throws
     \/ f \in Incremental /\ Deps(s, f, o) = Throws
     \/ keys = Throws
    THEN "SelectorFailed"
  ELSE IF keys = Misshapen THEN "InvalidSelectorResult"
  ELSE IF ~IsInjective(idents) \/ Range(idents) \cap DOMAIN e.observed # {}
    THEN "DuplicateDesiredKey"
  ELSE "none"

\* One owner of one family, with the answer that was given for it.
accept(s, f, e, o, keys, idents) ==
  [e EXCEPT
     !.nodes[f] = @ \o idents,
     !.topo = @ \o idents,
     !.observed = [i \in DOMAIN @ \cup Range(idents) |->
                     IF i \in DOMAIN @ THEN @[i]
                     ELSE IF f \in Observing THEN Observe(s, f, o) ELSE NoProjection],
     !.memory = remember(e, f, o, [deps |-> Deps(s, f, o), keys |-> keys, idents |-> idents])]

ask(s, f, e, o) ==
  LET same == {memo \in previous(e, f, o) : memo.deps = Deps(s, f, o)}
      memo == CHOOSE memo \in same : TRUE
      keys == IF same # {} THEN memo.keys ELSE Selector(s, f, o)
      idents == IF same # {} THEN memo.idents
                ELSE [k \in DOMAIN keys |-> Append(o, <<f, keys[k]>>)]
      refused == refusal(s, f, e, o, keys, idents)
  IN IF e.error # "none" THEN e
     ELSE IF refused # "none" THEN [e EXCEPT !.error = refused]
     ELSE accept(s, f, e, o, keys, idents)

\* Mutated: the sweep compares against the nodes of the family itself.
prune_ByNodes(f, e) ==
  IF \/ e.error # "none" \/ f \notin Incremental \/ OwnerId[f] = 0
     \/ Cardinality(DOMAIN e.memory[f])
          <= Len(e.nodes[f])
    THEN e
    ELSE [e EXCEPT !.memory[f] = Restrict(@, DOMAIN @ \cap DOMAIN e.observed)]
\* Owners that went away are swept out once the memory outgrows those visited.
prune(f, e) ==
  IF \/ e.error # "none" \/ f \notin Incremental \/ OwnerId[f] = 0
     \/ Cardinality(DOMAIN e.memory[f]) <= Len(owners(e, f))
    THEN e
    ELSE [e EXCEPT !.memory[f] = Restrict(@, DOMAIN @ \cap DOMAIN e.observed)]

evaluateFamily(s, e, f) ==
  LET visited[n \in 0 .. Len(owners(e, f))] ==
        IF n = 0 THEN e ELSE ask(s, f, visited[n - 1], owners(e, f)[n])
  IN prune(f, visited[Len(owners(e, f))])

evaluate(s, m) ==
  LET upTo[f \in 0 .. NFamilies] ==
        IF f = 0 THEN Start(m) ELSE evaluateFamily(s, upTo[f - 1], f)
  IN upTo[NFamilies]

-----------------------------------------------------------------------------
Init ==
  /\ memory = EmptyMemory
  /\ call = [c \in Caller |-> Idle]
  /\ desired = [state |-> NoState, topo |-> << >>, observed |-> << >>]
  /\ open = TRUE

\* commitWith until it queues for the mutex.
Evaluate(c, s) ==
  LET e == evaluate(s, memory) IN
  /\ call[c] = Idle
  /\ open
  /\ memory' = e.memory
  /\ call' = [call EXCEPT ![c] = [state |-> s, error |-> e.error, topo |-> e.topo,
                                  observed |-> e.observed]]
  /\ UNCHANGED <<desired, open>>

\* Mutated: a failed evaluation publishes what it had built.
Publish_Partial(c) ==
  /\ call[c] # Idle
  /\ desired' = IF open
                  THEN [state |-> call[c].state, topo |-> call[c].topo,
                        observed |-> call[c].observed]
                  ELSE desired
  /\ call' = [call EXCEPT ![c] = Idle]
  /\ UNCHANGED <<memory, open>>
\* The publication region: all of a valid snapshot, or an error and nothing.
Publish(c) ==
  /\ call[c] # Idle
  /\ desired' = IF open /\ call[c].error = "none"
                  THEN [state |-> call[c].state, topo |-> call[c].topo,
                        observed |-> call[c].observed]
                  ELSE desired
  /\ call' = [call EXCEPT ![c] = Idle]
  /\ UNCHANGED <<memory, open>>

\* A caller is interrupted while it queues.
Interrupted(c) ==
  /\ call[c] # Idle
  /\ call' = [call EXCEPT ![c] = Idle]
  /\ UNCHANGED <<memory, desired, open>>

Shutdown ==
  /\ open
  /\ open' = FALSE
  /\ UNCHANGED <<memory, call, desired>>

Terminated == ~open /\ (\A c \in Caller : call[c] = Idle) /\ UNCHANGED vars

Next ==
  \/ \E c \in Caller : \/ \E s \in State : Evaluate(c, s)
                       \/ Publish(c)
                       \/ Interrupted(c)
  \/ Shutdown
  \/ Terminated

Spec == Init /\ [][Next]_vars

-----------------------------------------------------------------------------
(***************************************************************************)
(* What a state desires, without order, memory or bookkeeping: an identity *)
(* all of whose keys the selectors along its own chain answer.             *)
(***************************************************************************)
Asked(s, i) == Selector(s, FamilyOf(i), Parent(i))
Answers(s, i) == Asked(s, i) \notin {Throws, Misshapen} /\ Last(i)[2] \in Range(Asked(s, i))
Desires(s) ==
  {i \in Ident : \A n \in DOMAIN i : Answers(s, SubSeq(i, 1, n))}

\* The owners that a family's selector is asked about in s.
Owners(s, f) ==
  IF OwnerId[f] = 0 THEN {<< >>} ELSE {i \in Desires(s) : FamilyOf(i) = OwnerId[f]}

Acceptable(s) ==
  \A f \in Family : \A o \in Owners(s, f) :
    /\ Selector(s, f, o) \notin {Throws, Misshapen}
    /\ IsInjective(Selector(s, f, o))
    /\ f \in Observing => Observe(s, f, o) # Throws
    /\ f \in Incremental => Deps(s, f, o) # Throws

OwnersFirst(topo) ==
  \A n \in DOMAIN topo : IsRoot(topo[n]) \/ \E m \in 1..(n - 1) : topo[m] = Parent(topo[n])

\* Snapshot x is what state s desires, no more and no less, with s's projections.
Faithful(x, s) ==
  /\ DOMAIN x.observed = Desires(s)
  /\ \A i \in Desires(s) :
       x.observed[i] = IF FamilyOf(i) \in Observing
                         THEN Observe(s, FamilyOf(i), Parent(i)) ELSE NoProjection
  /\ IsInjective(x.topo) /\ Range(x.topo) = Desires(s) /\ OwnersFirst(x.topo)

\* Whatever was evaluated, failed or abandoned before, and whoever evaluated in
\* between, an evaluation accepts exactly the acceptable states, and answers
\* with what the selectors would have.
EvaluationIsPure ==
  \A c \in Caller : call[c] # Idle =>
    /\ call[c].error = "none" <=> Acceptable(call[c].state)
    /\ call[c].error = "none" => Faithful(call[c], call[c].state)

\* What is published is the whole of one committed state, and one of the
\* coherent snapshots the controller is modelled with.
PublishedIsCoherent ==
  desired.state # NoState =>
    /\ Faithful(desired, desired.state)
    /\ Coherent(DOMAIN desired.observed)

\* An evaluation that succeeds leaves no memo of an owner it does not desire.
MemoryFollowsDesire ==
  [][\A c \in Caller :
       call[c] = Idle /\ call'[c] # Idle /\ call'[c].error = "none" =>
         \A f \in Incremental :
           DOMAIN memory'[f] = Owners(call'[c].state, f)]_vars
=============================================================================
