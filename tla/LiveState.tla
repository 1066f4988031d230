----------------------------- MODULE LiveState ------------------------------
(***************************************************************************)
(* Every physical generation a controller knows about, and the indexes a   *)
(* reconcile pass reads: by semantic identity, by replacement slot, and    *)
(* along the two edges invalidity travels.  The state is one record L and  *)
(* the transitions are operators from records to records, because a pass   *)
(* applies several of them in one step.                                    *)
(*                                                                         *)
(* A generation token is drawn from a finite pool per identity.  The code  *)
(* mints a fresh number each time; a token is reused here only once        *)
(* nothing refers to it any more (see Controller!Unused).                  *)
(***************************************************************************)
EXTENDS Topology

CONSTANTS
  Incarnation,  \* bound: how many generations of one identity coexist
  NoGen         \* no generation: null and undefined in the code

Gen == Ident \X Incarnation
IdentOf(g) == g[1]
SlotOf(g) == SlotIdent(g[1])

ASSUME NoGenAssumption == NoGen \notin Gen

\* "none" is a token that is not in live.all.
Lifecycle == {"none", "starting", "running", "failed", "stopping"}

LiveState == [
  status: [Gen -> Lifecycle],
  owner: [Gen -> Gen \cup {NoGen}],
  providers: [Gen -> SUBSET Gen],
  children: [Gen -> SUBSET Gen],
  dependents: [Gen -> SUBSET Gen],
  currentByIdent: [Ident -> Gen \cup {NoGen}],
  current: [Slot -> Gen \cup {NoGen}],     \* slot.current
  retiring: [Slot -> SUBSET Gen],          \* slot.retiring
  moved: BOOLEAN ]                         \* version # publishedVersion

makeLiveState == [
  status |-> [g \in Gen |-> "none"],
  owner |-> [g \in Gen |-> NoGen],
  providers |-> [g \in Gen |-> {}],
  children |-> [g \in Gen |-> {}],
  dependents |-> [g \in Gen |-> {}],
  currentByIdent |-> [i \in Ident |-> NoGen],
  current |-> [s \in Slot |-> NoGen],
  retiring |-> [s \in Slot |-> {}],
  moved |-> FALSE ]

All(L) == {g \in Gen : L.status[g] # "none"}
Obsolete(L) == {g \in Gen : L.status[g] = "stopping"}
\* The generations that answer for their identity and hold their slot.
Authority(L) == {g \in Gen : L.status[g] \in {"starting", "running", "failed"}}

-----------------------------------------------------------------------------
(***************************************************************************)
(* track, for a set of admissions at once: admit maps each identity that   *)
(* is admitted to its fresh generation, which captures an owner and its    *)
(* providers.                                                              *)
(***************************************************************************)
track(L, admit, owner, providers) ==
  LET fresh == {admit[i] : i \in DOMAIN admit}
      takers(s) == {i \in DOMAIN admit : SlotIdent(i) = s}
  IN [ status |-> [g \in Gen |-> IF g \in fresh THEN "starting" ELSE L.status[g]],
       owner |-> [g \in Gen |-> IF g \in fresh THEN owner[IdentOf(g)] ELSE L.owner[g]],
       providers |-> [g \in Gen |-> IF g \in fresh THEN providers[IdentOf(g)]
                                                   ELSE L.providers[g]],
       children |-> [h \in Gen |-> L.children[h] \cup
                       {g \in fresh : owner[IdentOf(g)] = h}],
       dependents |-> [h \in Gen |-> L.dependents[h] \cup
                       {g \in fresh : h \in providers[IdentOf(g)]}],
       currentByIdent |-> [i \in Ident |-> IF i \in DOMAIN admit THEN admit[i]
                                           ELSE L.currentByIdent[i]],
       current |-> [s \in Slot |-> IF takers(s) # {} THEN admit[CHOOSE i \in takers(s) : TRUE]
                                   ELSE L.current[s]],
       retiring |-> L.retiring,
       moved |-> L.moved \/ fresh # {} ]

\* retire, for a set of generations: they lose identity and slot, and drain.
retire(L, S) ==
  [ L EXCEPT
      !.status = [g \in Gen |-> IF g \in S THEN "stopping" ELSE L.status[g]],
      !.currentByIdent = [i \in Ident |-> IF L.currentByIdent[i] \in S THEN NoGen
                                          ELSE L.currentByIdent[i]],
      !.current = [s \in Slot |-> IF L.current[s] \in S THEN NoGen ELSE L.current[s]],
      !.retiring = [s \in Slot |-> L.retiring[s] \cup {g \in S : SlotOf(g) = s}],
      !.moved = L.moved \/ S # {} ]

\* The transition a startup completion decides; it moves no index.
concludeStartup(L, g, status) ==
  [L EXCEPT !.status[g] = status, !.moved = TRUE]

\* Mutated: the identity's index entry is dropped whoever holds it now.
forget_DropsSuccessor(L, S) ==
  [ status |-> [g \in Gen |-> IF g \in S THEN "none" ELSE L.status[g]],
    owner |-> [g \in Gen |-> IF g \in S THEN NoGen ELSE L.owner[g]],
    providers |-> [g \in Gen |-> IF g \in S THEN {} ELSE L.providers[g]],
    children |-> [h \in Gen |-> L.children[h] \ S],
    dependents |-> [h \in Gen |-> L.dependents[h] \ S],
    currentByIdent |-> [i \in Ident |-> IF \E g \in S : IdentOf(g) = i THEN NoGen
                                        ELSE L.currentByIdent[i]],
    current |-> [s \in Slot |-> IF L.current[s] \in S THEN NoGen ELSE L.current[s]],
    retiring |-> [s \in Slot |-> L.retiring[s] \ S],
    moved |-> L.moved \/ S # {} ]
\* forget, for a set of generations that reached their finalization boundary.
forget(L, S) ==
  [ status |-> [g \in Gen |-> IF g \in S THEN "none" ELSE L.status[g]],
    owner |-> [g \in Gen |-> IF g \in S THEN NoGen ELSE L.owner[g]],
    providers |-> [g \in Gen |-> IF g \in S THEN {} ELSE L.providers[g]],
    children |-> [h \in Gen |-> L.children[h] \ S],
    dependents |-> [h \in Gen |-> L.dependents[h] \ S],
    currentByIdent |-> [i \in Ident |-> IF L.currentByIdent[i] \in S THEN NoGen
                                        ELSE L.currentByIdent[i]],
    current |-> [s \in Slot |-> IF L.current[s] \in S THEN NoGen ELSE L.current[s]],
    retiring |-> [s \in Slot |-> L.retiring[s] \ S],
    moved |-> L.moved \/ S # {} ]

-----------------------------------------------------------------------------
(***************************************************************************)
(* What the indexes answer.                                                *)
(***************************************************************************)

\* Mutated: a draining generation no longer answers for its identity.
instanceFor_CurrentOnly(L, i) == {L.currentByIdent[i]} \ {NoGen}
\* instanceFor: the current generation, else one draining out of the slot.
instanceFor(L, i) ==
  IF L.currentByIdent[i] # NoGen
    THEN {L.currentByIdent[i]}
    ELSE {g \in L.retiring[SlotIdent(i)] : IdentOf(g) = i}

\* Controller.status, with "none" for Option.none.
statusOf(L, i) ==
  IF instanceFor(L, i) = {} THEN "none"
  ELSE L.status[CHOOSE g \in instanceFor(L, i) : TRUE]

\* Snapshot.get: a walk over live.all where a current generation wins.
snapshotGet(L, i) ==
  LET entries == {L.status[g] : g \in {h \in All(L) : IdentOf(h) = i}}
      holding == entries \ {"stopping"}
  IN IF holding # {} THEN CHOOSE st \in holding : TRUE
     ELSE IF entries # {} THEN "stopping" ELSE "none"

\* The indexes are exactly what the generations' own fields say.
IdentIndexAgrees(L) ==
  \A i \in Ident, g \in Gen :
    L.currentByIdent[i] = g <=> g \in Authority(L) /\ IdentOf(g) = i
SlotIndexAgrees(L) ==
  \A s \in Slot, g \in Gen :
    L.current[s] = g <=> g \in Authority(L) /\ SlotOf(g) = s
RetiringIndexAgrees(L) ==
  \A s \in Slot : L.retiring[s] = {g \in Obsolete(L) : SlotOf(g) = s}
EdgesAgree(L) ==
  \A h \in Gen :
    /\ L.children[h] = {g \in All(L) : L.owner[g] = h}
    /\ L.dependents[h] = {g \in All(L) : h \in L.providers[g]}

IndexesConsistent(L) ==
  /\ IdentIndexAgrees(L)
  /\ SlotIndexAgrees(L)
  /\ RetiringIndexAgrees(L)
  /\ EdgesAgree(L)

\* A generation with authority stands on a Running owner, which therefore is the
\* one that answers for its owner's identity, and on Running providers.
Supported(L, g) ==
  /\ IF IsRoot(IdentOf(g)) THEN L.owner[g] = NoGen
     ELSE /\ L.owner[g] # NoGen
          /\ IdentOf(L.owner[g]) = Parent(IdentOf(g))
          /\ L.status[L.owner[g]] = "running"
  /\ \A h \in L.providers[g] : L.status[h] = "running"

AuthoritySupported(L) == \A g \in Authority(L) : Supported(L, g)

\* A sequential slot never holds two generations, draining ones included.
Sequential(g) == FamilyOf(IdentOf(g)) \notin Overlap
SlotsExclusive(L) ==
  \A g, h \in All(L) :
    Sequential(g) /\ Sequential(h) /\ SlotOf(g) = SlotOf(h) => g = h
=============================================================================
