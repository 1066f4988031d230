------------------------------ MODULE Topology ------------------------------
(***************************************************************************)
(* The static architecture a Definition compiles to, the semantic          *)
(* identities it gives rise to, and the desired snapshots a Binding can    *)
(* produce against it.                                                     *)
(*                                                                         *)
(* Families are numbered as compileDefinition numbers them: owners and     *)
(* providers precede the families that name them, and 0 stands for "no     *)
(* owner".  A key is an opaque value compared by equality only.            *)
(***************************************************************************)
EXTENDS Naturals, Sequences, FiniteSets, SequencesExt

CONSTANTS
  NFamilies,    \* how many families the Definition declares
  OwnerId,      \* owner of each family, 0 for a root family
  Requires,     \* the provider families each family names
  Cardinality1, \* the families of cardinality "one"; the others are "many"
  Overlap,      \* the families whose replacement policy is "overlap"
  Restarting,   \* the families supervised by Supervision.restart
  Observing,    \* the families that observe projected state
  KeysOf,       \* the key values a Binding may desire, per family
  Projection,   \* the projected values an observing family may be handed
  OneSlot,      \* stands in for the key in the slot of a "one" family
  NoProjection  \* what a family that observes nothing is handed

Family == 1..NFamilies

\* Family ids from the root family down to f, f included.
Chain[f \in Family] ==
  IF OwnerId[f] = 0 THEN <<f>> ELSE Append(Chain[OwnerId[f]], f)

OwnerChain(f) == Front(Chain[f])

\* A requirement names a strict ancestor of the dependent ...
IsAncestor(p, f) == IsPrefix(Chain[p], OwnerChain(f))

\* ... or the single instance of a "one" family beside its ancestors.
IsCollateral(p, f) ==
  /\ ~IsAncestor(p, f)
  /\ IsPrefix(OwnerChain(p), OwnerChain(f))
  /\ p \in Cardinality1

\* What compileDefinition guarantees of every Definition it accepts.
WellFormed ==
  /\ NFamilies \in Nat
  /\ OwnerId \in [Family -> Nat]
  /\ \A f \in Family : OwnerId[f] < f
  /\ Requires \in [Family -> SUBSET Family]
  /\ \A f \in Family : \A p \in Requires[f] :
        p < f /\ (IsAncestor(p, f) \/ IsCollateral(p, f))
  /\ Cardinality1 \subseteq Family
  /\ Overlap \subseteq Family
  /\ Restarting \subseteq Family
  /\ Observing \subseteq Family
  /\ DOMAIN KeysOf = Family
  /\ \A f \in Family : OneSlot \notin KeysOf[f]
  /\ NoProjection \notin Projection

ASSUME TopologyAssumption == WellFormed

-----------------------------------------------------------------------------
(***************************************************************************)
(* Semantic identity: a family and a key under an owner's identity, which  *)
(* is to say the sequence of <<family, key>> pairs along the owner chain.  *)
(* Two identities are equal exactly when those sequences are.              *)
(***************************************************************************)
IdentsOf(f) ==
  { i \in [1..Len(Chain[f]) -> UNION {{h} \X KeysOf[h] : h \in Family}] :
      \A n \in DOMAIN i : i[n][1] = Chain[f][n] }

Ident == UNION {IdentsOf(f) : f \in Family}

FamilyOf(i) == Last(i)[1]
IsRoot(i) == Len(i) = 1
Parent(i) == Front(i)

\* The replacement slot an identity competes for: one per owner for a "one"
\* family, its own for a "many" family.
SlotIdent(i) ==
  IF FamilyOf(i) \in Cardinality1
    THEN [i EXCEPT ![Len(i)] = <<FamilyOf(i), OneSlot>>]
    ELSE i

Slot == {SlotIdent(i) : i \in Ident}

\* The desired nodes that answer i's requirement on family p: its ancestor of
\* that family, or the node of that family under the owner they share.
Candidates(D, i, p) ==
  { j \in D : /\ FamilyOf(j) = p
              /\ \/ IsPrefix(j, Parent(i))
                 \/ IsCollateral(p, FamilyOf(i)) /\ IsPrefix(Front(j), Parent(i)) }

-----------------------------------------------------------------------------
(***************************************************************************)
(* A desired snapshot maps each desired identity to the projection that    *)
(* accompanies it.  evaluate only ever desires a child beneath a desired   *)
(* owner, refuses a duplicate identity, and asks a "one" family for at     *)
(* most one key per owner.                                                 *)
(***************************************************************************)
Coherent(D) ==
  /\ D \subseteq Ident
  /\ \A i \in D : IsRoot(i) \/ Parent(i) \in D
  /\ \A i, j \in D : SlotIdent(i) = SlotIdent(j) => i = j

DesiredSnapshot ==
  UNION { { d \in [D -> Projection \cup {NoProjection}] :
              \A i \in D : d[i] = NoProjection <=> FamilyOf(i) \notin Observing } :
          D \in {S \in SUBSET Ident : Coherent(S)} }

EmptySnapshot == << >>
=============================================================================
