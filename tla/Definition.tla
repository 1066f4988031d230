----------------------------- MODULE Definition -----------------------------
(***************************************************************************)
(* Reconciler.define, bind and make: an application declares families and  *)
(* binds selectors to them, and make either refuses with the first error   *)
(* in the order the compiler meets them or starts a Controller on the      *)
(* compiled Definition.                                                    *)
(*                                                                         *)
(* A handle is named by the number of its family; Foreign stands for       *)
(* anything that is not a handle of this Definition.  A requirement's name *)
(* is its position.                                                        *)
(***************************************************************************)
EXTENDS Naturals, Sequences, FiniteSets, SequencesExt

CONSTANTS
  Declarable,   \* Declarable[n]: what the n-th family may be declared with
  Bindable,     \* the entries a Binding may list
  MaxBound,     \* Definitions of more families are not bound (bounds the model)
  MaxEntries,   \* entries a Binding lists at most (bounds the model)
  Foreign       \* a handle of another Definition, or no handle at all

NoOwner == 0

\* What define.one and define.many take.
Declaration ==
  [cardinality : {"one", "many"}, owner : Nat \cup {Foreign},
   requires : Seq((Nat \ {NoOwner}) \cup {Foreign}),
   observes : BOOLEAN, declaresObservation : BOOLEAN]

ASSUME DefinitionAssumption ==
  /\ Foreign \notin Nat
  /\ \A n \in DOMAIN Declarable : Declarable[n] \subseteq Declaration
  /\ \A e \in Bindable : e.observe \in BOOLEAN

VARIABLES
  families,   \* the InternalHandles, in creation order
  entries,    \* the Binding's entries, in record order
  made        \* what make answered: "none" before it is called

vars == <<families, entries, made>>

Ok == [tag |-> "ok"]
Refused(tag, n) == [tag |-> tag, at |-> n]

-----------------------------------------------------------------------------
(***************************************************************************)
(* compileDefinition visits the families in creation order.  Its state is  *)
(* the error it has stopped at, and the families compiled so far.          *)
(***************************************************************************)
\* The compiled form of one requirement of a family whose ancestors are `above`.
Resolve(compiled, above, p) ==
  LET chain == compiled[p].chain IN
  IF IsPrefix(chain, above)
    THEN [family |-> p, kind |-> "ancestor", depth |-> Len(chain)]
    ELSE [family |-> p, kind |-> "collateral", depth |-> Len(chain) - 1]

\* Mutated: a provider need not be owned by an ancestor of the dependent.
RequirementError_AnyBranch(hs, compiled, above, n, p) ==
  IF p = Foreign THEN "ForeignRequirement"
  ELSE IF p >= n THEN "CapabilityCycle"
  ELSE IF IsPrefix(compiled[p].chain, above) \/ hs[p].cardinality = "one" THEN "ok"
  ELSE "AmbiguousProvider"
\* Mutated: a provider of which there are many is accepted beside the dependent.
RequirementError_AnyCardinality(hs, compiled, above, n, p) ==
  IF p = Foreign THEN "ForeignRequirement"
  ELSE IF p >= n THEN "CapabilityCycle"
  ELSE IF IsPrefix(Front(compiled[p].chain), above) THEN "ok"
  ELSE "UnresolvableProvider"
\* The requirement's provider must be declared earlier, and either be an
\* ancestor or the one instance owned by an ancestor or by the root.
RequirementError(hs, compiled, above, n, p) ==
  IF p = Foreign THEN "ForeignRequirement"
  ELSE IF p >= n THEN "CapabilityCycle"
  ELSE IF IsPrefix(compiled[p].chain, above) THEN "ok"
  ELSE IF ~IsPrefix(Front(compiled[p].chain), above) THEN "UnresolvableProvider"
  ELSE IF hs[p].cardinality # "one" THEN "AmbiguousProvider"
  ELSE "ok"

\* The first error among the requirements, in declaration order.
RequirementsError(hs, compiled, above, n) ==
  LET verdict(r) == RequirementError(hs, compiled, above, n, hs[n].requires[r])
      wrong == {r \in DOMAIN hs[n].requires : verdict(r) # "ok"}
  IN IF wrong = {} THEN "ok" ELSE verdict(Min(wrong))

\* The chain of n's owner.
ownerChain(hs, compiled, n) ==
  IF hs[n].owner = NoOwner THEN << >> ELSE compiled[hs[n].owner].chain

\* The first error in the declaration of n.
DeclarationError(hs, compiled, n) ==
  LET h == hs[n] IN
  IF h.owner = Foreign THEN "ForeignOwner"
  ELSE IF h.owner # NoOwner /\ h.owner >= n THEN "OwnershipCycle"
  ELSE IF h.declaresObservation /\ ~h.observes THEN "ObservationRequired"
  ELSE RequirementsError(hs, compiled, ownerChain(hs, compiled, n), n)

\* The compiled form of n.
CompiledFamily(hs, compiled, n) ==
  LET h == hs[n]
      above == ownerChain(hs, compiled, n)
  IN [cardinality |-> h.cardinality, ownerId |-> h.owner, chain |-> Append(above, n),
      requires |-> [r \in DOMAIN h.requires |-> Resolve(compiled, above, h.requires[r])],
      observes |-> h.observes]

compileFamily(hs, done, n) ==
  LET wrong == DeclarationError(hs, done.compiled, n) IN
  IF done.error # Ok THEN done
  ELSE IF wrong # "ok" THEN [done EXCEPT !.error = Refused(wrong, n)]
  ELSE [done EXCEPT !.compiled = Append(@, CompiledFamily(hs, done.compiled, n))]

compileDefinition(hs) ==
  LET upTo[n \in 0 .. Len(hs)] ==
        IF n = 0 THEN [error |-> Ok, compiled |-> << >>] ELSE compileFamily(hs, upTo[n - 1], n)
  IN upTo[Len(hs)]

-----------------------------------------------------------------------------
(***************************************************************************)
(* compileBinding: first the entries in record order, then the families in *)
(* creation order.                                                         *)
(***************************************************************************)
EntryError(hs, es, e) ==
  IF es[e].handle = Foreign THEN "ForeignHandle"
  ELSE IF hs[es[e].handle].cardinality # es[e].cardinality THEN "CardinalityMismatch"
  ELSE IF \E d \in 1 .. (e - 1) : es[d].handle = es[e].handle THEN "DuplicateBinding"
  ELSE "ok"

FamilyError(compiled, es, n) ==
  LET bound == {e \in DOMAIN es : es[e].handle = n} IN
  IF bound = {} THEN "MissingBinding"
  ELSE IF compiled[n].observes /\ \E e \in bound : ~es[e].observe THEN "MissingObservation"
  ELSE IF ~compiled[n].observes /\ \E e \in bound : es[e].observe THEN "UnexpectedObservation"
  ELSE "ok"

compileBinding(hs, compiled, es) ==
  LET wrongEntries == {e \in DOMAIN es : EntryError(hs, es, e) # "ok"}
      wrongFamilies == {n \in DOMAIN compiled : FamilyError(compiled, es, n) # "ok"}
      entry == Min(wrongEntries)
      family == Min(wrongFamilies)
  IN IF wrongEntries # {} THEN Refused(EntryError(hs, es, entry), entry)
     ELSE IF wrongFamilies # {} THEN Refused(FamilyError(compiled, es, family), family)
     ELSE Ok

-----------------------------------------------------------------------------
Init ==
  /\ families = << >>
  /\ entries = << >>
  /\ made = [tag |-> "none"]

\* define.one, define.many: the handle takes the next family number.
makeHandle ==
  /\ made.tag = "none"
  /\ entries = << >>
  /\ Len(families) < Len(Declarable)
  /\ \E h \in Declarable[Len(families) + 1] : families' = Append(families, h)
  /\ UNCHANGED <<entries, made>>

\* bind.one, bind.many.
bind ==
  /\ made.tag = "none"
  /\ families # << >>
  /\ Len(families) <= MaxBound
  /\ Len(entries) < MaxEntries
  /\ \E e \in Bindable :
       /\ e.handle = Foreign \/ e.handle \in DOMAIN families
       /\ entries' = Append(entries, e)
  /\ UNCHANGED <<families, made>>

make ==
  /\ made.tag = "none"
  /\ LET c == compileDefinition(families) IN
     made' = IF c.error # Ok THEN c.error ELSE compileBinding(families, c.compiled, entries)
  /\ UNCHANGED <<families, entries>>

Terminated == made.tag # "none" /\ UNCHANGED vars

Next == makeHandle \/ bind \/ make \/ Terminated

Spec == Init /\ [][Next]_vars

-----------------------------------------------------------------------------
(***************************************************************************)
(* What make promises, against the declarations themselves.                *)
(***************************************************************************)
Declared == DOMAIN families
Owner(n) == families[n].owner

\* The families strictly above n, by the owner each was declared with.
Above[n \in Declared] ==
  IF Owner(n) \notin 1..(n - 1) THEN {} ELSE {Owner(n)} \cup Above[Owner(n)]

\* One provider instance answers, whatever keys are desired.
Determined(p, n) ==
  \/ p \in Above[n]
  \/ families[p].cardinality = "one" /\ Owner(p) \in Above[n] \cup {NoOwner}

Compiled == compileDefinition(families).compiled
Accepted == compileDefinition(families).error = Ok

\* Every family hangs below an earlier one, every requirement determines one
\* provider that comes earlier, and whoever reads projected state observes some.
WellDeclared ==
  \A n \in Declared :
    /\ Owner(n) \in {NoOwner} \cup 1..(n - 1)
    /\ families[n].declaresObservation => families[n].observes
    /\ \A r \in DOMAIN families[n].requires :
         /\ families[n].requires[r] \in 1..(n - 1)
         /\ Determined(families[n].requires[r], n)

\* Every family has exactly one selector, of its own cardinality, and a
\* projection exactly if it observes.
BoundOnce ==
  /\ \A e \in DOMAIN entries : entries[e].handle \in Declared
  /\ \A n \in Declared : \E e \in DOMAIN entries :
       /\ {d \in DOMAIN entries : entries[d].handle = n} = {e}
       /\ entries[e].cardinality = families[n].cardinality
       /\ entries[e].observe = families[n].observes

\* The compiler stops at the first error it meets, yet accepts exactly the
\* well-declared Definitions, and exactly the complete Bindings of those.
MadeIffWellDeclared ==
  made.tag # "none" =>
    /\ Accepted <=> WellDeclared
    /\ Accepted => (made = Ok <=> BoundOnce)

Topo == INSTANCE Topology WITH
  NFamilies <- Len(families),
  OwnerId <- [n \in Declared |-> Owner(n)],
  Requires <- [n \in Declared |-> Range(families[n].requires)],
  Cardinality1 <- {n \in Declared : families[n].cardinality = "one"},
  Observing <- {n \in Declared : families[n].observes},
  Overlap <- {}, Restarting <- {}, KeysOf <- [n \in Declared |-> {}],
  Projection <- {}, OneSlot <- "slot", NoProjection <- "none"

\* Each compiled requirement, followed along the dependent's own chain as
\* resolveProvider follows it, arrives at the provider, or at its owner.
RequirementsArrive ==
  \A n \in Declared : \A r \in DOMAIN families[n].requires :
    LET q == Compiled[n].requires[r]
        at == IF q.depth = 0 THEN NoOwner ELSE Compiled[n].chain[q.depth]
    IN /\ q.family = families[n].requires[r]
       /\ at = IF q.kind = "ancestor" THEN q.family ELSE Owner(q.family)

\* What every other module assumes of the compiled Definition holds of each one
\* that compileDefinition accepts.
AcceptedIsWellFormed ==
  made.tag # "none" /\ Accepted => Topo!WellFormed /\ RequirementsArrive
=============================================================================
