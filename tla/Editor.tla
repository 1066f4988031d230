------------------------------- MODULE Editor -------------------------------
(***************************************************************************)
(* The hand-written editor runtime of the Layer/Atom experiment: six       *)
(* families, one Atom of desire, no compiled definition.  Diagnostics is   *)
(* the diamond: it lives under a Document and captures the outputs of      *)
(* Settings and Language.                                                  *)
(*                                                                         *)
(* A write of the Model reaches `desired` synchronously and takes no       *)
(* mutex; startups and finalizers end whenever they like; one loop         *)
(* reconciles.                                                             *)
(***************************************************************************)
EXTENDS Closing

CONSTANTS
  Models,     \* what the application commits
  Null,       \* no session, no workspace
  Overlap,    \* families whose replacement overlaps
  Fallible,   \* identities whose startup may fail
  Few         \* a bound: shutdown comes while no more than this many are remembered

\* An identity is the path of <<family, key>> from its root owner.
family(r) == Last(r)[1]
key(r) == Last(r)[2]

ASSUME EditorAssumption ==
  /\ \A r \in Ref : /\ r \in Seq(Range(r)) /\ r # << >>
                    /\ \A i \in DOMAIN r : r[i] = <<r[i][1], r[i][2]>>
  /\ \A m \in Models :
       /\ m = [settings |-> m.settings, session |-> m.session, workspace |-> m.workspace,
               language |-> m.language, documents |-> m.documents]
       /\ m.documents \in Seq(Range(m.documents))
  /\ Few \in Nat

VARIABLES
  desired,    \* what desiredAtom last published
  loop,       \* waiting, due (latch taken), or admitting (holds the mutex)
  wake,       \* the latch the loop waits for
  owed,       \* wakeVersion # reconciledVersion
  converged,  \* the latch `idle` waits for
  phase       \* open, closing, closed

wakes == <<wake, owed, converged>>
vars == <<desired, all, inst, loop, wakes, phase>>

\* desiredAtom: nothing below an absent owner is desired.
desiredBy(m) ==
  LET w == IF m.session = Null THEN Null ELSE m.workspace IN
  [m EXCEPT !.workspace = w, !.documents = IF w = Null THEN << >> ELSE @]

emptyModel ==
  [settings |-> 1, session |-> Null, workspace |-> Null, language |-> "typescript",
   documents |-> << >>]

TypeOK ==
  /\ desired \in {desiredBy(m) : m \in Models \cup {emptyModel}}
  /\ Range(all) \subseteq Gen
  /\ inst \in [Gen -> Generation]
  /\ loop \in {"waiting", "due", "admitting"}
  /\ {wake, owed, converged} \subseteq BOOLEAN
  /\ phase \in {"open", "closing", "closed"}

Init ==
  /\ desired = desiredBy(emptyModel)   \* subscribed with immediate: true
  /\ all = << >>
  /\ inst = [g \in Gen |-> Nobody]
  /\ loop = "waiting"
  /\ wake = TRUE /\ owed = TRUE /\ converged = FALSE
  /\ phase = "open"

-----------------------------------------------------------------------------
(***************************************************************************)
(* The six indexes: set by start, cleared by retire.                       *)
(***************************************************************************)
PerUri == {"Document", "Diagnostics"}

\* Who holds the place of r: of its family, and of its document if it has one.
holder(is, f, k) ==
  LET gs == {g \in Live(is) : /\ family(refOf(g)) = f
                              /\ f \in PerUri => key(refOf(g)) = k}
  IN IF gs = {} THEN NoGen ELSE CHOOSE g \in gs : TRUE
only(is, f) == holder(is, f, Null)

\* The owner and the providers a generation of r would have now.
ownerNow(is, r) ==
  CASE family(r) = "Workspace" -> only(is, "Session")
    [] family(r) \in {"Language", "Document"} -> only(is, "Workspace")
    [] family(r) = "Diagnostics" -> holder(is, "Document", key(r))
    [] OTHER -> NoGen
providersNow(is, r) ==
  IF family(r) = "Diagnostics" THEN <<only(is, "Settings"), only(is, "Language")>>
                               ELSE << >>

\* Does the Model name r's key?
wanted(r) ==
  CASE family(r) = "Settings" -> key(r) = desired.settings
    [] family(r) = "Session" -> key(r) = desired.session
    [] family(r) = "Workspace" -> desired.workspace # Null /\ key(r) = desired.workspace
    [] family(r) = "Language" -> key(r) = desired.language
    [] OTHER -> key(r) \in Range(desired.documents)

\* A slot stands below the owner's identity, not below its generation.
slotFor(r) == <<family(r), IF family(r) \in PerUri THEN r ELSE Front(r)>>

inSlot(is, r, statuses) ==
  {g \in Gen : is[g].status \in statuses /\ slotFor(refOf(g)) = slotFor(r)}

-----------------------------------------------------------------------------
(***************************************************************************)
(* Wakes, and writes of the Model.                                         *)
(***************************************************************************)
wakeUp == wake' = TRUE /\ owed' = TRUE /\ converged' = FALSE

mutex == loop # "admitting"

-----------------------------------------------------------------------------
(***************************************************************************)
(* What a pass would do.                                                   *)
(***************************************************************************)
\* Mutated: Diagnostics is compared with its document, not with its providers.
keeps_OwnerOnly(is, g) ==
  /\ family(refOf(g)) = "Diagnostics" \/ wanted(refOf(g))
  /\ inst[g].owner = ownerNow(is, refOf(g))
\* Does g still stand?
keeps(is, g) ==
  /\ family(refOf(g)) = "Diagnostics" \/ wanted(refOf(g))
  /\ inst[g].owner = ownerNow(is, refOf(g))
  /\ inst[g].providers = providersNow(is, refOf(g))

\* What does not stand goes, of one family ...
sweep(is, f) ==
  [g \in Gen |-> IF g \in Live(is) /\ family(refOf(g)) = f /\ ~keeps(is, g)
                   THEN [is[g] EXCEPT !.status = "stopping"] ELSE is[g]]

\* ... after the other, so that what stood on a retired generation goes in the
\* same pass.
swept ==
  LET roots == sweep(sweep(inst, "Settings"), "Session")
      below == sweep(sweep(roots, "Workspace"), "Language")
  IN sweep(sweep(below, "Document"), "Diagnostics")

\* Mutated: what drains in the slot is not waited for.
canAdmit_Early(is, r) == inSlot(is, r, {"starting", "running", "failed"}) = {}
canAdmit(is, r) ==
  /\ inSlot(is, r, {"starting", "running", "failed"}) = {}
  /\ family(r) \in Overlap \/ inSlot(is, r, {"stopping"}) = {}

\* Is the place of r empty, with all it needs running and its slot free?
admissible(is, r) ==
  /\ holder(is, family(r), key(r)) = NoGen
  /\ family(r) \in {"Settings", "Session"} \/ runs(ownerNow(is, r))
  /\ \A p \in Range(providersNow(is, r)) : runs(p)
  /\ canAdmit(is, r)

\* What desire names, beneath the owners there are, in the order of admit.
named(is) ==
  LET below(g, f, k) == Append(IF g = NoGen THEN << >> ELSE refOf(g), <<f, k>>)
      one(k, r) == IF k = Null THEN << >> ELSE <<r>>
      workspace == only(is, "Workspace")
      uris == desired.documents
  IN <<below(NoGen, "Settings", desired.settings)>> \o
     one(desired.session, below(NoGen, "Session", desired.session)) \o
     one(desired.workspace, below(only(is, "Session"), "Workspace", desired.workspace)) \o
     <<below(workspace, "Language", desired.language)>> \o
     [i \in DOMAIN uris |-> below(workspace, "Document", uris[i])] \o
     [i \in DOMAIN uris |-> below(holder(is, "Document", uris[i]), "Diagnostics", uris[i])]

\* `rs`, and r after them where it may start.  A place that was filled a moment
\* ago (a document listed twice) is taken, `documents.has`.
admit(is, rs, r) == IF admissible(is, r) /\ r \notin Range(rs) THEN Append(rs, r) ELSE rs

\* What a pass starts, in order.
admitted(is) ==
  LET names == named(is)
      upTo[i \in 0 .. Len(names)] == IF i = 0 THEN << >> ELSE admit(is, upTo[i - 1], names[i])
  IN upTo[Len(names)]

\* The bound: a pass goes ahead when there are tokens for what it starts.
room(is) == \A r \in Range(admitted(is)) : Free \cap ({r} \X Incarnation) # {}

-----------------------------------------------------------------------------
\* The Atom is written: synchronous, whatever the loop is doing.
commit(m) ==
  /\ phase = "open"
  /\ desired' = desiredBy(m)
  /\ desired' # desired
  /\ wakeUp
  /\ UNCHANGED <<all, inst, loop, phase>>

retire(gs) == inst' = [g \in Gen |-> IF g \in gs THEN Stopping(inst[g]) ELSE inst[g]]

\* The cleanup of a failed startup asks for a pass when its close returns.
asksForPass(g) == IF inst[g].cleanup THEN wakeUp ELSE UNCHANGED wakes

closeInstance(g) ==
  /\ \/ closes(g) /\ UNCHANGED wakes
     \/ findsClosed(g) /\ asksForPass(g)
  /\ UNCHANGED <<desired, all, loop, phase>>

ScopeCloses(g) ==
  /\ \/ releases(g) /\ (IF inst[g].closer = "self" THEN asksForPass(g) ELSE UNCHANGED wakes)
     \/ \E c \in Gen : reaches(g, c) /\ UNCHANGED wakes
  /\ UNCHANGED <<desired, all, loop, phase>>

\* The end of beginStop forgets and wakes in one section.
StopEnds(g) ==
  /\ mutex
  /\ stopped(g)
  /\ wakeUp
  /\ UNCHANGED <<desired, loop, phase>>

-----------------------------------------------------------------------------
(***************************************************************************)
(* Startup.                                                                *)
(***************************************************************************)
startupIsAuthoritative(g) ==
  \A h \in lineage(g) : h \in Live(inst) /\ wanted(refOf(h))

Completed(g, ok) ==
  /\ mutex
  /\ inst[g].building
  /\ ok \/ refOf(g) \in Fallible
  /\ inst[g].status = "starting"
  /\ \/ ~startupIsAuthoritative(g) /\ endsOvertaken(g) /\ UNCHANGED wakes
     \/ startupIsAuthoritative(g) /\ ends(g, ok) /\ wakeUp
  /\ UNCHANGED <<desired, all, loop, phase>>

CompletedLate(g) ==
  /\ mutex
  /\ endsLate(g)
  /\ UNCHANGED <<desired, all, loop, wakes, phase>>

-----------------------------------------------------------------------------
(***************************************************************************)
(* The loop.                                                               *)
(***************************************************************************)
LoopTakes ==
  /\ loop = "waiting"
  /\ wake
  /\ wake' = FALSE
  /\ loop' = "due"
  /\ UNCHANGED <<desired, all, inst, owed, converged, phase>>

PassInvalidates ==
  /\ loop = "due"
  /\ phase = "open"
  /\ loop' = "admitting"
  /\ owed' = FALSE
  /\ retire({g \in Gen : swept[g] # inst[g]})
  /\ UNCHANGED <<desired, all, wake, converged, phase>>

PassIsLate ==
  /\ loop = "due"
  /\ phase # "open"
  /\ loop' = "waiting"
  /\ UNCHANGED <<desired, all, inst, wakes, phase>>

isSettled(is, remembered) ==
  /\ ~owed
  /\ \A g \in remembered : /\ is[g].status \notin {"starting", "stopping"}
                           /\ is[g].closing # "pending"

\* It reads desire again: a commit may have come since.
PassAdmits ==
  LET new == admitted(inst) IN
  /\ loop = "admitting"
  /\ room(inst)
  /\ loop' = "waiting"
  /\ all' = all \o [i \in DOMAIN new |-> token(new[i])]
  /\ inst' = [g \in Gen |->
       IF g \in {token(r) : r \in Range(new)}
         THEN Admitted(ownerNow(inst, refOf(g)), providersNow(inst, refOf(g)))
         ELSE inst[g]]
  /\ converged' = (converged \/ isSettled(inst', Range(all')))
  /\ UNCHANGED <<desired, wake, owed, phase>>

-----------------------------------------------------------------------------
(***************************************************************************)
(* What else the application calls.                                        *)
(***************************************************************************)
retryLanguage ==
  LET language == only(inst, "Language") IN
  /\ mutex
  /\ language # NoGen
  /\ inst[language].status = "failed"
  /\ retire({language})
  /\ wakeUp
  /\ UNCHANGED <<desired, all, loop, phase>>

shutdown ==
  /\ Len(all) <= Few
  /\ mutex
  /\ phase = "open"
  /\ phase' = "closing"
  /\ retire(Live(inst))
  /\ UNCHANGED <<desired, all, loop, wakes>>

\* The root Scope awaits the stop fibers and what they finalize.
ShutdownEnds ==
  /\ phase = "closing"
  /\ inst = [g \in Gen |-> Nobody]
  /\ phase' = "closed"
  /\ UNCHANGED <<desired, all, inst, loop, wakes>>

-----------------------------------------------------------------------------
Next ==
  \/ \E m \in Models : commit(m)
  \/ retryLanguage \/ shutdown \/ ShutdownEnds
  \/ LoopTakes \/ PassInvalidates \/ PassIsLate \/ PassAdmits
  \/ \E g \in Gen : \/ closeInstance(g) \/ ScopeCloses(g) \/ StopEnds(g)
                    \/ CompletedLate(g) \/ \E ok \in BOOLEAN : Completed(g, ok)

Spec == Init /\ [][Next]_vars

-----------------------------------------------------------------------------
\* What a Model asks for, said without passes: the identities it names ...
lifetimes(d) ==
  LET session == <<<<"Session", d.session>>>>
      workspace == Append(session, <<"Workspace", d.workspace>>)
      documents == {Append(workspace, <<"Document", uri>>) : uri \in Range(d.documents)}
  IN {<<<<"Settings", d.settings>>>>}
     \cup (IF d.session = Null THEN {} ELSE {session})
     \cup (IF d.workspace = Null THEN {}
           ELSE {workspace, Append(workspace, <<"Language", d.language>>)} \cup documents
                \cup {Append(r, <<"Diagnostics", key(r)>>) : r \in documents})

\* ... and what each is to stand on.
bases(d, r) ==
  ({Front(r)} \ {<< >>}) \cup
  IF family(r) # "Diagnostics" THEN {}
  ELSE {<<<<"Settings", d.settings>>>>,
        Append(SubSeq(r, 1, 2), <<"Language", d.language>>)}

\* When `idle` returns, the generations are those the Model asks for, one of
\* each, as far as what they need did not fail; and each stands on the running
\* generations that are there, never on one that was replaced.
SettledMatchesModel ==
  LET running == {g \in Range(all) : inst[g].status = "running"}
      refs(gs) == {refOf(g) : g \in gs}
  IN
  phase = "open" /\ mutex /\ isSettled(inst, Range(all)) =>
    /\ refs(Range(all)) = {r \in lifetimes(desired) : bases(desired, r) \subseteq refs(running)}
    /\ Cardinality(refs(Range(all))) = Len(all)
    /\ \A g \in Range(all) : /\ standsOn(g) \subseteq running
                             /\ refs(standsOn(g)) = bases(desired, refOf(g))

Rivals == {p \in Gen \X Gen : /\ p[1] # p[2] /\ slotFor(refOf(p[1])) = slotFor(refOf(p[2]))
                              /\ family(refOf(p[1])) \notin Overlap}

\* What the close of an owner has reached is the owner's to release: a stop
\* fiber may forget its generation before that is done.
Promise == INSTANCE Lifetimes WITH
  status <- [g \in Gen |-> inst[g].status],
  stands <- [g \in Gen |-> IF inst[g].status = "none" THEN {} ELSE standsOn(g)],
  held <- [g \in Gen |-> inst[g].scope \in {"open", "closing"} /\ inst[g].closer # "owner"]

\* The runtime keeps what Lifetimes promises: a start only on what runs and in
\* an empty slot, a retirement together with all that stands on it, whatever
\* commits, completions and closes come in between.
EditorImplementsLifetimes == Promise!Spec
=============================================================================
