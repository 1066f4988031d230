------------------------------ MODULE Closing -------------------------------
(***************************************************************************)
(* Physical generations in the Layer/Atom experiments, and the close of    *)
(* their Scopes.  Effect's Scope is modelled by what the experiments rely  *)
(* on: a close runs the finalizers once, the children admitted last first, *)
(* and a second close of the same Scope returns at once.                   *)
(*                                                                         *)
(* Both kernels retire a whole subtree one generation at a time, with a    *)
(* stop fiber each; so whether a child is closed by its own fiber or by    *)
(* its owner's is a race.                                                  *)
(***************************************************************************)
EXTENDS Naturals, Sequences, FiniteSets, SequencesExt, FiniteSetsExt

CONSTANTS
  Ref,         \* semantic identities
  Incarnation, \* numbers that tell apart the generations of one identity
  NoGen

\* Tokens for generations, reused once nothing remembers them.
Gen == Ref \X Incarnation
refOf(g) == g[1]

ASSUME ClosingAssumption == NoGen \notin Gen /\ Incarnation \subseteq Nat

VARIABLES
  all,        \* the generations the kernel remembers, in order of admission
  inst        \* per token, the generation

Generation == [
  owner     : Gen \cup {NoGen},  \* captured at admission ...
  providers : Seq(Gen),          \* ... and so are these
  status    : {"none", "starting", "running", "failed", "stopping"},
  building  : BOOLEAN,           \* has its startup not been seen to end?
  closing   : {"none", "pending", "done"},   \* the deferred
  scope     : {"none", "open", "closing", "closed"},
  closer    : {"nobody", "self", "owner"},   \* whose close reached the Scope
  stopFiber : BOOLEAN,           \* waiting for the finalization boundary
  cleanup   : BOOLEAN]           \* after a failed startup

Nobody == [owner |-> NoGen, providers |-> << >>, status |-> "none", building |-> FALSE,
           closing |-> "none", scope |-> "none", closer |-> "nobody",
           stopFiber |-> FALSE, cleanup |-> FALSE]

\* Those with authority.  The indexes by identity, family and slot are set where
\* status is, so they are read off it.
Live(is) == {g \in Gen : is[g].status \in {"starting", "running", "failed"}}

runs(g) == g # NoGen /\ inst[g].status = "running"

\* What g was admitted on.
standsOn(g) == ({inst[g].owner} \cup Range(inst[g].providers)) \ {NoGen}

\* g and everything it was admitted against, however far.
lineage(g) ==
  LET step(gs) == gs \cup ({inst[h].owner : h \in gs} \ {NoGen})
                     \cup UNION {Range(inst[h].providers) : h \in gs}
      upTo[n \in Nat] == IF n = 0 THEN {g} ELSE step(upTo[n - 1])
  IN upTo[Cardinality(Gen)]

\* Just started, for `owner` and with `providers`.
Admitted(owner, providers) ==
  [Nobody EXCEPT !.owner = owner, !.providers = providers,
                 !.status = "starting", !.building = TRUE, !.scope = "open"]

\* Retired: `closing` is claimed where it is free; a generation whose failed
\* startup is being cleaned up has claimed it, and the stop fiber joins that.
Stopping(gen) ==
  [gen EXCEPT !.status = "stopping", !.stopFiber = TRUE,
              !.closing = IF @ = "none" THEN "pending" ELSE @]

\* Nothing compares itself with a generation that is forgotten and released.
tidied(is, remembered) ==
  [g \in Gen |-> IF /\ g \notin remembered
                    /\ is[g].scope \in {"none", "closed"} /\ ~is[g].building
                  THEN Nobody ELSE is[g]]

Free == {g \in Gen : inst[g] = Nobody}
token(r) == <<r, Min({i \in Incarnation : <<r, i>> \in Free})>>

-----------------------------------------------------------------------------
\* The fiber that claimed the close calls Scope.close ...
closes(g) ==
  /\ inst[g].closing = "pending"
  /\ inst[g].closer = "nobody"
  /\ inst' = [inst EXCEPT ![g].scope = "closing", ![g].closer = "self"]

returned(gen) == [gen EXCEPT !.closing = "done", !.cleanup = FALSE]

\* ... which returns at once from a Scope its owner's close has reached.
findsClosed(g) ==
  /\ inst[g].closing = "pending"
  /\ inst[g].closer = "owner"
  /\ inst' = [inst EXCEPT ![g] = returned(@)]

children(g) == {c \in Gen : inst[c].owner = g}

\* The owner's close goes on to the child admitted last ...
reaches(g, c) ==
  /\ inst[g].scope = "closing"
  /\ c \in children(g) /\ inst[c].scope = "open"
  /\ \A d \in children(g) : inst[d].closer = "owner" => inst[d].scope = "closed"
  /\ \A d \in children(g) \ {c} : inst[d].scope = "open" =>
       \E i, j \in DOMAIN all : i < j /\ all[i] = d /\ all[j] = c
  /\ inst' = [inst EXCEPT ![c].scope = "closing", ![c].closer = "owner"]

\* ... awaits the closes it began itself, and releases what g acquired.  A
\* startup still running is interrupted.
releases(g) ==
  LET released == [inst[g] EXCEPT !.scope = "closed", !.building = FALSE] IN
  /\ inst[g].scope = "closing"
  /\ \A c \in children(g) : /\ inst[c].scope # "open"
                            /\ inst[c].closer = "owner" => inst[c].scope = "closed"
  /\ inst' = tidied([inst EXCEPT ![g] = IF inst[g].closer = "self"
                                          THEN returned(released) ELSE released],
                    Range(all))

allBut(g) == RemoveAt(all, CHOOSE i \in DOMAIN all : all[i] = g)

\* The stop fiber forgets its generation once the close has returned.
stopped(g) ==
  /\ inst[g].stopFiber /\ inst[g].closing = "done"
  /\ all' = allBut(g)
  /\ inst' = tidied([inst EXCEPT ![g].status = "none", ![g].stopFiber = FALSE], Range(all'))

\* A startup ends: with a generation somebody retired meanwhile nothing happens, ...
endsLate(g) ==
  /\ inst[g].building
  /\ inst[g].status # "starting"
  /\ inst' = [inst EXCEPT ![g].building = FALSE]

\* ... one that desire has overtaken is retired, ...
endsOvertaken(g) ==
  inst' = [inst EXCEPT ![g] = Stopping([@ EXCEPT !.building = FALSE])]

\* ... and else it is published; what a failed one acquired is released.
ends(g, ok) ==
  inst' = [inst EXCEPT ![g].building = FALSE,
                       ![g].status = IF ok THEN "running" ELSE "failed",
                       ![g].closing = IF ok THEN @ ELSE "pending",
                       ![g].cleanup = ~ok]
=============================================================================
