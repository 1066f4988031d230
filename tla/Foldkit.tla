------------------------------ MODULE Foldkit ------------------------------
(***************************************************************************)
(* The editor feature as an application coordinates it by hand: the        *)
(* hand-written supervisor of examples/foldkit/before/app.ts on the        *)
(* headless runtime of driver.ts.                                          *)
(*                                                                         *)
(* A dispatch is one step: update, the Commands it asks for, and the       *)
(* Managed Resource brought in line with the new Model.  What the backend  *)
(* is asked to do takes as long as it takes, in any order, and its answer  *)
(* is dispatched as the work ends.  The one user and one workspace there   *)
(* are come and go; the diagnostics stream restarts within the dispatch    *)
(* that changes the server and is left out.                                *)
(***************************************************************************)
EXTENDS Naturals, FiniteSetsExt

CONSTANTS
  Language,     \* the languages a user can choose
  Unsupported,  \* those whose server cannot be started
  Uri,          \* documents
  Revision,     \* settings revisions
  MaxAttempts,  \* bound: presses of Retry
  MaxServers,   \* bounds: tokens for server ids and analyzer ids, reused once
  MaxHandles,   \* nothing remembers them
  None

Server == 1 .. MaxServers
Handle == 1 .. MaxHandles

Requirements == [language : Language, attempt : 0 .. MaxAttempts]
Held == [requirements : Requirements, server : Server]

ASSUME FoldkitAssumption ==
  /\ Unsupported \subseteq Language
  /\ {MaxAttempts, MaxServers, MaxHandles} \subseteq Nat
  /\ None \notin Server \cup Requirements \cup Held

VARIABLES
  model,      \* the application's Model
  resource,   \* `resources`: what the driver holds, or None
  acquiring,  \* the requirements of the acquisition in flight, or None
  failed,     \* those of the last failed one, or None
  tasks,      \* the other tracked fibers
  running     \* the analyzers that exist in the backend

vars == <<model, resource, acquiring, failed, tasks, running>>

Model == [user : BOOLEAN, workspace : BOOLEAN, language : Language, revision : Revision,
          open : SUBSET Uri, unavailable : BOOLEAN, server : Server \cup {None},
          analyzers : SUBSET [uri : Uri, handle : Handle, server : Server, revision : Revision],
          starting : SUBSET Uri, stopping : SUBSET Uri, attempt : 0 .. MaxAttempts]

Release(s) == [op |-> "release", server |-> s]
Start(u, s, rev) == [op |-> "start", uri |-> u, server |-> s, revision |-> rev]
Stop(u, h) == [op |-> "stop", uri |-> u, handle |-> h]

Init ==
  /\ \E l \in Language, rev \in Revision :
       model = [user |-> FALSE, workspace |-> FALSE, language |-> l, revision |-> rev,
                open |-> {}, unavailable |-> FALSE, server |-> None, analyzers |-> {},
                starting |-> {}, stopping |-> {}, attempt |-> 0]
  /\ resource = None /\ acquiring = None /\ failed = None
  /\ tasks = {} /\ running = {}

-----------------------------------------------------------------------------
(***************************************************************************)
(* The supervisor the application runs after every message.                *)
(***************************************************************************)
desired(m) == IF m.user /\ m.workspace /\ m.server # None THEN m.open ELSE {}

\* Mutated: an old settings revision does not make an analyzer stale.
stale_AnyRevision(m, a) ==
  \/ a.uri \notin desired(m)
  \/ a.server # m.server
stale(m, a) ==
  \/ a.uri \notin desired(m)
  \/ a.server # m.server
  \/ a.revision # m.revision

obsolete(m) == {a \in m.analyzers : a.uri \notin m.stopping /\ stale(m, a)}
missing(m) == {u \in desired(m) : u \notin m.starting /\ \A a \in m.analyzers : a.uri # u}

reconcileAnalyzers(m) ==
  [model    |-> [m EXCEPT !.starting = @ \cup missing(m),
                          !.stopping = @ \cup {a.uri : a \in obsolete(m)}],
   commands |-> {Stop(a.uri, a.handle) : a \in obsolete(m)}
                \cup {Start(u, m.server, m.revision) : u \in missing(m)}]

-----------------------------------------------------------------------------
(***************************************************************************)
(* The driver.                                                             *)
(***************************************************************************)
wanted(m) == IF m.user /\ m.workspace
               THEN [language |-> m.language, attempt |-> m.attempt] ELSE None

\* none -> some acquires, some -> none releases, some(a) -> some(b) does both at
\* once, and nothing while an acquisition is in flight.  What failed is not tried
\* again until the requirements change or are withdrawn.
syncResources(m, held, busy, lost) ==
  LET want == wanted(m)
      drop == held # None /\ (want = None \/ held.requirements # want)
      take == want # None /\ (held = None \/ drop) /\ (held # None \/ want # lost)
  IN IF busy # None
       THEN [held |-> held, busy |-> busy, lost |-> lost, releases |-> {}]
       ELSE [held     |-> IF drop THEN None ELSE held,
             busy     |-> IF take THEN want ELSE None,
             lost     |-> IF want = None THEN None ELSE lost,
             releases |-> IF drop THEN {Release(held.server)} ELSE {}]

\* Dispatch a message whose update is `result`, with what the fiber that
\* dispatches it left of the driver's state.
dispatch(result, held, busy, lost, fibers) ==
  LET synced == syncResources(result.model, held, busy, lost) IN
  /\ model' = result.model
  /\ resource' = synced.held
  /\ acquiring' = synced.busy
  /\ failed' = synced.lost
  /\ tasks' = fibers \cup result.commands \cup synced.releases

\* A message of the user's.
Does(m) ==
  /\ dispatch(reconcileAnalyzers(m), resource, acquiring, failed, tasks)
  /\ UNCHANGED running

SignedIn == Does([model EXCEPT !.user = TRUE])
SignedOut == Does([model EXCEPT !.user = FALSE, !.workspace = FALSE])
OpenedWorkspace == Does([model EXCEPT !.workspace = TRUE])
ClosedWorkspace == Does([model EXCEPT !.workspace = FALSE])
ChangedLanguage(l) == Does([model EXCEPT !.language = l, !.unavailable = FALSE])
ChangedSettings(rev) == Does([model EXCEPT !.revision = rev])
OpenedDocument(u) == Does([model EXCEPT !.open = @ \cup {u}])
ClosedDocument(u) == Does([model EXCEPT !.open = @ \ {u}])

PressedRetry ==
  /\ model.attempt < MaxAttempts
  /\ Does([model EXCEPT !.unavailable = FALSE, !.attempt = @ + 1])

-----------------------------------------------------------------------------
(***************************************************************************)
(* What the backend answers.                                               *)
(***************************************************************************)
\* The backend numbers what it opens; the least number nobody remembers will do.
next(tokens, used) == IF tokens \subseteq used THEN {} ELSE {Min(tokens \ used)}

servers == {model.server} \cup {a.server : a \in model.analyzers}
           \cup {t.server : t \in {t \in tasks : t.op # "stop"}}
           \cup (IF resource = None THEN {} ELSE {resource.server})

AcquiredServer(s) ==
  /\ acquiring # None
  /\ acquiring.language \notin Unsupported
  /\ s \in next(Server, servers)
  /\ dispatch(reconcileAnalyzers([model EXCEPT !.server = s, !.unavailable = FALSE]),
              [requirements |-> acquiring, server |-> s], None, None, tasks)
  /\ UNCHANGED running

\* Mutated: whatever was asked for meanwhile, the failure is put down to that.
FailedAcquireServer_Misattributed ==
  /\ acquiring # None
  /\ acquiring.language \in Unsupported
  /\ dispatch(reconcileAnalyzers([model EXCEPT !.server = None, !.unavailable = TRUE]),
              None, None, wanted(model), tasks)
  /\ UNCHANGED running
FailedAcquireServer ==
  /\ acquiring # None
  /\ acquiring.language \in Unsupported
  /\ dispatch(reconcileAnalyzers([model EXCEPT !.server = None, !.unavailable = TRUE]),
              None, None, acquiring, tasks)
  /\ UNCHANGED running

ReleasedServer(t) ==
  /\ t \in tasks /\ t.op = "release"
  /\ dispatch(reconcileAnalyzers([model EXCEPT !.server = None]),
              resource, acquiring, failed, tasks \ {t})
  /\ UNCHANGED running

handles == {a.handle : a \in running}

\* A start that ended too late is stopped again, and nothing else is reconsidered.
StartedAnalyzer(t, h) ==
  LET came == [model EXCEPT !.starting = @ \ {t.uri}]
      late == \/ t.server # model.server
              \/ t.revision # model.revision
              \/ t.uri \notin model.open
  IN
  /\ t \in tasks /\ t.op = "start"
  /\ h \in next(Handle, handles)
  /\ running' = running \cup {[uri |-> t.uri, handle |-> h]}
  /\ dispatch(IF late
                THEN [model    |-> [came EXCEPT !.stopping = @ \cup {t.uri}],
                      commands |-> {Stop(t.uri, h)}]
                ELSE reconcileAnalyzers([came EXCEPT !.analyzers = @ \cup
                       {[uri |-> t.uri, handle |-> h, server |-> t.server,
                         revision |-> t.revision]}]),
              resource, acquiring, failed, tasks \ {t})

\* Mutated: the last analyzer to stop starts none.
StoppedAnalyzer_Ends(t) ==
  /\ t \in tasks /\ t.op = "stop"
  /\ running' = {a \in running : a.handle # t.handle}
  /\ dispatch([model    |-> [model EXCEPT !.stopping = @ \ {t.uri},
                                          !.analyzers = {a \in @ : a.uri # t.uri}],
               commands |-> {}],
              resource, acquiring, failed, tasks \ {t})
StoppedAnalyzer(t) ==
  /\ t \in tasks /\ t.op = "stop"
  /\ running' = {a \in running : a.handle # t.handle}
  /\ dispatch(reconcileAnalyzers([model EXCEPT !.stopping = @ \ {t.uri},
                                               !.analyzers = {a \in @ : a.uri # t.uri}]),
              resource, acquiring, failed, tasks \ {t})

-----------------------------------------------------------------------------
User ==
  \/ SignedIn \/ SignedOut \/ OpenedWorkspace \/ ClosedWorkspace \/ PressedRetry
  \/ \E l \in Language : ChangedLanguage(l)
  \/ \E rev \in Revision : ChangedSettings(rev)
  \/ \E u \in Uri : OpenedDocument(u) \/ ClosedDocument(u)

Backend ==
  \/ \E s \in Server : AcquiredServer(s)
  \/ FailedAcquireServer
  \/ \E t \in tasks : ReleasedServer(t) \/ StoppedAnalyzer(t)
  \/ \E t \in tasks, h \in Handle : StartedAnalyzer(t, h)

Next == User \/ Backend

Spec == Init /\ [][Next]_vars

-----------------------------------------------------------------------------
TypeOK ==
  /\ model \in Model
  /\ resource \in Held \cup {None}
  /\ {acquiring, failed} \subseteq Requirements \cup {None}
  /\ running \subseteq [uri : Uri, handle : Handle]

settled == acquiring = None /\ tasks = {}

\* An analyzer the Model counts as running was started against the server and the
\* settings of now, for an open document, or is being stopped.
NoStaleAnalyzer ==
  \A a \in model.analyzers :
    \/ a.uri \in model.stopping
    \/ /\ model.user /\ model.workspace /\ a.uri \in model.open
       /\ a.server = model.server /\ a.revision = model.revision

\* No document is forgotten: where the supervisor would have something to do, an
\* analyzer is still stopping, and its end runs the supervisor.
NothingForgotten ==
  reconcileAnalyzers(model).commands # {} => \E t \in tasks : t.op = "stop"

\* The latest choice wins, however many were made while an acquisition was in
\* flight: when all is through, the driver holds a server for what the Model
\* wants, or just that could not be started.
LatestChoiceWins == settled =>
  \/ wanted(model) = None /\ resource = None
  \/ wanted(model) # None /\ resource # None /\ resource.requirements = wanted(model)
  \/ wanted(model) = failed /\ resource = None /\ model.language \in Unsupported

\* What a comment promises of the supervisor: never a second analyzer for a
\* document while the previous one is still stopping.
NeverSecondWhileStopping ==
  \A t, u \in tasks : ~(t.op = "start" /\ u.op = "stop" /\ t.uri = u.uri)

\* What the driver's documentation promises: releases, then acquires again.
ReleasesThenReacquires == \A t \in tasks : t.op = "release" => acquiring = None
=============================================================================
