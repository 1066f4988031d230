---------------------------- MODULE FoldkitProofs ----------------------------
(***************************************************************************)
(* The hand-written supervisor's safety, for every set of languages,       *)
(* documents and settings and however many presses of Retry.               *)
(*                                                                         *)
(* One idea carries it: a message ends with the supervisor having nothing  *)
(* left to do, the only one that skips it leaves a stop whose end runs it, *)
(* and the driver is brought in line with the Model after each of them.    *)
(***************************************************************************)
EXTENDS Foldkit, TLAPS

Task == {Release(s) : s \in Server}
        \cup {Start(u, s, rev) : u \in Uri, s \in Server, rev \in Revision}
        \cup {Stop(u, h) : u \in Uri, h \in Handle}

\* What runs in the background is what the Model or the driver asked for.
TypeInv == TypeOK /\ tasks \subseteq Task

Analyzer == [uri : Uri, handle : Handle, server : Server, revision : Revision]

\* The analyzers of m are fresh, or known to be stopping.
Current(m) == \A a \in m.analyzers : a.uri \in m.stopping \/ ~stale(m, a)

AtRest(m) == obsolete(m) = {} /\ missing(m) = {}

-----------------------------------------------------------------------------
(***************************************************************************)
(* The supervisor.                                                         *)
(***************************************************************************)
LEMMA SupervisorTyped ==
  ASSUME NEW m \in Model
  PROVE  /\ reconcileAnalyzers(m).model \in Model
         /\ reconcileAnalyzers(m).commands \subseteq Task
<1>1. missing(m) \subseteq Uri /\ {a.uri : a \in obsolete(m)} \subseteq Uri
  BY DEF missing, desired, obsolete, Model
<1>2. reconcileAnalyzers(m).model \in Model
  BY <1>1 DEF reconcileAnalyzers, Model
<1>3. ASSUME NEW a \in obsolete(m) PROVE Stop(a.uri, a.handle) \in Task
  BY DEF obsolete, Model, Task
<1>4. ASSUME NEW u \in missing(m) PROVE Start(u, m.server, m.revision) \in Task
  <2>1. u \in Uri /\ m.server \in Server /\ m.revision \in Revision
    BY DEF missing, desired, Model
  <2>2. QED BY <2>1 DEF Task
<1>5. QED BY <1>2, <1>3, <1>4 DEF reconcileAnalyzers

\* It looks at what is asked for and at the server, and changes neither; what it
\* asks for it also notes, so that it does not ask again.
LEMMA SupervisorSettles ==
  ASSUME NEW m \in Model
  PROVE  /\ AtRest(reconcileAnalyzers(m).model)
         /\ Current(reconcileAnalyzers(m).model)
<1> DEFINE r == reconcileAnalyzers(m).model
<1>1. /\ r.user = m.user /\ r.workspace = m.workspace /\ r.server = m.server
      /\ r.open = m.open /\ r.revision = m.revision /\ r.analyzers = m.analyzers
      /\ r.starting = m.starting \cup missing(m)
      /\ r.stopping = m.stopping \cup {a.uri : a \in obsolete(m)}
  BY DEF reconcileAnalyzers, Model
<1> HIDE DEF r
<1>2. desired(r) = desired(m) /\ \A a : stale(r, a) <=> stale(m, a)
  BY <1>1 DEF desired, stale
<1>3. ASSUME NEW a \in r.analyzers PROVE a.uri \in r.stopping \/ ~stale(r, a)
  BY <1>1, <1>2 DEF obsolete
<1>4. missing(r) = {}
  BY <1>1, <1>2 DEF missing
<1>5. obsolete(r) = {}
  BY <1>3 DEF obsolete
<1>6. QED BY <1>3, <1>4, <1>5 DEF AtRest, Current, r

LEMMA AtRestAsksNothing ==
  ASSUME NEW m, AtRest(m)
  PROVE  reconcileAnalyzers(m).commands = {}
BY DEF AtRest, reconcileAnalyzers

-----------------------------------------------------------------------------
(***************************************************************************)
(* The driver.                                                             *)
(***************************************************************************)
Needs == Requirements \cup {None}

\* What the driver holds and remembers, were `m` the Model: while nothing is being
\* acquired it holds what m wants, or just that could not be had.
InLine(m, held, busy, lost) ==
  /\ lost # None => lost.language \in Unsupported
  /\ busy = None /\ held # None => wanted(m) # None /\ held.requirements = wanted(m)
  /\ busy = None /\ held = None => wanted(m) = None \/ lost = wanted(m)

LEMMA WantedTyped ==
  ASSUME NEW m \in Model
  PROVE  wanted(m) \in Needs
BY DEF wanted, Model, Needs, Requirements

\* One sync brings it in line, whatever it held and whatever m asks for.
LEMMA SyncBringsInLine ==
  ASSUME NEW m \in Model, NEW held \in Held \cup {None}, NEW busy \in Needs, NEW lost \in Needs,
         lost # None => lost.language \in Unsupported
  PROVE  LET s == syncResources(m, held, busy, lost) IN
         /\ s.held \in Held \cup {None} /\ s.busy \in Needs /\ s.lost \in Needs
         /\ s.releases \subseteq Task
         /\ InLine(m, s.held, s.busy, s.lost)
<1> DEFINE want == wanted(m)
           drop == held # None /\ (want = None \/ held.requirements # want)
           take == want # None /\ (held = None \/ drop) /\ (held # None \/ want # lost)
           s == syncResources(m, held, busy, lost)
<1>1. want \in Needs
  BY WantedTyped
<1>2. CASE busy # None
  <2>1. s.held = held /\ s.busy = busy /\ s.lost = lost /\ s.releases = {}
    BY <1>2 DEF syncResources
  <2>2. QED BY <1>2, <2>1 DEF InLine
<1>3. CASE busy = None
  <2>1. /\ s.held = IF drop THEN None ELSE held
        /\ s.busy = IF take THEN want ELSE None
        /\ s.lost = IF want = None THEN None ELSE lost
        /\ s.releases = IF drop THEN {Release(held.server)} ELSE {}
    BY <1>3 DEF syncResources
  <2>2. s.releases \subseteq Task
    <3>1. ASSUME held # None PROVE Release(held.server) \in Task
      BY <3>1 DEF Held, Task
    <3>2. QED BY <2>1, <3>1
  <2>3. s.held \in Held \cup {None} /\ s.busy \in Needs /\ s.lost \in Needs
    BY <1>1, <2>1 DEF Needs
  <2>4. s.lost # None => s.lost.language \in Unsupported
    BY <2>1
  <2>5. s.busy = None => ~take
    BY <2>1
  <2>6. s.busy = None /\ s.held # None => want # None /\ s.held.requirements = want
    BY <2>1, <2>5
  <2>7. s.busy = None /\ s.held = None => want = None \/ s.lost = want
    BY <2>1, <2>5
  <2>8. QED BY <2>2, <2>3, <2>4, <2>6, <2>7 DEF InLine
<1>4. QED BY <1>2, <1>3

-----------------------------------------------------------------------------
(***************************************************************************)
(* The inductive invariant.                                                *)
(***************************************************************************)
FoldkitInv ==
  /\ TypeInv
  /\ Current(model)
  /\ NothingForgotten
  /\ InLine(model, resource, acquiring, failed)

Fibers == running' \subseteq [uri : Uri, handle : Handle]

LEMMA DispatchKeeps ==
  ASSUME NEW result, result.model \in Model, result.commands \subseteq Task,
         NEW held \in Held \cup {None}, NEW busy \in Needs, NEW lost \in Needs,
         lost # None => lost.language \in Unsupported,
         NEW fibers \in SUBSET Task,
         dispatch(result, held, busy, lost, fibers), Fibers
  PROVE  /\ TypeInv'
         /\ InLine(model, resource, acquiring, failed)'
         /\ model' = result.model
         /\ result.commands \subseteq tasks'
<1> DEFINE s == syncResources(result.model, held, busy, lost)
<1>1. /\ model' = result.model /\ resource' = s.held /\ acquiring' = s.busy /\ failed' = s.lost
      /\ tasks' = fibers \cup result.commands \cup s.releases
  BY DEF dispatch
<1>2. /\ s.held \in Held \cup {None} /\ s.busy \in Needs /\ s.lost \in Needs
      /\ s.releases \subseteq Task
      /\ InLine(result.model, s.held, s.busy, s.lost)
  BY SyncBringsInLine
<1> HIDE DEF s
<1>3. InLine(model, resource, acquiring, failed)'
  BY <1>1, <1>2 DEF InLine, wanted
<1>4. TypeInv'
  BY <1>1, <1>2 DEF TypeInv, TypeOK, Needs, Fibers
<1>5. QED BY <1>1, <1>3, <1>4

\* A message that ends with the supervisor keeps everything, whatever it changed.
LEMMA SupervisedKeeps ==
  ASSUME NEW m \in Model,
         NEW held \in Held \cup {None}, NEW busy \in Needs, NEW lost \in Needs,
         lost # None => lost.language \in Unsupported,
         NEW fibers \in SUBSET Task,
         dispatch(reconcileAnalyzers(m), held, busy, lost, fibers), Fibers
  PROVE  FoldkitInv'
<1> DEFINE r == reconcileAnalyzers(m)
<1>1. r.model \in Model /\ r.commands \subseteq Task /\ AtRest(r.model) /\ Current(r.model)
  BY SupervisorTyped, SupervisorSettles
<1>2. /\ TypeInv' /\ InLine(model, resource, acquiring, failed)'
      /\ model' = r.model
  BY <1>1, DispatchKeeps
<1> HIDE DEF r
<1>3. Current(model)'
  BY <1>1, <1>2 DEF Current, stale, desired
<1>4. NothingForgotten'
  <2>1. reconcileAnalyzers(model').commands = {}
    BY <1>1, <1>2, AtRestAsksNothing
  <2>2. QED BY <2>1 DEF NothingForgotten, reconcileAnalyzers, obsolete, missing, stale, desired
<1>5. QED BY <1>2, <1>3, <1>4 DEF FoldkitInv

LEMMA StateTyped ==
  ASSUME FoldkitInv
  PROVE  /\ model \in Model /\ resource \in Held \cup {None}
         /\ acquiring \in Needs /\ failed \in Needs
         /\ failed # None => failed.language \in Unsupported
         /\ tasks \in SUBSET Task /\ running \subseteq [uri : Uri, handle : Handle]
BY DEF FoldkitInv, TypeInv, TypeOK, Needs, InLine

LEMMA UserKeeps ==
  ASSUME FoldkitInv, User
  PROVE  FoldkitInv'
<1>1. ASSUME NEW m \in Model, Does(m) PROVE FoldkitInv'
  BY <1>1, StateTyped, SupervisedKeeps DEF Does, Fibers
<1>2. model \in Model
  BY StateTyped
<1>3. CASE SignedIn
  BY <1>1, <1>2, <1>3 DEF SignedIn, Model
<1>4. CASE SignedOut
  BY <1>1, <1>2, <1>4 DEF SignedOut, Model
<1>5. CASE OpenedWorkspace
  BY <1>1, <1>2, <1>5 DEF OpenedWorkspace, Model
<1>6. CASE ClosedWorkspace
  BY <1>1, <1>2, <1>6 DEF ClosedWorkspace, Model
<1>7. CASE PressedRetry
  <2>1. MaxAttempts \in Nat
    BY FoldkitAssumption
  <2>2. model.attempt + 1 \in 0 .. MaxAttempts
    BY <1>2, <1>7, <2>1 DEF PressedRetry, Model
  <2>3. QED BY <1>1, <1>2, <1>7, <2>2 DEF PressedRetry, Model
<1>8. ASSUME NEW l \in Language, ChangedLanguage(l) PROVE FoldkitInv'
  BY <1>1, <1>2, <1>8 DEF ChangedLanguage, Model
<1>9. ASSUME NEW rev \in Revision, ChangedSettings(rev) PROVE FoldkitInv'
  BY <1>1, <1>2, <1>9 DEF ChangedSettings, Model
<1>10. ASSUME NEW u \in Uri, OpenedDocument(u) PROVE FoldkitInv'
  BY <1>1, <1>2, <1>10 DEF OpenedDocument, Model
<1>11. ASSUME NEW u \in Uri, ClosedDocument(u) PROVE FoldkitInv'
  BY <1>1, <1>2, <1>11 DEF ClosedDocument, Model
<1>12. QED BY <1>3, <1>4, <1>5, <1>6, <1>7, <1>8, <1>9, <1>10, <1>11 DEF User

-----------------------------------------------------------------------------
(***************************************************************************)
(* What the backend answers.                                               *)
(***************************************************************************)
LEMMA ServerAnswersKeep ==
  ASSUME FoldkitInv,
         \/ \E s \in Server : AcquiredServer(s)
         \/ FailedAcquireServer
         \/ \E t \in tasks : ReleasedServer(t)
  PROVE  FoldkitInv'
<1>1. /\ model \in Model /\ resource \in Held \cup {None}
      /\ acquiring \in Needs /\ failed \in Needs /\ None \in Needs
      /\ failed # None => failed.language \in Unsupported
      /\ tasks \in SUBSET Task /\ running \subseteq [uri : Uri, handle : Handle]
  BY StateTyped DEF Needs
<1>2. ASSUME NEW s \in Server, AcquiredServer(s) PROVE FoldkitInv'
  <2>1. [model EXCEPT !.server = s, !.unavailable = FALSE] \in Model
    BY <1>1 DEF Model
  <2>2. [requirements |-> acquiring, server |-> s] \in Held \cup {None}
    BY <1>1, <1>2 DEF AcquiredServer, Needs, Held
  <2>3. Fibers
    BY <1>1, <1>2 DEF AcquiredServer, Fibers
  <2>4. QED BY <1>1, <1>2, <2>1, <2>2, <2>3, SupervisedKeeps DEF AcquiredServer
<1>3. CASE FailedAcquireServer
  <2>1. [model EXCEPT !.server = None, !.unavailable = TRUE] \in Model
    BY <1>1 DEF Model
  <2>2. acquiring # None => acquiring.language \in Unsupported
    BY <1>3 DEF FailedAcquireServer
  <2>3. Fibers
    BY <1>1, <1>3 DEF FailedAcquireServer, Fibers
  <2>4. QED BY <1>1, <1>3, <2>1, <2>2, <2>3, SupervisedKeeps DEF FailedAcquireServer
<1>4. ASSUME NEW t \in tasks, ReleasedServer(t) PROVE FoldkitInv'
  <2>1. [model EXCEPT !.server = None] \in Model
    BY <1>1 DEF Model
  <2>2. tasks \ {t} \in SUBSET Task /\ Fibers
    BY <1>1, <1>4 DEF ReleasedServer, Fibers
  <2>3. QED BY <1>1, <1>4, <2>1, <2>2, SupervisedKeeps DEF ReleasedServer
<1>5. QED BY <1>2, <1>3, <1>4

LEMMA StoppedKeeps ==
  ASSUME FoldkitInv, NEW t \in tasks, StoppedAnalyzer(t)
  PROVE  FoldkitInv'
<1> DEFINE m == [model EXCEPT !.stopping = @ \ {t.uri},
                              !.analyzers = {a \in @ : a.uri # t.uri}]
<1>1. model \in Model /\ tasks \in SUBSET Task /\ running \subseteq [uri : Uri, handle : Handle]
  BY StateTyped
<1>2. m \in Model
  BY <1>1 DEF Model
<1>3. tasks \ {t} \in SUBSET Task /\ Fibers
  BY <1>1 DEF StoppedAnalyzer, Fibers
<1>4. dispatch(reconcileAnalyzers(m), resource, acquiring, failed, tasks \ {t})
  BY DEF StoppedAnalyzer
<1> HIDE DEF m
<1>5. QED BY <1>2, <1>3, <1>4, StateTyped, SupervisedKeeps

\* The start that ended too late: its stop is owed, and with it the supervisor.
LEMMA LateStartKeeps ==
  ASSUME FoldkitInv, NEW u \in Uri, NEW h \in Handle, NEW fibers \in SUBSET Task, Fibers,
         dispatch([model    |-> [model EXCEPT !.starting = @ \ {u}, !.stopping = @ \cup {u}],
                   commands |-> {Stop(u, h)}],
                  resource, acquiring, failed, fibers)
  PROVE  FoldkitInv'
<1> DEFINE m == [model EXCEPT !.starting = @ \ {u}, !.stopping = @ \cup {u}]
           late == [model |-> m, commands |-> {Stop(u, h)}]
<1>1. model \in Model
  BY StateTyped
<1>2. /\ m \in Model
      /\ m.user = model.user /\ m.workspace = model.workspace /\ m.server = model.server
      /\ m.open = model.open /\ m.revision = model.revision /\ m.analyzers = model.analyzers
      /\ model.stopping \subseteq m.stopping
  BY <1>1 DEF Model
<1>3. late.commands \subseteq Task /\ late.model = m /\ Stop(u, h) \in late.commands
  BY DEF Task
<1>4. dispatch(late, resource, acquiring, failed, fibers)
  OBVIOUS
<1> HIDE DEF m, late
<1>5. /\ TypeInv' /\ InLine(model, resource, acquiring, failed)'
      /\ model' = m /\ Stop(u, h) \in tasks'
  <2>1. late.model \in Model
    BY <1>2, <1>3
  <2>2. QED BY <1>3, <1>4, <2>1, StateTyped, DispatchKeeps
<1>6. Current(model)'
  BY <1>2, <1>5 DEF FoldkitInv, Current, stale, desired
<1>7. NothingForgotten'
  BY <1>5 DEF NothingForgotten, Stop
<1>8. QED BY <1>5, <1>6, <1>7 DEF FoldkitInv

LEMMA StartedKeeps ==
  ASSUME FoldkitInv, NEW t \in tasks, NEW h \in Handle, StartedAnalyzer(t, h)
  PROVE  FoldkitInv'
<1> DEFINE came == [model EXCEPT !.starting = @ \ {t.uri}]
           late == \/ t.server # model.server
                   \/ t.revision # model.revision
                   \/ t.uri \notin model.open
           started == [came EXCEPT !.analyzers = @ \cup
                         {[uri |-> t.uri, handle |-> h, server |-> t.server,
                           revision |-> t.revision]}]
           stopped == [came EXCEPT !.stopping = @ \cup {t.uri}]
<1>1. model \in Model /\ tasks \in SUBSET Task /\ running \subseteq [uri : Uri, handle : Handle]
  BY StateTyped
<1>2. t.op = "start" /\ t \in Task
  BY <1>1 DEF StartedAnalyzer
<1>3. t.uri \in Uri /\ t.server \in Server /\ t.revision \in Revision
  BY <1>2 DEF Task, Release, Start, Stop
<1>4. tasks \ {t} \in SUBSET Task
  BY <1>1
<1>5. Fibers
  BY <1>1, <1>3 DEF StartedAnalyzer, Fibers
<1>6. CASE late
  <2>1. stopped = [model EXCEPT !.starting = @ \ {t.uri}, !.stopping = @ \cup {t.uri}]
    BY <1>1 DEF Model
  <2>2. dispatch([model |-> stopped, commands |-> {Stop(t.uri, h)}],
                 resource, acquiring, failed, tasks \ {t})
    BY <1>6 DEF StartedAnalyzer
  <2>3. QED BY <1>3, <1>4, <1>5, <2>1, <2>2, LateStartKeeps
<1>7. CASE ~late
  <2>1. dispatch(reconcileAnalyzers(started), resource, acquiring, failed, tasks \ {t})
    BY <1>7 DEF StartedAnalyzer
  <2>2. started \in Model
    <3>1. came \in Model
      BY <1>1 DEF Model
    <3>2. [uri |-> t.uri, handle |-> h, server |-> t.server, revision |-> t.revision] \in Analyzer
      BY <1>3 DEF Analyzer
    <3>3. QED BY <3>1, <3>2 DEF Model, Analyzer
  <2> HIDE DEF started
  <2>3. QED BY <1>4, <1>5, <2>1, <2>2, StateTyped, SupervisedKeeps
<1>8. QED BY <1>6, <1>7

-----------------------------------------------------------------------------
LEMMA InitEstablishesFoldkitInv == Init => FoldkitInv
<1> SUFFICES ASSUME Init PROVE FoldkitInv
  OBVIOUS
<1>1. PICK l \in Language, rev \in Revision :
        model = [user |-> FALSE, workspace |-> FALSE, language |-> l, revision |-> rev,
                 open |-> {}, unavailable |-> FALSE, server |-> None, analyzers |-> {},
                 starting |-> {}, stopping |-> {}, attempt |-> 0]
  BY DEF Init
<1>2. 0 \in 0 .. MaxAttempts
  BY FoldkitAssumption
<1>3. model \in Model
  BY <1>1, <1>2 DEF Model
<1>4. TypeInv
  BY <1>3 DEF Init, TypeInv, TypeOK
<1>5. desired(model) = {} /\ wanted(model) = None
  BY <1>1 DEF desired, wanted
<1>6. AtRest(model) /\ Current(model)
  BY <1>1, <1>5 DEF AtRest, obsolete, missing, Current
<1>7. NothingForgotten
  BY <1>6, AtRestAsksNothing DEF NothingForgotten
<1>8. InLine(model, resource, acquiring, failed)
  BY <1>5 DEF InLine, Init
<1>9. QED BY <1>4, <1>6, <1>7, <1>8 DEF FoldkitInv

LEMMA NextKeepsFoldkitInv == FoldkitInv /\ [Next]_vars => FoldkitInv'
<1> SUFFICES ASSUME FoldkitInv, [Next]_vars PROVE FoldkitInv'
  OBVIOUS
<1>1. CASE Backend
  BY <1>1, ServerAnswersKeep, StoppedKeeps, StartedKeeps DEF Backend
<1>2. CASE UNCHANGED vars
  BY <1>2 DEF FoldkitInv, TypeInv, TypeOK, Current, stale, desired, NothingForgotten,
              reconcileAnalyzers, obsolete, missing, InLine, wanted, vars
<1>3. QED BY <1>1, <1>2, UserKeeps DEF Next

THEOREM FoldkitInvariant == Spec => []FoldkitInv
BY InitEstablishesFoldkitInv, NextKeepsFoldkitInv, PTL DEF Spec

-----------------------------------------------------------------------------
\* An analyzer the Model counts as running was started against the server and the
\* settings of now, or is being stopped: no order of answers leaves one behind
\* (before/app.ts: reconcileAnalyzers after every message).
THEOREM NoAnalyzerIsStale == Spec => []NoStaleAnalyzer
<1>1. FoldkitInv => NoStaleAnalyzer
  <2> SUFFICES ASSUME FoldkitInv, NEW a \in model.analyzers, a.uri \notin model.stopping
               PROVE  /\ model.user /\ model.workspace /\ a.uri \in model.open
                      /\ a.server = model.server /\ a.revision = model.revision
    BY DEF NoStaleAnalyzer
  <2>1. ~stale(model, a)
    BY DEF FoldkitInv, Current
  <2>2. QED BY <2>1 DEF stale, desired
<1>2. QED BY <1>1, FoldkitInvariant, PTL

\* Where a late start skipped the supervisor, the end of its stop will run it.
THEOREM NoDocumentIsForgotten == Spec => []NothingForgotten
<1>1. FoldkitInv => NothingForgotten
  BY DEF FoldkitInv
<1>2. QED BY <1>1, FoldkitInvariant, PTL

\* However many choices were made while an acquisition was in flight, the one it
\* is compared with when it ends is the latest (driver.ts: syncResources).
THEOREM LatestChoiceAlwaysWins == Spec => []LatestChoiceWins
<1>1. FoldkitInv => LatestChoiceWins
  <2> SUFFICES ASSUME FoldkitInv, acquiring = None PROVE LatestChoiceWins
    BY DEF LatestChoiceWins, settled
  <2>1. InLine(model, resource, acquiring, failed)
    BY DEF FoldkitInv
  <2>2. wanted(model) # None => wanted(model).language = model.language
    BY DEF wanted
  <2>3. QED BY <2>1, <2>2 DEF LatestChoiceWins, InLine
<1>2. QED BY <1>1, FoldkitInvariant, PTL
=============================================================================
