------------------------------- MODULE Mirror -------------------------------
(***************************************************************************)
(* The synchronous mirror of Controller status that UI frameworks read,    *)
(* with the components that read it.                                       *)
(*                                                                         *)
(* The Controller is seen from outside: lifetimes change status, a change  *)
(* owes a signal, and a signal is kept for the mirror's subscription until *)
(* the mirror takes it (Controller's NoLostChange and ChangesAreSignalled  *)
(* are what this rests on).  It may be shut down under the mirror, which   *)
(* moves every lifetime twice and is signalled too.  Two fibers drive one  *)
(* refresh: the work loop, behind a latch the UI opens, and the            *)
(* subscription to the signal.                                             *)
(***************************************************************************)
EXTENDS Naturals, Sequences, FiniteSets, Functions, SequencesExt

CONSTANTS
  Ref,        \* the lifetimes the UI names
  Alien,      \* those built against another Definition
  Status,     \* what a lifetime can report
  Stopping,   \* of these, what a retired one reports
  Absent,     \* None: no generation exists, or no reading was taken
  Hook,       \* components of React and Solid: unmounted, never disconnected
  Element,    \* Lit directives and elements: disconnected and reconnected
  NoRef,
  MaxAsked    \* states committed and retries asked for (bounds the model)

Component == Hook \cup Element
Fiber == {"work", "stream"}

ASSUME MirrorAssumption ==
  /\ Alien \subseteq Ref
  /\ Absent \notin Status
  /\ Stopping \in Status
  /\ Hook \cap Element = {}
  /\ NoRef \notin Ref
  /\ MaxAsked \in Nat

VARIABLES
  actual,    \* per lifetime, what Controller.snapshot would answer
  phase,     \* of the controller: open, closing, forgotten or closed
  moved,     \* has anything changed since the last signal?
  signal,    \* is a signal waiting in the subscription?
  committed, \* the last state handed to Controller.commit
  retried,   \* retries the controller was asked for, in order
  entries,   \* per watched lifetime: its cached status and its listeners
  pending,   \* pendingState (0: none) and pendingRetries
  work,      \* the latch: is it open?
  fiber,     \* waiting, due (wants the semaphore), applying, or read
  flush,     \* what a fiber's flush took, then what it read
  shown,     \* per component, the status it last rendered
  ref,       \* the lifetime it renders
  watching,  \* is its watch in place?
  asked      \* how many states were committed, and which retries asked

controller == <<actual, phase, moved, committed, retried>>
screen == <<shown, ref, watching>>
rest == <<entries, pending, work, fiber, flush, screen, asked>>
vars == <<controller, signal, rest>>

Reading == Status \cup {Absent}
Nothing == [state |-> 0, retries |-> << >>, snapshot |-> << >>]

TypeOK ==
  /\ actual \in [Ref -> Reading] /\ moved \in BOOLEAN /\ signal \in BOOLEAN
  /\ phase \in {"open", "closing", "forgotten", "closed"}
  /\ committed \in 0..MaxAsked
  /\ IsPrefix(retried, asked.retries)
  /\ DOMAIN entries \subseteq Ref
  /\ \A r \in DOMAIN entries :
       entries[r] \in [status : Reading, listeners : SUBSET Component \ {{}}]
  /\ pending.state \in 0..MaxAsked
  /\ work \in BOOLEAN
  /\ fiber \in [Fiber -> {"waiting", "due", "applying", "read"}]
  /\ \A f \in Fiber : fiber[f] \in {"waiting", "due"} => flush[f] = Nothing
  /\ shown \in [Component -> Reading]
  /\ ref \in [Component -> Ref \cup {NoRef}]
  /\ watching \in [Component -> BOOLEAN]

Init ==
  /\ actual = [r \in Ref |-> Absent]
  /\ phase = "open"
  /\ moved = FALSE
  /\ signal \in BOOLEAN     \* replayed when something was signalled before
  /\ committed = 0
  /\ retried = << >>
  /\ entries = << >>
  /\ pending = [state |-> 0, retries |-> << >>]
  /\ work = FALSE
  /\ fiber = [f \in Fiber |-> "waiting"]
  /\ flush = [f \in Fiber |-> Nothing]
  /\ shown = [c \in Component |-> Absent]
  /\ ref = [c \in Component |-> NoRef]
  /\ watching = [c \in Component |-> FALSE]
  /\ asked = [states |-> 0, retries |-> << >>]

-----------------------------------------------------------------------------
(***************************************************************************)
(* The Controller, from outside.                                           *)
(***************************************************************************)
\* A reading changed; a lifetime nobody here names may have moved as well.
Moves == moved' \in {moved \/ actual' # actual, TRUE}

\* Passes, completions, retries and stop fibers.
Transition(r, s) ==
  /\ phase = "open"
  /\ r \notin Alien
  /\ actual[r] # s
  /\ actual' = [actual EXCEPT ![r] = s]
  /\ Moves
  /\ UNCHANGED <<phase, committed, retried, signal, rest>>

\* publishChanges after a pass: one slot, the newest replaces an unread signal.
\* The loop dies somewhere in the close.
Signal ==
  /\ phase \in {"open", "closing"}
  /\ moved
  /\ moved' = FALSE
  /\ signal' = TRUE
  /\ UNCHANGED <<actual, phase, committed, retried, rest>>

\* shutdown retires every generation.
BeginShutdown ==
  /\ phase = "open"
  /\ phase' = "closing"
  /\ actual' = [r \in Ref |-> IF actual[r] = Absent THEN Absent ELSE Stopping]
  /\ Moves
  /\ UNCHANGED <<committed, retried, signal, rest>>

\* The stop fibers in flight go on to forget what they stop.
Drains(r) ==
  /\ phase = "closing"
  /\ actual[r] = Stopping
  /\ actual' = [actual EXCEPT ![r] = Absent]
  /\ Moves
  /\ UNCHANGED <<phase, committed, retried, signal, rest>>

\* The root Scope is closed: what is left is forgotten at once ...
ShutdownForgets ==
  /\ phase = "closing"
  /\ phase' = "forgotten"
  /\ actual' = [r \in Ref |-> Absent]
  /\ Moves
  /\ UNCHANGED <<committed, retried, signal, rest>>

\* Mutated: nothing is signalled after the close.
ShutdownSignals_Silent ==
  /\ phase = "forgotten"
  /\ phase' = "closed"
  /\ UNCHANGED <<actual, moved, committed, retried, signal, rest>>
\* ... and signalled once more, for what no pass will ever report.
ShutdownSignals ==
  /\ phase = "forgotten"
  /\ phase' = "closed"
  /\ moved' = FALSE
  /\ signal' = (signal \/ moved)
  /\ UNCHANGED <<actual, committed, retried, rest>>

-----------------------------------------------------------------------------
(***************************************************************************)
(* The two fibers.                                                         *)
(***************************************************************************)
\* The work loop closes the latch before it flushes ...
WorkLoopWakes ==
  /\ fiber["work"] = "waiting"
  /\ work
  /\ work' = FALSE
  /\ fiber' = [fiber EXCEPT !["work"] = "due"]
  /\ UNCHANGED <<controller, signal, entries, pending, flush, screen, asked>>

\* ... and the subscription takes a signal before it does.
StreamWakes ==
  /\ fiber["stream"] = "waiting"
  /\ signal
  /\ signal' = FALSE
  /\ fiber' = [fiber EXCEPT !["stream"] = "due"]
  /\ UNCHANGED <<controller, entries, pending, work, flush, screen, asked>>

exclusive == \A f \in Fiber : fiber[f] \in {"waiting", "due"}

\* Mutated: the two fibers may refresh at once.
FlushTakes_Shared(f) ==
  /\ fiber[f] = "due"
  /\ fiber' = [fiber EXCEPT ![f] = "applying"]
  /\ flush' = [flush EXCEPT ![f] = [Nothing EXCEPT !.state = pending.state,
                                                   !.retries = pending.retries]]
  /\ pending' = [state |-> 0, retries |-> << >>]
  /\ UNCHANGED <<controller, signal, entries, work, screen, asked>>
\* flushOnce, under the semaphore: what is pending is taken first.
FlushTakes(f) ==
  /\ fiber[f] = "due"
  /\ exclusive
  /\ fiber' = [fiber EXCEPT ![f] = "applying"]
  /\ flush' = [flush EXCEPT ![f] = [Nothing EXCEPT !.state = pending.state,
                                                   !.retries = pending.retries]]
  /\ pending' = [state |-> 0, retries |-> << >>]
  /\ UNCHANGED <<controller, signal, entries, work, screen, asked>>

\* Then the state is committed.  One the controller refuses is reported to the
\* application, and what follows is the same.
FlushCommits(f) ==
  /\ fiber[f] = "applying"
  /\ flush[f].state # 0
  /\ committed' = flush[f].state
  /\ flush' = [flush EXCEPT ![f].state = 0]
  /\ UNCHANGED <<actual, phase, moved, retried, signal, entries, pending, work, fiber,
                 screen, asked>>

\* Mutated: the defect of an alien reference abandons the retries behind it.
FlushRetries_Dies(f) ==
  /\ fiber[f] = "applying"
  /\ flush[f].state = 0 /\ flush[f].retries # << >>
  /\ retried' = Append(retried, Head(flush[f].retries))
  /\ flush' = [flush EXCEPT ![f].retries =
                 IF Head(@) \in Alien THEN << >> ELSE Tail(@)]
  /\ UNCHANGED <<actual, phase, moved, committed, signal, entries, pending, work, fiber,
                 screen, asked>>
\* Then the retries, one by one; an alien reference is a defect, reported.
FlushRetries(f) ==
  /\ fiber[f] = "applying"
  /\ flush[f].state = 0 /\ flush[f].retries # << >>
  /\ retried' = Append(retried, Head(flush[f].retries))
  /\ flush' = [flush EXCEPT ![f].retries = Tail(@)]
  /\ UNCHANGED <<actual, phase, moved, committed, signal, entries, pending, work, fiber,
                 screen, asked>>

readyToRead(f) ==
  fiber[f] = "applying" /\ flush[f].state = 0 /\ flush[f].retries = << >>

\* Then one coherent snapshot, which a closed controller answers too ...
FlushReads(f) ==
  /\ readyToRead(f)
  /\ fiber' = [fiber EXCEPT ![f] = "read"]
  /\ flush' = [flush EXCEPT ![f].snapshot = actual]
  /\ UNCHANGED <<controller, signal, entries, pending, work, screen, asked>>

\* What entry r holds once the reading `snap` was applied to it.
refreshed(snap, r) ==
  IF r \in Alien THEN entries[r].status ELSE snap[r]

\* Those who watch an entry the reading changes.
told(snap) ==
  UNION {entries[r].listeners :
           r \in {q \in DOMAIN entries : entries[q].status # refreshed(snap, q)}}

\* ... compared with every entry; the listeners of one that differs are told,
\* and render what the cache now holds.
Applies(f) ==
  LET snap == flush[f].snapshot IN
  /\ fiber[f] = "read"
  /\ entries' = [r \in DOMAIN entries |->
                   [entries[r] EXCEPT !.status = refreshed(snap, r)]]
  /\ shown' = [c \in Component |->
                 IF c \in told(snap) THEN refreshed(snap, ref[c]) ELSE shown[c]]
  /\ fiber' = [fiber EXCEPT ![f] = "waiting"]
  /\ flush' = [flush EXCEPT ![f] = Nothing]

\* Mutated: the latch is closed when the flush is over.
FlushApplies_Closes(f) ==
  /\ Applies(f)
  /\ work' = FALSE
  /\ UNCHANGED <<controller, signal, pending, ref, watching, asked>>
FlushApplies(f) ==
  /\ Applies(f)
  /\ UNCHANGED <<controller, signal, pending, work, ref, watching, asked>>

-----------------------------------------------------------------------------
(***************************************************************************)
(* What the UI calls, synchronously.                                       *)
(***************************************************************************)
statusOf(r) == IF r \in DOMAIN entries THEN entries[r].status ELSE Absent

without(es, r, c) ==
  IF es[r].listeners = {c} THEN Restrict(es, DOMAIN es \ {r})
  ELSE [es EXCEPT ![r].listeners = @ \ {c}]

with(es, r, c) ==
  [q \in DOMAIN es \cup {r} |->
     IF q # r THEN es[q]
     ELSE IF r \in DOMAIN es THEN [es[r] EXCEPT !.listeners = @ \cup {c}]
     ELSE [status |-> Absent, listeners |-> {c}]]

unwatched(c) == IF watching[c] THEN without(entries, ref[c], c) ELSE entries

\* Mutated: only the very first watch asks for a reading.
watch_Quiet(c, r) ==
  /\ entries' = with(unwatched(c), r, c)
  /\ work' = (work \/ DOMAIN unwatched(c) = {})
\* watch: a lifetime nobody watched asks for a reading, a watched one has one.
watch(c, r) ==
  /\ entries' = with(unwatched(c), r, c)
  /\ work' = (work \/ r \notin DOMAIN unwatched(c))

\* A component comes on screen, or follows its reference to another lifetime:
\* it renders what is cached and watches.
Render(c, r) ==
  /\ ref[c] # r
  /\ ref[c] = NoRef \/ watching[c]
  /\ watch(c, r)
  /\ ref' = [ref EXCEPT ![c] = r]
  /\ watching' = [watching EXCEPT ![c] = TRUE]
  /\ shown' = [shown EXCEPT ![c] = IF r \in DOMAIN unwatched(c)
                                     THEN unwatched(c)[r].status ELSE Absent]
  /\ UNCHANGED <<controller, signal, pending, fiber, flush, asked>>

\* It is unmounted (Hook), and nothing of it is left, or disconnected (Element),
\* and keeps what it rendered: it stops watching.
Leave(c) ==
  /\ watching[c]
  /\ entries' = unwatched(c)
  /\ watching' = [watching EXCEPT ![c] = FALSE]
  /\ IF c \in Hook
       THEN ref' = [ref EXCEPT ![c] = NoRef] /\ shown' = [shown EXCEPT ![c] = Absent]
       ELSE UNCHANGED <<ref, shown>>
  /\ UNCHANGED <<controller, signal, pending, work, fiber, flush, asked>>

\* An element comes back: it watches again, and is not rendered again.
Reconnect(c) ==
  /\ c \in Element
  /\ ~watching[c] /\ ref[c] # NoRef
  /\ watch(c, ref[c])
  /\ watching' = [watching EXCEPT ![c] = TRUE]
  /\ UNCHANGED <<controller, signal, pending, fiber, flush, shown, ref, asked>>

mayAsk == asked.states + Len(asked.retries) < MaxAsked

commit ==
  /\ mayAsk
  /\ asked' = [asked EXCEPT !.states = @ + 1]
  /\ pending' = [pending EXCEPT !.state = asked.states + 1]
  /\ work' = TRUE
  /\ UNCHANGED <<controller, signal, entries, fiber, flush, screen>>

retry(r) ==
  /\ mayAsk
  /\ asked' = [asked EXCEPT !.retries = Append(@, r)]
  /\ pending' = [pending EXCEPT !.retries = Append(@, r)]
  /\ work' = TRUE
  /\ UNCHANGED <<controller, signal, entries, fiber, flush, screen>>

-----------------------------------------------------------------------------
UI ==
  \/ \E c \in Component : \/ \E r \in Ref : Render(c, r)
                          \/ Leave(c)
                          \/ Reconnect(c)
  \/ commit
  \/ \E r \in Ref : retry(r)

Refresh(f) ==
  \/ FlushTakes(f) \/ FlushCommits(f) \/ FlushRetries(f)
  \/ FlushReads(f) \/ FlushApplies(f)

Next ==
  \/ \E r \in Ref, s \in Reading : Transition(r, s)
  \/ Signal
  \/ BeginShutdown \/ ShutdownForgets \/ ShutdownSignals
  \/ \E r \in Ref : Drains(r)
  \/ UI
  \/ WorkLoopWakes \/ StreamWakes
  \/ \E f \in Fiber : Refresh(f)

Spec == Init /\ [][Next]_vars

\* The mirror's fibers run when they can; an open controller signals what moved,
\* and one that is being shut down gets to the end of it.
Fairness ==
  /\ WF_vars(phase = "open" /\ Signal)
  /\ WF_vars(ShutdownForgets) /\ WF_vars(ShutdownSignals)
  /\ WF_vars(WorkLoopWakes) /\ WF_vars(StreamWakes)
  /\ \A f \in Fiber : WF_vars(Refresh(f))

FairSpec == Spec /\ Fairness

-----------------------------------------------------------------------------
\* A refresh that has not read yet is certain to come.  A controller that is
\* closed signals nothing any more.
RefreshIsDue ==
  \/ moved /\ phase # "closed"
  \/ signal \/ work
  \/ \E f \in Fiber : fiber[f] \in {"due", "applying"}

\* The mirror is never left with a reading from before a transition it did not
\* see: where the cache disagrees with the controller - open, being shut down or
\* closed - a refresh is on its way.
NoStaleReading ==
  \A r \in DOMAIN entries \ Alien :
    \/ entries[r].status = actual[r]
    \/ RefreshIsDue
    \/ \E f \in Fiber : fiber[f] = "read" /\ flush[f].snapshot[r] = actual[r]

\* What the UI left behind is taken: nothing pending waits on a closed latch.
PendingIsRequested ==
  pending.state # 0 \/ pending.retries # << >> =>
    work \/ \E f \in Fiber : fiber[f] = "due"

\* Every retry asked for is performed, being performed or pending, in the order
\* asked; one bad reference costs no other component its retry.
RetriesInOrder ==
  \E f \in Fiber : /\ \A g \in Fiber \ {f} : flush[g].retries = << >>
                   /\ asked.retries = retried \o flush[f].retries \o pending.retries

\* The refreshes of the work loop and of the change stream never let an older
\* state overtake a newer one.
CommitsNeverRollBack == [][committed' >= committed]_vars

\* lit.ts: a subscription re-established on the way back in keeps the element
\* from rendering a status that stopped updating.  So one that is connected and
\* owed no refresh renders what the cache holds.
ElementShowsCache ==
  \A c \in Element :
    watching[c] /\ ~RefreshIsDue /\ (\A f \in Fiber : fiber[f] = "waiting") =>
      shown[c] = statusOf(ref[c])

\* A status that a lifetime keeps is eventually on screen wherever a hook keeps
\* watching it, and so is that it is gone once the controller is.
ScreenCatchesUp ==
  \A c \in Hook, r \in Ref \ Alien, s \in Reading :
    <>[](actual[r] = s /\ watching[c] /\ ref[c] = r) => <>[](shown[c] = s)
=============================================================================
