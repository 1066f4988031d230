----------------------------- MODULE MirrorProofs -----------------------------
(***************************************************************************)
(* The mirror's safety, for every set of lifetimes and components: two     *)
(* fibers share one cache and one inbox, and the UI calls in between.      *)
(*                                                                         *)
(* What makes it work is that a flush is exclusive from what it takes to   *)
(* what it applies, and that whatever moves after a reading leaves a trace *)
(* - a movement, a signal, a fiber that is due - until the next one.       *)
(***************************************************************************)
EXTENDS Mirror, SequenceTheorems, TLAPS

Entry == [status : Reading, listeners : SUBSET Component]
Snapshot == [Ref -> Reading] \cup {<< >>}
Flush == [state : Nat, retries : Seq(Ref), snapshot : Snapshot]

\* The types the argument needs.  The bound on what is asked plays no part.
Fields ==
  /\ actual \in [Ref -> Reading] /\ committed \in Nat /\ retried \in Seq(Ref)
  /\ DOMAIN entries \subseteq Ref
  /\ \A r \in DOMAIN entries : entries[r] \in Entry
  /\ entries = [r \in DOMAIN entries |-> entries[r]]
  /\ pending \in [state : Nat, retries : Seq(Ref)]
  /\ fiber \in [Fiber -> {"waiting", "due", "applying", "read"}]
  /\ flush \in [Fiber -> Flush]
  /\ asked \in [states : Nat, retries : Seq(Ref)]

Flushing(f) == fiber[f] \in {"applying", "read"}

\* One flush at a time, and what it took is gone once it has read.
Serialized ==
  /\ \A f, g \in Fiber : Flushing(f) /\ Flushing(g) => f = g
  /\ \A f \in Fiber : fiber[f] # "applying" => flush[f].state = 0 /\ flush[f].retries = << >>
  /\ \A f \in Fiber : fiber[f] = "read" => flush[f].snapshot \in [Ref -> Reading]

\* The state pending is the newest, the one being committed is newer than the
\* last one committed.
StatesInOrder ==
  /\ committed <= asked.states
  /\ pending.state # 0 => pending.state = asked.states
  /\ \A f \in Fiber : flush[f].state # 0 =>
       committed <= flush[f].state /\ flush[f].state <= asked.states

\* What moved after a reading leaves a trace, and nobody else reads meanwhile.
ReadingIsTraced ==
  \A f \in Fiber : fiber[f] = "read" => \A r \in Ref \ Alien :
    \/ flush[f].snapshot[r] = actual[r]
    \/ moved \/ signal
    \/ \E g \in Fiber : fiber[g] = "due"

\* The shutdown's last step leaves no movement without its signal.
NothingUnsaid == phase = "closed" => ~moved

MirrorInv ==
  /\ Fields /\ Serialized /\ StatesInOrder /\ ReadingIsTraced /\ NothingUnsaid
  /\ RetriesInOrder /\ PendingIsRequested /\ NoStaleReading

-----------------------------------------------------------------------------
(***************************************************************************)
(* What the UI does to the cache.                                          *)
(***************************************************************************)
\* The cache `es` after some watched it and some stopped: entries it still has
\* keep their status, and a new one asks for a reading.
Rewatched(es) ==
  /\ DOMAIN es \subseteq Ref
  /\ \A r \in DOMAIN es : es[r] \in Entry
  /\ es = [r \in DOMAIN es |-> es[r]]

LEMMA WithoutKeeps ==
  ASSUME NEW es, Rewatched(es), NEW r, NEW c \in Component
  PROVE  /\ Rewatched(without(es, r, c))
         /\ DOMAIN without(es, r, c) \subseteq DOMAIN es
         /\ \A q \in DOMAIN without(es, r, c) : without(es, r, c)[q].status = es[q].status
<1>1. CASE es[r].listeners = {c}
  BY <1>1 DEF Rewatched, without, Restrict
<1>2. CASE es[r].listeners # {c}
  <2> DEFINE ws == [es EXCEPT ![r].listeners = @ \ {c}]
  <2>1. without(es, r, c) = ws
    BY <1>2 DEF without
  <2>2. DOMAIN ws = DOMAIN es /\ ws = [q \in DOMAIN ws |-> ws[q]]
    BY DEF Rewatched
  <2>3. ASSUME NEW q \in DOMAIN es PROVE ws[q] \in Entry /\ ws[q].status = es[q].status
    <3>1. es[q] \in Entry
      BY DEF Rewatched
    <3>2. CASE q # r
      BY <3>1, <3>2
    <3>3. CASE q = r
      <4>1. ws[q] = [es[q] EXCEPT !.listeners = @ \ {c}]
        BY <3>3
      <4>2. QED BY <3>1, <4>1 DEF Entry
    <3>4. QED BY <3>2, <3>3
  <2> HIDE DEF ws
  <2>4. QED BY <2>1, <2>2, <2>3 DEF Rewatched
<1>3. QED BY <1>1, <1>2

LEMMA UnwatchedKeeps ==
  ASSUME Fields, NEW c \in Component
  PROVE  /\ Rewatched(unwatched(c))
         /\ DOMAIN unwatched(c) \subseteq DOMAIN entries
         /\ \A q \in DOMAIN unwatched(c) : unwatched(c)[q].status = entries[q].status
<1>1. Rewatched(entries)
  BY DEF Fields, Rewatched
<1>2. QED BY <1>1, WithoutKeeps DEF unwatched

LEMMA WithKeeps ==
  ASSUME NEW es, Rewatched(es), NEW r \in Ref, NEW c \in Component
  PROVE  /\ Rewatched(with(es, r, c))
         /\ DOMAIN with(es, r, c) = DOMAIN es \cup {r}
         /\ \A q \in DOMAIN es : with(es, r, c)[q].status = es[q].status
<1> DEFINE ws == with(es, r, c)
<1>1. /\ DOMAIN ws = DOMAIN es \cup {r}
      /\ ws = [q \in DOMAIN ws |-> ws[q]]
      /\ \A q \in DOMAIN es : q # r => ws[q] = es[q]
      /\ r \in DOMAIN es => ws[r] = [es[r] EXCEPT !.listeners = @ \cup {c}]
      /\ r \notin DOMAIN es => ws[r] = [status |-> Absent, listeners |-> {c}]
  BY DEF with
<1> HIDE DEF ws
<1>2. ASSUME NEW q \in DOMAIN es PROVE ws[q] \in Entry /\ ws[q].status = es[q].status
  <2>1. es[q] \in Entry
    BY DEF Rewatched
  <2>2. QED BY <1>1, <2>1 DEF Entry
<1>3. r \notin DOMAIN es => ws[r] \in Entry
  BY <1>1 DEF Entry, Reading
<1>4. Rewatched(ws)
  BY <1>1, <1>2, <1>3 DEF Rewatched
<1>5. QED BY <1>1, <1>2, <1>4 DEF ws

-----------------------------------------------------------------------------
(***************************************************************************)
(* Queues.                                                                 *)
(***************************************************************************)
LEMMA HeadMovesOver ==
  ASSUME NEW S, NEW a \in Seq(S), NEW q \in Seq(S), NEW b \in Seq(S), q # << >>
  PROVE  /\ Append(a, Head(q)) \in Seq(S) /\ Tail(q) \in Seq(S)
         /\ Append(a, Head(q)) \o Tail(q) \o b = a \o q \o b
<1>1. Head(q) \in S /\ Tail(q) \in Seq(S)
  BY HeadTailProperties
<1>2. <<Head(q)>> \in Seq(S) /\ Append(a, Head(q)) = a \o <<Head(q)>>
  BY <1>1, AppendIsConcat
<1>3. <<Head(q)>> \o Tail(q) = q
  BY <1>1
<1>4. (a \o <<Head(q)>>) \o Tail(q) = a \o q
  BY <1>1, <1>2, <1>3, ConcatAssociative
<1>5. QED BY <1>1, <1>2, <1>4, ConcatProperties

\* Who asks, takes and performs nothing leaves the retries in order.
LEMMA RetriesStand ==
  ASSUME RetriesInOrder, asked'.retries = asked.retries, pending'.retries = pending.retries,
         retried' = retried, \A g \in Fiber : flush'[g].retries = flush[g].retries
  PROVE  RetriesInOrder'
<1>1. PICK f \in Fiber :
        /\ \A g \in Fiber \ {f} : flush[g].retries = << >>
        /\ asked.retries = retried \o flush[f].retries \o pending.retries
  BY DEF RetriesInOrder
<1>2. /\ \A g \in Fiber \ {f} : flush'[g].retries = << >>
      /\ asked'.retries = retried' \o flush'[f].retries \o pending'.retries
  BY <1>1
<1>3. QED BY <1>2 DEF RetriesInOrder

\* Only the controller's steps can leave a movement unsaid.
LEMMA NothingUnsaidStands ==
  ASSUME NothingUnsaid, UNCHANGED <<phase, moved>>
  PROVE  NothingUnsaid'
BY DEF NothingUnsaid

-----------------------------------------------------------------------------
(***************************************************************************)
(* The controller's steps, and the fibers waking.                          *)
(***************************************************************************)
LEMMA ControllerKeeps ==
  ASSUME MirrorInv,
         \/ \E r \in Ref, s \in Reading : Transition(r, s)
         \/ Signal
         \/ BeginShutdown \/ ShutdownForgets \/ ShutdownSignals
         \/ \E r \in Ref : Drains(r)
  PROVE  MirrorInv'
<1>1. UNCHANGED <<committed, retried, entries, pending, work, fiber, flush, asked>>
  BY DEF Transition, Signal, BeginShutdown, ShutdownForgets, ShutdownSignals, Drains, rest
<1>2. Absent \in Reading /\ Stopping \in Reading
  BY MirrorAssumption DEF Reading
<1>3. actual' \in [Ref -> Reading]
  BY <1>2 DEF MirrorInv, Fields, Transition, Signal, BeginShutdown, ShutdownForgets,
              ShutdownSignals, Drains
<1>4. Fields' /\ Serialized' /\ StatesInOrder' /\ PendingIsRequested'
  BY <1>1, <1>3 DEF MirrorInv, Fields, Serialized, Flushing, StatesInOrder, PendingIsRequested
<1>5. RetriesInOrder'
  BY <1>1, RetriesStand DEF MirrorInv
<1>6. CASE Signal \/ ShutdownSignals
  <2>1. actual' = actual /\ ~moved' /\ (moved \/ signal => signal')
    BY <1>6 DEF Signal, ShutdownSignals
  <2>2. NothingUnsaid'
    BY <2>1 DEF NothingUnsaid
  <2>3. ReadingIsTraced' /\ NoStaleReading'
    BY <1>1, <2>1 DEF MirrorInv, ReadingIsTraced, NoStaleReading, RefreshIsDue
  <2>4. QED BY <1>4, <1>5, <2>2, <2>3 DEF MirrorInv
<1>7. CASE \/ \E r \in Ref, s \in Reading : Transition(r, s)
           \/ BeginShutdown \/ ShutdownForgets
           \/ \E r \in Ref : Drains(r)
  <2>1. phase' # "closed" /\ signal' = signal
    BY <1>7 DEF Transition, BeginShutdown, ShutdownForgets, Drains
  <2>2. (moved \/ actual' # actual) => moved'
    <3>1. Moves
      BY <1>7 DEF Transition, BeginShutdown, ShutdownForgets, Drains
    <3>2. QED BY <3>1 DEF Moves
  <2>3. NothingUnsaid'
    BY <2>1 DEF NothingUnsaid
  <2>4. ReadingIsTraced' /\ NoStaleReading'
    BY <1>1, <2>1, <2>2 DEF MirrorInv, ReadingIsTraced, NoStaleReading, RefreshIsDue
  <2>5. QED BY <1>4, <1>5, <2>3, <2>4 DEF MirrorInv
<1>8. QED BY <1>6, <1>7

LEMMA FiberWakes ==
  ASSUME MirrorInv, WorkLoopWakes \/ StreamWakes
  PROVE  MirrorInv'
<1>1. PICK f \in Fiber :
        /\ fiber[f] = "waiting" /\ fiber' = [fiber EXCEPT ![f] = "due"]
        /\ UNCHANGED <<actual, phase, moved, committed, retried, entries, pending, flush, asked>>
  BY DEF WorkLoopWakes, StreamWakes, Fiber, controller
<1>2. /\ fiber' \in [Fiber -> {"waiting", "due", "applying", "read"}]
      /\ \A g \in Fiber : fiber'[g] = IF g = f THEN "due" ELSE fiber[g]
  BY <1>1 DEF MirrorInv, Fields
<1>3. Fields' /\ Serialized' /\ StatesInOrder'
  BY <1>1, <1>2 DEF MirrorInv, Fields, Serialized, Flushing, StatesInOrder
<1>4. RetriesInOrder'
  BY <1>1, RetriesStand DEF MirrorInv
<1>5. PendingIsRequested' /\ ReadingIsTraced' /\ NoStaleReading'
  BY <1>2 DEF PendingIsRequested, ReadingIsTraced, NoStaleReading, RefreshIsDue
<1>6. NothingUnsaid'
  BY <1>1, NothingUnsaidStands DEF MirrorInv
<1>7. QED BY <1>3, <1>4, <1>5, <1>6 DEF MirrorInv

-----------------------------------------------------------------------------
(***************************************************************************)
(* A flush.                                                                *)
(***************************************************************************)
LEMMA FlushTakesKeeps ==
  ASSUME MirrorInv, NEW f \in Fiber, FlushTakes(f)
  PROVE  MirrorInv'
<1> DEFINE took == [Nothing EXCEPT !.state = pending.state, !.retries = pending.retries]
<1>1. /\ exclusive /\ fiber' = [fiber EXCEPT ![f] = "applying"]
      /\ flush' = [flush EXCEPT ![f] = took]
      /\ pending' = [state |-> 0, retries |-> << >>]
      /\ UNCHANGED <<actual, phase, moved, committed, retried, entries, asked>>
  BY DEF FlushTakes, controller
<1>2. /\ Fields /\ Serialized /\ StatesInOrder /\ RetriesInOrder
  BY DEF MirrorInv
<1>3. /\ took \in Flush /\ took.state = pending.state /\ took.retries = pending.retries
  BY <1>2 DEF Nothing, Flush, Snapshot, Fields
<1> HIDE DEF took
<1>4. /\ fiber' \in [Fiber -> {"waiting", "due", "applying", "read"}]
      /\ flush' \in [Fiber -> Flush]
      /\ \A g \in Fiber : fiber'[g] = IF g = f THEN "applying" ELSE fiber[g]
      /\ \A g \in Fiber : flush'[g] = IF g = f THEN took ELSE flush[g]
      /\ pending' \in [state : Nat, retries : Seq(Ref)]
  BY <1>1, <1>2, <1>3 DEF Fields
<1>5. \A g \in Fiber : fiber[g] \in {"waiting", "due"} /\ flush[g].retries = << >>
  BY <1>1, <1>2 DEF exclusive, Serialized
<1>6. Fields' /\ Serialized'
  BY <1>1, <1>2, <1>4, <1>5 DEF Fields, Serialized, Flushing
<1>7. StatesInOrder'
  BY <1>1, <1>2, <1>3, <1>4 DEF Fields, StatesInOrder, Flush
<1>8. RetriesInOrder'
  <2>1. asked.retries = retried \o << >> \o pending.retries
    BY <1>2, <1>5 DEF RetriesInOrder
  <2>2. /\ retried \in Seq(Ref) /\ pending.retries \in Seq(Ref)
        /\ retried \o pending.retries \in Seq(Ref)
    BY <1>2, ConcatProperties DEF Fields
  <2>3. asked.retries = retried \o pending.retries \o << >>
    BY <2>1, <2>2, ConcatEmptySeq
  <2>4. asked'.retries = retried' \o flush'[f].retries \o pending'.retries
    BY <1>1, <1>3, <1>4, <2>3
  <2>5. QED BY <1>4, <1>5, <2>4 DEF RetriesInOrder
<1>9. PendingIsRequested' /\ ReadingIsTraced' /\ NoStaleReading'
  BY <1>1, <1>4, <1>5 DEF PendingIsRequested, ReadingIsTraced, NoStaleReading, RefreshIsDue
<1>10. NothingUnsaid'
  BY <1>1, NothingUnsaidStands DEF MirrorInv
<1>11. QED BY <1>6, <1>7, <1>8, <1>9, <1>10 DEF MirrorInv

LEMMA FlushCommitsKeeps ==
  ASSUME MirrorInv, NEW f \in Fiber, FlushCommits(f)
  PROVE  MirrorInv'
<1>1. /\ fiber[f] = "applying" /\ flush[f].state # 0 /\ committed' = flush[f].state
      /\ flush' = [flush EXCEPT ![f].state = 0]
      /\ UNCHANGED <<actual, phase, moved, retried, signal, entries, pending, work, fiber, asked>>
  BY DEF FlushCommits
<1>2. Fields /\ Serialized /\ StatesInOrder /\ RetriesInOrder
  BY DEF MirrorInv
<1>3. /\ flush' \in [Fiber -> Flush]
      /\ \A g \in Fiber : g # f => flush'[g] = flush[g]
      /\ flush'[f].state = 0 /\ flush'[f].retries = flush[f].retries
      /\ flush'[f].snapshot = flush[f].snapshot
  BY <1>1, <1>2 DEF Fields, Flush
<1>4. Fields' /\ Serialized'
  BY <1>1, <1>2, <1>3 DEF Fields, Flush, Serialized, Flushing
<1>5. StatesInOrder'
  <2>1. \A g \in Fiber : g # f => flush[g].state = 0
    BY <1>1, <1>2 DEF Serialized, Flushing
  <2>2. QED BY <1>1, <1>2, <1>3, <2>1 DEF StatesInOrder
<1>6. RetriesInOrder'
  BY <1>1, <1>2, <1>3, RetriesStand
<1>7. PendingIsRequested' /\ ReadingIsTraced' /\ NoStaleReading'
  BY <1>1, <1>3 DEF MirrorInv, PendingIsRequested, ReadingIsTraced, NoStaleReading,
                    RefreshIsDue
<1>8. NothingUnsaid'
  BY <1>1, NothingUnsaidStands DEF MirrorInv
<1>9. QED BY <1>4, <1>5, <1>6, <1>7, <1>8 DEF MirrorInv

LEMMA FlushRetriesKeeps ==
  ASSUME MirrorInv, NEW f \in Fiber, FlushRetries(f)
  PROVE  MirrorInv'
<1>1. /\ fiber[f] = "applying" /\ flush[f].state = 0 /\ flush[f].retries # << >>
      /\ retried' = Append(retried, Head(flush[f].retries))
      /\ flush' = [flush EXCEPT ![f].retries = Tail(flush[f].retries)]
      /\ UNCHANGED <<actual, phase, moved, committed, signal, entries, pending, work, fiber,
                     asked>>
  BY DEF FlushRetries
<1>2. Fields /\ Serialized /\ StatesInOrder /\ RetriesInOrder
  BY DEF MirrorInv
<1>3. /\ flush[f].retries \in Seq(Ref) /\ pending.retries \in Seq(Ref) /\ retried \in Seq(Ref)
  BY <1>2 DEF Fields, Flush
<1>4. /\ retried' \in Seq(Ref) /\ Tail(flush[f].retries) \in Seq(Ref)
      /\ retried' \o Tail(flush[f].retries) \o pending.retries
           = retried \o flush[f].retries \o pending.retries
  <2> DEFINE q == flush[f].retries
             b == pending.retries
  <2>1. q \in Seq(Ref) /\ b \in Seq(Ref) /\ q # << >> /\ retried' = Append(retried, Head(q))
    BY <1>1, <1>3
  <2> HIDE DEF q, b
  <2>2. /\ Append(retried, Head(q)) \in Seq(Ref) /\ Tail(q) \in Seq(Ref)
        /\ Append(retried, Head(q)) \o Tail(q) \o b = retried \o q \o b
    BY <1>3, <2>1, HeadMovesOver
  <2>3. QED BY <2>1, <2>2 DEF q, b
<1>5. /\ flush' \in [Fiber -> Flush]
      /\ \A g \in Fiber : g # f => flush'[g] = flush[g]
      /\ flush'[f].state = 0 /\ flush'[f].retries = Tail(flush[f].retries)
      /\ flush'[f].snapshot = flush[f].snapshot
  BY <1>1, <1>2, <1>4 DEF Fields, Flush
<1>6. Fields' /\ Serialized' /\ StatesInOrder'
  BY <1>1, <1>2, <1>4, <1>5 DEF Fields, Serialized, Flushing, StatesInOrder
<1>7. RetriesInOrder'
  <2>1. \A g \in Fiber \ {f} : flush[g].retries = << >>
    BY <1>1, <1>2 DEF Serialized, Flushing
  <2>2. asked.retries = retried \o flush[f].retries \o pending.retries
    BY <1>1, <1>2, <2>1 DEF RetriesInOrder
  <2>3. QED BY <1>1, <1>4, <1>5, <2>1, <2>2 DEF RetriesInOrder
<1>8. PendingIsRequested' /\ ReadingIsTraced' /\ NoStaleReading'
  BY <1>1, <1>5 DEF MirrorInv, PendingIsRequested, ReadingIsTraced, NoStaleReading,
                    RefreshIsDue
<1>9. NothingUnsaid'
  BY <1>1, NothingUnsaidStands DEF MirrorInv
<1>10. QED BY <1>6, <1>7, <1>8, <1>9 DEF MirrorInv

\* The reading is of the very moment, and nobody else holds one.
LEMMA FlushReadsKeeps ==
  ASSUME MirrorInv, NEW f \in Fiber, FlushReads(f)
  PROVE  MirrorInv'
<1>1. /\ fiber[f] = "applying" /\ flush[f].state = 0 /\ flush[f].retries = << >>
      /\ fiber' = [fiber EXCEPT ![f] = "read"]
      /\ flush' = [flush EXCEPT ![f].snapshot = actual]
      /\ UNCHANGED <<actual, phase, moved, committed, retried, signal, entries, pending, work,
                     asked>>
  BY DEF FlushReads, readyToRead, controller
<1>2. Fields /\ Serialized /\ StatesInOrder /\ RetriesInOrder
  BY DEF MirrorInv
<1>3. /\ fiber' \in [Fiber -> {"waiting", "due", "applying", "read"}]
      /\ flush' \in [Fiber -> Flush]
      /\ \A g \in Fiber : fiber'[g] = IF g = f THEN "read" ELSE fiber[g]
      /\ \A g \in Fiber : g # f => flush'[g] = flush[g]
      /\ flush'[f].state = 0 /\ flush'[f].retries = << >> /\ flush'[f].snapshot = actual
  BY <1>1, <1>2 DEF Fields, Flush, Snapshot
<1>4. \A g \in Fiber : g # f => fiber[g] \in {"waiting", "due"}
  BY <1>1, <1>2 DEF Serialized, Flushing, Fields
<1>5. Fields' /\ Serialized' /\ StatesInOrder'
  BY <1>1, <1>2, <1>3, <1>4 DEF Fields, Serialized, Flushing, StatesInOrder
<1>6. RetriesInOrder'
  <2>1. \A g \in Fiber : flush'[g].retries = flush[g].retries
    BY <1>1, <1>3
  <2>2. QED BY <1>1, <1>2, <2>1, RetriesStand
<1>7. PendingIsRequested'
  BY <1>1, <1>3 DEF MirrorInv, PendingIsRequested
<1>8. ReadingIsTraced' /\ NoStaleReading'
  BY <1>1, <1>2, <1>3, <1>4 DEF ReadingIsTraced, NoStaleReading, Fields
<1>9. NothingUnsaid'
  BY <1>1, NothingUnsaidStands DEF MirrorInv
<1>10. QED BY <1>5, <1>6, <1>7, <1>8, <1>9 DEF MirrorInv

\* What is applied is what was read, or something moved since and left a trace.
LEMMA FlushAppliesKeeps ==
  ASSUME MirrorInv, NEW f \in Fiber, FlushApplies(f)
  PROVE  MirrorInv'
<1> DEFINE snap == flush[f].snapshot
<1>1. /\ fiber[f] = "read" /\ fiber' = [fiber EXCEPT ![f] = "waiting"]
      /\ flush' = [flush EXCEPT ![f] = Nothing]
      /\ entries' = [r \in DOMAIN entries |->
                       [entries[r] EXCEPT !.status = refreshed(snap, r)]]
      /\ UNCHANGED <<actual, phase, moved, committed, retried, signal, pending, work, asked>>
  BY DEF FlushApplies, Applies, controller
<1>2. /\ Fields /\ Serialized /\ StatesInOrder /\ RetriesInOrder /\ ReadingIsTraced
      /\ NothingUnsaid
  BY DEF MirrorInv
<1>3. Nothing \in Flush /\ Nothing.state = 0 /\ Nothing.retries = << >>
  BY DEF Nothing, Flush, Snapshot
<1>4. /\ fiber' \in [Fiber -> {"waiting", "due", "applying", "read"}]
      /\ flush' \in [Fiber -> Flush]
      /\ \A g \in Fiber : fiber'[g] = IF g = f THEN "waiting" ELSE fiber[g]
      /\ \A g \in Fiber : flush'[g] = IF g = f THEN Nothing ELSE flush[g]
  BY <1>1, <1>2, <1>3 DEF Fields
<1>5. snap \in [Ref -> Reading] /\ flush[f].retries = << >>
  BY <1>1, <1>2 DEF Serialized
<1>6. ASSUME NEW r \in DOMAIN entries
      PROVE  entries'[r] \in Entry /\ entries'[r].status = refreshed(snap, r)
  <2>1. r \in Ref /\ entries[r] \in Entry
    BY <1>2 DEF Fields
  <2>2. refreshed(snap, r) \in Reading
    BY <1>5, <2>1 DEF refreshed, Entry
  <2>3. entries'[r] = [entries[r] EXCEPT !.status = refreshed(snap, r)]
    BY <1>1
  <2>4. QED BY <2>1, <2>2, <2>3 DEF Entry
<1>7. DOMAIN entries' = DOMAIN entries /\ entries' = [r \in DOMAIN entries' |-> entries'[r]]
  BY <1>1
<1>8. Fields' /\ Serialized' /\ StatesInOrder'
  BY <1>1, <1>2, <1>3, <1>4, <1>6, <1>7 DEF Fields, Serialized, Flushing, StatesInOrder
<1>9. RetriesInOrder'
  <2>1. \A g \in Fiber : flush'[g].retries = flush[g].retries
    BY <1>3, <1>4, <1>5
  <2>2. QED BY <1>1, <1>2, <2>1, RetriesStand
<1>10. PendingIsRequested'
  BY <1>1, <1>4 DEF MirrorInv, PendingIsRequested
<1>11. ReadingIsTraced'
  BY <1>1, <1>2, <1>4 DEF Serialized, Flushing, ReadingIsTraced
<1>12. NoStaleReading'
  <2> SUFFICES ASSUME NEW r \in DOMAIN entries \ Alien
               PROVE  entries'[r].status = actual'[r] \/ RefreshIsDue'
    BY <1>7 DEF NoStaleReading
  <2>1. entries'[r].status = snap[r] /\ r \in Ref
    BY <1>2, <1>6 DEF refreshed, Fields
  <2>2. \/ snap[r] = actual[r]
        \/ moved \/ signal
        \/ \E g \in Fiber : fiber[g] = "due"
    BY <1>1, <1>2, <2>1 DEF ReadingIsTraced
  <2>3. ASSUME NEW g \in Fiber, fiber[g] = "due" PROVE fiber'[g] = "due"
    BY <1>1, <1>4, <2>3
  <2>4. moved => phase # "closed"
    BY <1>2 DEF NothingUnsaid
  <2>5. QED BY <1>1, <2>1, <2>2, <2>3, <2>4 DEF RefreshIsDue
<1>13. NothingUnsaid'
  BY <1>1, NothingUnsaidStands DEF MirrorInv
<1>14. QED BY <1>8, <1>9, <1>10, <1>11, <1>12, <1>13 DEF MirrorInv

-----------------------------------------------------------------------------
(***************************************************************************)
(* The UI.                                                                 *)
(***************************************************************************)
\* What changes the cache only by watching and unwatching, and opens the latch
\* wherever that left an entry without a reading.
LEMMA RewatchingKeeps ==
  ASSUME MirrorInv, Rewatched(entries'), work => work',
         \A r \in DOMAIN entries' :
           work' \/ (r \in DOMAIN entries /\ entries'[r].status = entries[r].status),
         UNCHANGED <<actual, phase, moved, committed, retried, signal, pending, fiber, flush,
                     asked>>
  PROVE  MirrorInv'
<1>1. Fields' /\ Serialized' /\ StatesInOrder' /\ RetriesInOrder' /\ PendingIsRequested'
  BY DEF MirrorInv, Fields, Rewatched, Serialized, Flushing, StatesInOrder, RetriesInOrder,
         PendingIsRequested
<1>2. ReadingIsTraced' /\ NoStaleReading'
  BY DEF MirrorInv, ReadingIsTraced, NoStaleReading, RefreshIsDue
<1>3. NothingUnsaid'
  BY NothingUnsaidStands DEF MirrorInv
<1>4. QED BY <1>1, <1>2, <1>3 DEF MirrorInv

LEMMA WatchKeeps ==
  ASSUME MirrorInv, NEW c \in Component, NEW r \in Ref, watch(c, r),
         UNCHANGED <<actual, phase, moved, committed, retried, signal, pending, fiber, flush,
                     asked>>
  PROVE  MirrorInv'
<1> DEFINE es == unwatched(c)
<1>1. /\ Rewatched(es) /\ DOMAIN es \subseteq DOMAIN entries
      /\ \A q \in DOMAIN es : es[q].status = entries[q].status
  BY UnwatchedKeeps DEF MirrorInv
<1>2. entries' = with(es, r, c) /\ work' = (work \/ r \notin DOMAIN es)
  BY DEF watch
<1> HIDE DEF es
<1>3. /\ Rewatched(entries') /\ DOMAIN entries' = DOMAIN es \cup {r}
      /\ \A q \in DOMAIN es : entries'[q].status = es[q].status
  BY <1>1, <1>2, WithKeeps
<1>4. \A q \in DOMAIN entries' :
        work' \/ (q \in DOMAIN entries /\ entries'[q].status = entries[q].status)
  <2>1. r \notin DOMAIN es => work'
    BY <1>2, Zenon
  <2>2. ASSUME NEW q \in DOMAIN entries', q \in DOMAIN es
        PROVE  q \in DOMAIN entries /\ entries'[q].status = entries[q].status
    BY <1>1, <1>3, <2>2
  <2>3. ASSUME NEW q \in DOMAIN entries', q \notin DOMAIN es PROVE work'
    BY <1>3, <2>1, <2>3, Zenon
  <2>4. QED BY <2>2, <2>3, Zenon
<1>5. work => work'
  BY <1>2
<1>6. QED BY <1>3, <1>4, <1>5, RewatchingKeeps

LEMMA AsksKeep ==
  ASSUME MirrorInv, commit \/ \E r \in Ref : retry(r)
  PROVE  MirrorInv'
<1>1. /\ work' = TRUE
      /\ UNCHANGED <<actual, phase, moved, committed, retried, signal, entries, fiber, flush>>
  BY DEF commit, retry, controller
<1>2. Fields /\ Serialized /\ StatesInOrder /\ RetriesInOrder /\ ReadingIsTraced
  BY DEF MirrorInv
<1>3. /\ asked.states \in Nat /\ asked.retries \in Seq(Ref)
      /\ pending.state \in Nat /\ pending.retries \in Seq(Ref)
      /\ committed \in Nat /\ \A f \in Fiber : flush[f].state \in Nat
  BY <1>2 DEF Fields, Flush
<1>4. /\ Serialized' /\ ReadingIsTraced' /\ NothingUnsaid' /\ PendingIsRequested'
      /\ NoStaleReading'
  BY <1>1, <1>2, NothingUnsaidStands DEF MirrorInv, Serialized, Flushing, ReadingIsTraced,
     PendingIsRequested, NoStaleReading, RefreshIsDue
<1>5. CASE commit
  <2>1. /\ asked' = [asked EXCEPT !.states = asked.states + 1]
        /\ pending' = [pending EXCEPT !.state = asked.states + 1]
    BY <1>5 DEF commit
  <2>2. /\ asked' \in [states : Nat, retries : Seq(Ref)]
        /\ asked'.states = asked.states + 1 /\ asked'.retries = asked.retries
        /\ pending' \in [state : Nat, retries : Seq(Ref)]
        /\ pending'.state = asked.states + 1 /\ pending'.retries = pending.retries
    <3>1. asked.states + 1 \in Nat
      BY <1>3
    <3>2. asked \in [states : Nat, retries : Seq(Ref)]
          /\ pending \in [state : Nat, retries : Seq(Ref)]
      BY <1>2 DEF Fields
    <3>3. /\ asked' \in [states : Nat, retries : Seq(Ref)]
          /\ asked'.states = asked.states + 1 /\ asked'.retries = asked.retries
      BY <2>1, <3>1, <3>2
    <3>4. /\ pending' \in [state : Nat, retries : Seq(Ref)]
          /\ pending'.state = asked.states + 1 /\ pending'.retries = pending.retries
      BY <2>1, <3>1, <3>2
    <3>5. QED BY <3>3, <3>4
  <2>3. Fields' /\ RetriesInOrder'
    BY <1>1, <1>2, <2>2, RetriesStand DEF Fields
  <2>4. StatesInOrder'
    BY <1>1, <1>2, <1>3, <2>2 DEF StatesInOrder
  <2>5. QED BY <1>4, <2>3, <2>4 DEF MirrorInv
<1>6. ASSUME NEW r \in Ref, retry(r) PROVE MirrorInv'
  <2>1. /\ asked' = [asked EXCEPT !.retries = Append(asked.retries, r)]
        /\ pending' = [pending EXCEPT !.retries = Append(pending.retries, r)]
    BY <1>6 DEF retry
  <2>2. Append(asked.retries, r) \in Seq(Ref) /\ Append(pending.retries, r) \in Seq(Ref)
    BY <1>3, AppendProperties
  <2>3. /\ asked' \in [states : Nat, retries : Seq(Ref)]
        /\ asked'.states = asked.states /\ asked'.retries = Append(asked.retries, r)
        /\ pending' \in [state : Nat, retries : Seq(Ref)]
        /\ pending'.state = pending.state /\ pending'.retries = Append(pending.retries, r)
    BY <1>2, <2>1, <2>2 DEF Fields
  <2>4. Fields' /\ StatesInOrder'
    BY <1>1, <1>2, <2>3 DEF Fields, StatesInOrder
  <2>5. RetriesInOrder'
    <3>1. PICK f \in Fiber :
            /\ \A g \in Fiber \ {f} : flush[g].retries = << >>
            /\ asked.retries = retried \o flush[f].retries \o pending.retries
      BY <1>2 DEF RetriesInOrder
    <3> DEFINE done == retried \o flush[f].retries
               left == pending.retries
    <3>2. done \in Seq(Ref) /\ left \in Seq(Ref) /\ <<r>> \in Seq(Ref)
      BY <1>2, <1>3, ConcatProperties DEF Fields, Flush
    <3> HIDE DEF done, left
    <3>3. /\ Append(done \o left, r) = (done \o left) \o <<r>>
          /\ Append(left, r) = left \o <<r>>
          /\ (done \o left) \o <<r>> = done \o (left \o <<r>>)
      BY <3>2, AppendIsConcat, ConcatAssociative, ConcatProperties
    <3>4. Append(asked.retries, r) = retried \o flush[f].retries \o Append(pending.retries, r)
      BY <3>1, <3>3 DEF done, left
    <3>5. QED BY <1>1, <2>3, <3>1, <3>4 DEF RetriesInOrder
  <2>6. QED BY <1>4, <2>4, <2>5 DEF MirrorInv
<1>7. QED BY <1>5, <1>6

\* A component renders a lifetime, or has rendered none yet.
RefsNamed == ref \in [Component -> Ref \cup {NoRef}]

LEMMA UIKeeps ==
  ASSUME MirrorInv, RefsNamed, UI
  PROVE  MirrorInv'
<1>1. ASSUME NEW c \in Component, NEW r \in Ref, Render(c, r) PROVE MirrorInv'
  BY <1>1, WatchKeeps DEF Render, controller
<1>2. ASSUME NEW c \in Component, Leave(c) PROVE MirrorInv'
  <2>1. /\ entries' = unwatched(c) /\ work' = work
        /\ UNCHANGED <<actual, phase, moved, committed, retried, signal, pending, fiber, flush,
                       asked>>
    BY <1>2 DEF Leave, controller
  <2>2. /\ Rewatched(entries')
        /\ \A r \in DOMAIN entries' :
             r \in DOMAIN entries /\ entries'[r].status = entries[r].status
    BY <1>2, <2>1, UnwatchedKeeps DEF MirrorInv
  <2>3. QED BY <2>1, <2>2, RewatchingKeeps
<1>3. ASSUME NEW c \in Component, Reconnect(c) PROVE MirrorInv'
  <2>1. CASE ref[c] \in Ref
    BY <1>3, <2>1, WatchKeeps DEF Reconnect, controller
  <2>2. QED BY <1>3, <2>1 DEF Reconnect, RefsNamed
<1>4. QED BY <1>1, <1>2, <1>3, AsksKeep DEF UI

LEMMA NextKeepsRefsNamed ==
  ASSUME RefsNamed, [Next]_vars
  PROVE  RefsNamed'
<1>1. ASSUME NEW c \in Component, NEW r \in Ref, Render(c, r) PROVE RefsNamed'
  BY <1>1 DEF Render, RefsNamed
<1>2. ASSUME NEW c \in Component, Leave(c) PROVE RefsNamed'
  BY <1>2 DEF Leave, RefsNamed
<1>3. ASSUME \A c \in Component : ~Leave(c) /\ \A r \in Ref : ~Render(c, r)
      PROVE  ref' = ref
  BY <1>3 DEF Next, Transition, Signal, BeginShutdown, Drains, ShutdownForgets,
              ShutdownSignals, rest, UI, Reconnect, commit, retry, Refresh,
              WorkLoopWakes, StreamWakes, FlushTakes, FlushCommits, FlushRetries, FlushReads,
              FlushApplies, screen, vars
<1>4. QED BY <1>1, <1>2, <1>3 DEF RefsNamed

-----------------------------------------------------------------------------
LEMMA InitEstablishesMirrorInv == Init => MirrorInv /\ RefsNamed
<1> SUFFICES ASSUME Init PROVE MirrorInv /\ RefsNamed
  OBVIOUS
<1>1. << >> \in Seq(Ref) /\ "work" \in Fiber
  BY DEF Fiber
<1>2. Nothing \in Flush /\ Nothing.state = 0 /\ Nothing.retries = << >>
  BY <1>1 DEF Nothing, Flush, Snapshot
<1>3. DOMAIN entries = {}
  BY DEF Init
<1>4. entries = [r \in DOMAIN entries |-> entries[r]]
  BY <1>3 DEF Init
<1>5. Fields
  BY <1>1, <1>2, <1>3, <1>4 DEF Init, Fields, Reading
<1>6. /\ Serialized /\ StatesInOrder /\ ReadingIsTraced /\ NothingUnsaid /\ PendingIsRequested
      /\ NoStaleReading /\ RefsNamed
  BY <1>2, <1>3 DEF Init, Serialized, Flushing, StatesInOrder, ReadingIsTraced,
                    PendingIsRequested, NoStaleReading, NothingUnsaid, RefsNamed
<1>7. RetriesInOrder
  <2>1. \A f \in Fiber : flush[f].retries = << >>
    BY <1>2 DEF Init
  <2>2. << >> \o << >> \o << >> = << >>
    BY <1>1, ConcatEmptySeq
  <2>3. QED BY <1>1, <2>1, <2>2 DEF Init, RetriesInOrder
<1>8. QED BY <1>5, <1>6, <1>7 DEF MirrorInv

LEMMA NextKeepsMirrorInv ==
  ASSUME MirrorInv, RefsNamed, [Next]_vars
  PROVE  MirrorInv'
<1>1. CASE \E f \in Fiber : Refresh(f)
  BY <1>1, FlushTakesKeeps, FlushCommitsKeeps, FlushRetriesKeeps, FlushReadsKeeps,
     FlushAppliesKeeps DEF Refresh
<1>2. CASE UNCHANGED vars
  <2>1. Fields' /\ Serialized' /\ StatesInOrder' /\ ReadingIsTraced' /\ NothingUnsaid'
    BY <1>2 DEF MirrorInv, Fields, Serialized, Flushing, StatesInOrder, ReadingIsTraced,
                NothingUnsaid, vars, controller, rest
  <2>2. RetriesInOrder'
    BY <1>2, RetriesStand DEF MirrorInv, vars, controller, rest
  <2>3. PendingIsRequested' /\ NoStaleReading'
    BY <1>2 DEF MirrorInv, PendingIsRequested, NoStaleReading, RefreshIsDue, vars, controller, rest
  <2>4. QED BY <2>1, <2>2, <2>3 DEF MirrorInv
<1>3. QED BY <1>1, <1>2, ControllerKeeps, FiberWakes, UIKeeps DEF Next

THEOREM MirrorInvariant == Spec => [](MirrorInv /\ RefsNamed)
<1>1. MirrorInv /\ RefsNamed /\ [Next]_vars => (MirrorInv /\ RefsNamed)'
  BY NextKeepsMirrorInv, NextKeepsRefsNamed
<1>2. QED BY <1>1, InitEstablishesMirrorInv, PTL DEF Spec

-----------------------------------------------------------------------------
\* Where the cache disagrees with the controller, open, being shut down or closed,
\* a refresh is on its way, whatever moved between a reading and its being applied
\* (mirror.ts: flushOnce; controller.ts: the last signal of shutdown).
THEOREM ReadingsAreNeverStale == Spec => []NoStaleReading
<1>1. MirrorInv => NoStaleReading
  BY DEF MirrorInv
<1>2. QED BY <1>1, MirrorInvariant, PTL

\* What the UI leaves behind while a flush runs reopens the latch it closed.
THEOREM PendingIsAlwaysRequested == Spec => []PendingIsRequested
<1>1. MirrorInv => PendingIsRequested
  BY DEF MirrorInv
<1>2. QED BY <1>1, MirrorInvariant, PTL

\* No retry is lost, doubled or overtaken, whichever fiber takes it.
THEOREM RetriesAlwaysInOrder == Spec => []RetriesInOrder
<1>1. MirrorInv => RetriesInOrder
  BY DEF MirrorInv
<1>2. QED BY <1>1, MirrorInvariant, PTL

\* A state that a slow flush took is never committed after a newer one.
THEOREM CommitsAlwaysAdvance == Spec => CommitsNeverRollBack
<1>1. MirrorInv /\ [Next]_vars => [committed' >= committed]_vars
  <2> SUFFICES ASSUME MirrorInv, Next PROVE committed' >= committed
    BY DEF MirrorInv
  <2>1. ASSUME NEW f \in Fiber, FlushCommits(f) PROVE committed' >= committed
    BY <2>1 DEF FlushCommits, MirrorInv, StatesInOrder, Fields, Flush
  <2>2. ASSUME \A f \in Fiber : ~FlushCommits(f) PROVE committed' = committed
    BY <2>2 DEF Next, Transition, Signal, BeginShutdown, Drains, ShutdownForgets,
                ShutdownSignals, rest, UI, Render, Leave, Reconnect, commit, retry, Refresh,
                WorkLoopWakes, StreamWakes, FlushTakes, FlushRetries, FlushReads,
                FlushApplies, Applies, controller
  <2>3. committed \in Nat
    BY DEF MirrorInv, Fields
  <2>4. QED BY <2>1, <2>2, <2>3
<1>2. QED BY <1>1, MirrorInvariant, PTL DEF Spec, CommitsNeverRollBack
=============================================================================
