--------------------------- MODULE ControllerProofs ---------------------------
(***************************************************************************)
(* The controller's safety invariants, for every Definition, every set of  *)
(* snapshots the application commits, and every pool of generations.       *)
(*                                                                         *)
(* The invariants are proved together: a generation is only retired with   *)
(* what stands on it because the reverse edges agree with the bindings,    *)
(* and what a stop fiber forgets is only ever draining because a           *)
(* generation that is draining supports nothing with authority.            *)
(***************************************************************************)
EXTENDS Nested, Barrier, TLAPS

-----------------------------------------------------------------------------
(***************************************************************************)
(* What track, retire, concludeStartup and forget preserve, for every      *)
(* Definition and every set of generations.                                *)
(***************************************************************************)
\* A generation's identity and slot are of the sorts the indexes are keyed by.
LEMMA GenSorts ==
  ASSUME NEW g \in Gen
  PROVE  IdentOf(g) \in Ident /\ SlotOf(g) \in Slot /\ SlotOf(g) = SlotIdent(IdentOf(g))
BY DEF Gen, IdentOf, SlotOf, Slot

\* The empty live state is well typed and its indexes agree.
LEMMA MakeLiveState ==
  /\ makeLiveState \in LiveState
  /\ All(makeLiveState) = {} /\ Authority(makeLiveState) = {} /\ Obsolete(makeLiveState) = {}
  /\ IndexesConsistent(makeLiveState)
<1>1. makeLiveState \in LiveState
  BY DEF makeLiveState, LiveState, Lifecycle
<1>2. All(makeLiveState) = {} /\ Authority(makeLiveState) = {} /\ Obsolete(makeLiveState) = {}
  BY DEF makeLiveState, All, Authority, Obsolete
<1>3. IndexesConsistent(makeLiveState)
  BY <1>2, NoGenAssumption
     DEF makeLiveState, IndexesConsistent, IdentIndexAgrees, SlotIndexAgrees,
         RetiringIndexAgrees, EdgesAgree
<1>4. QED BY <1>1, <1>2, <1>3

-----------------------------------------------------------------------------
\* retire yields a live state, and moves exactly S from authority to draining.
LEMMA RetireType ==
  ASSUME NEW L \in LiveState, NEW S \in SUBSET Gen
  PROVE  retire(L, S) \in LiveState
BY DEF LiveState, retire, Lifecycle

LEMMA RetireSets ==
  ASSUME NEW L \in LiveState, NEW S \in SUBSET Authority(L)
  PROVE  /\ Authority(retire(L, S)) = Authority(L) \ S
         /\ Obsolete(retire(L, S)) = Obsolete(L) \cup S
         /\ All(retire(L, S)) = All(L)
BY DEF LiveState, retire, Lifecycle, Authority, Obsolete, All

\* Retiring generations that have authority keeps every index in agreement.
LEMMA RetireKeepsIndexes ==
  ASSUME NEW L \in LiveState, NEW S \in SUBSET Authority(L), IndexesConsistent(L)
  PROVE  IndexesConsistent(retire(L, S))
<1> DEFINE M == retire(L, S)
<1>0. /\ Authority(M) = Authority(L) \ S
      /\ Obsolete(M) = Obsolete(L) \cup S
      /\ All(M) = All(L)
      /\ S \subseteq Gen
  BY RetireSets DEF Authority
<1>1. IdentIndexAgrees(M)
  <2> SUFFICES ASSUME NEW i \in Ident, NEW g \in Gen
               PROVE  M.currentByIdent[i] = g <=> g \in Authority(M) /\ IdentOf(g) = i
    BY DEF IdentIndexAgrees
  <2>1. M.currentByIdent[i] = IF L.currentByIdent[i] \in S THEN NoGen ELSE L.currentByIdent[i]
    BY DEF retire, LiveState
  <2>2. L.currentByIdent[i] = g <=> g \in Authority(L) /\ IdentOf(g) = i
    BY DEF IndexesConsistent, IdentIndexAgrees
  <2>3. QED BY <2>1, <2>2, <1>0, NoGenAssumption
<1>2. SlotIndexAgrees(M)
  <2> SUFFICES ASSUME NEW s \in Slot, NEW g \in Gen
               PROVE  M.current[s] = g <=> g \in Authority(M) /\ SlotOf(g) = s
    BY DEF SlotIndexAgrees
  <2>1. M.current[s] = IF L.current[s] \in S THEN NoGen ELSE L.current[s]
    BY DEF retire, LiveState
  <2>2. L.current[s] = g <=> g \in Authority(L) /\ SlotOf(g) = s
    BY DEF IndexesConsistent, SlotIndexAgrees
  <2>3. QED BY <2>1, <2>2, <1>0, NoGenAssumption
<1>3. RetiringIndexAgrees(M)
  <2> SUFFICES ASSUME NEW s \in Slot
               PROVE  M.retiring[s] = {g \in Obsolete(M) : SlotOf(g) = s}
    BY DEF RetiringIndexAgrees
  <2>1. M.retiring[s] = L.retiring[s] \cup {g \in S : SlotOf(g) = s}
    BY DEF retire, LiveState
  <2>2. L.retiring[s] = {g \in Obsolete(L) : SlotOf(g) = s}
    BY DEF IndexesConsistent, RetiringIndexAgrees
  <2>3. QED BY <2>1, <2>2, <1>0
<1>4. EdgesAgree(M)
  <2>1. M.children = L.children /\ M.dependents = L.dependents
        /\ M.owner = L.owner /\ M.providers = L.providers
    BY DEF retire, LiveState
  <2>2. QED BY <2>1, <1>0 DEF IndexesConsistent, EdgesAgree
<1>5. QED BY <1>1, <1>2, <1>3, <1>4 DEF IndexesConsistent

-----------------------------------------------------------------------------
\* What a pass hands to track: identities of free slots, no two of one slot,
\* each with a token that is not in use.
Admits(L, A, admit, owner, providers) ==
  /\ A \subseteq Ident
  /\ admit \in [A -> Gen]
  /\ owner \in [A -> Gen \cup {NoGen}]
  /\ providers \in [A -> SUBSET Gen]
  /\ \A i \in A : /\ IdentOf(admit[i]) = i
                 /\ L.status[admit[i]] = "none"
                 /\ L.current[SlotIdent(i)] = NoGen
  /\ \A i, j \in A : SlotIdent(i) = SlotIdent(j) => i = j

Fresh(A, admit) == {admit[i] : i \in A}

\* An admitted generation is named by the identity it was admitted for.
LEMMA FreshIsNamed ==
  ASSUME NEW L \in LiveState, NEW A, NEW admit, NEW owner, NEW providers,
         Admits(L, A, admit, owner, providers),
         NEW g \in Fresh(A, admit)
  PROVE  /\ g \in Gen
         /\ IdentOf(g) \in A
         /\ admit[IdentOf(g)] = g
         /\ L.status[g] = "none"
         /\ L.current[SlotOf(g)] = NoGen
<1>1. PICK i \in A : g = admit[i]
  BY DEF Fresh
<1>2. IdentOf(g) = i
  BY <1>1 DEF Admits
<1>3. SlotOf(g) = SlotIdent(i)
  BY <1>2 DEF SlotOf, IdentOf
<1>4. QED BY <1>1, <1>2, <1>3 DEF Admits

\* What track does to each field, with the taker of a slot named.
Tracks(L, M, A, admit, owner, providers) ==
  LET fresh == Fresh(A, admit) IN
  /\ M.status = [g \in Gen |-> IF g \in fresh THEN "starting" ELSE L.status[g]]
  /\ M.owner = [g \in Gen |-> IF g \in fresh THEN owner[IdentOf(g)] ELSE L.owner[g]]
  /\ M.providers = [g \in Gen |-> IF g \in fresh THEN providers[IdentOf(g)]
                                  ELSE L.providers[g]]
  /\ M.children = [h \in Gen |-> L.children[h] \cup
                     {g \in fresh : owner[IdentOf(g)] = h}]
  /\ M.dependents = [h \in Gen |-> L.dependents[h] \cup
                     {g \in fresh : h \in providers[IdentOf(g)]}]
  /\ M.currentByIdent = [i \in Ident |-> IF i \in A THEN admit[i]
                                         ELSE L.currentByIdent[i]]
  /\ M.current \in [Slot -> Gen \cup {NoGen}]
  /\ \A i \in A : M.current[SlotIdent(i)] = admit[i]
  /\ \A s \in Slot : (\A i \in A : SlotIdent(i) # s) => M.current[s] = L.current[s]
  /\ M.retiring = L.retiring
  /\ M.moved \in BOOLEAN

\* track does that, whatever identity it chooses for a slot it must choose for.
LEMMA TrackFields ==
  ASSUME NEW L \in LiveState, NEW A, NEW admit, NEW owner, NEW providers,
         Admits(L, A, admit, owner, providers)
  PROVE  Tracks(L, track(L, admit, owner, providers), A, admit, owner, providers)
<1> DEFINE M == track(L, admit, owner, providers)
           takers(s) == {i \in A : SlotIdent(i) = s}
           holder(s) == IF takers(s) # {} THEN admit[CHOOSE i \in takers(s) : TRUE]
                                          ELSE L.current[s]
<1>0. DOMAIN admit = A /\ A \subseteq Ident
  BY DEF Admits
<1>1. M.current = [s \in Slot |-> holder(s)]
  BY <1>0 DEF track
<1>2. \A i \in A : SlotIdent(i) \in Slot
  BY <1>0 DEF Slot
<1>3. \A i \in A : holder(SlotIdent(i)) = admit[i]
  <2> SUFFICES ASSUME NEW i \in A PROVE holder(SlotIdent(i)) = admit[i]
    OBVIOUS
  <2>1. takers(SlotIdent(i)) = {i}
    BY DEF Admits
  <2>2. (CHOOSE j \in takers(SlotIdent(i)) : TRUE) = i
    BY <2>1
  <2>3. QED BY <2>1, <2>2
<1>4. \A s \in Slot : (\A i \in A : SlotIdent(i) # s) => holder(s) = L.current[s]
  OBVIOUS
<1>5. \A s \in Slot : holder(s) \in Gen \cup {NoGen}
  <2> SUFFICES ASSUME NEW s \in Slot PROVE holder(s) \in Gen \cup {NoGen}
    OBVIOUS
  <2>1. CASE \A i \in A : SlotIdent(i) # s
    BY <2>1, <1>4 DEF LiveState
  <2>2. CASE \E i \in A : SlotIdent(i) = s
    BY <2>2, <1>3 DEF Admits
  <2>3. QED BY <2>1, <2>2
<1>6. /\ M.current \in [Slot -> Gen \cup {NoGen}]
      /\ \A i \in A : M.current[SlotIdent(i)] = admit[i]
      /\ \A s \in Slot : (\A i \in A : SlotIdent(i) # s) => M.current[s] = L.current[s]
  <2> HIDE DEF holder
  <2>1. QED BY <1>1, <1>2, <1>3, <1>4, <1>5
<1>7. /\ M.moved \in BOOLEAN
      /\ M.retiring = L.retiring
  BY DEF track, LiveState
<1>8. QED BY <1>0, <1>6, <1>7 DEF track, Fresh, Tracks

\* track yields a live state, and adds exactly the admitted to those with
\* authority.
LEMMA TrackSets ==
  ASSUME NEW L \in LiveState, NEW A, NEW admit, NEW owner, NEW providers,
         Admits(L, A, admit, owner, providers)
  PROVE  LET M == track(L, admit, owner, providers)
         IN /\ M \in LiveState
            /\ Authority(M) = Authority(L) \cup Fresh(A, admit)
            /\ Obsolete(M) = Obsolete(L)
            /\ All(M) = All(L) \cup Fresh(A, admit)
<1> DEFINE M == track(L, admit, owner, providers)
           fresh == Fresh(A, admit)
<1>0. \A g \in fresh : g \in Gen /\ IdentOf(g) \in A /\ admit[IdentOf(g)] = g
                       /\ L.status[g] = "none"
  BY FreshIsNamed
<1>1. Tracks(L, M, A, admit, owner, providers)
  BY TrackFields
<1>2. M = [status |-> M.status, owner |-> M.owner, providers |-> M.providers,
           children |-> M.children, dependents |-> M.dependents,
           currentByIdent |-> M.currentByIdent, current |-> M.current,
           retiring |-> M.retiring, moved |-> M.moved]
  BY DEF track
<1> HIDE DEF M
<1>3. M.status \in [Gen -> Lifecycle]
  BY <1>1 DEF LiveState, Lifecycle, Tracks
<1>4. M.owner \in [Gen -> Gen \cup {NoGen}] /\ M.providers \in [Gen -> SUBSET Gen]
  BY <1>0, <1>1 DEF LiveState, Admits, Tracks
<1>5. M.children \in [Gen -> SUBSET Gen] /\ M.dependents \in [Gen -> SUBSET Gen]
  BY <1>0, <1>1 DEF LiveState, Tracks
<1>6. M.currentByIdent \in [Ident -> Gen \cup {NoGen}]
  BY <1>1 DEF LiveState, Admits, Tracks
<1>7. M.retiring \in [Slot -> SUBSET Gen]
  BY <1>1 DEF LiveState, Tracks
<1>8. M \in LiveState
  BY <1>1, <1>2, <1>3, <1>4, <1>5, <1>6, <1>7 DEF LiveState, Tracks
<1>9. /\ Authority(M) = Authority(L) \cup fresh
      /\ Obsolete(M) = Obsolete(L)
      /\ All(M) = All(L) \cup fresh
  BY <1>0, <1>1 DEF Authority, Obsolete, All, Tracks
<1>10. QED BY <1>8, <1>9 DEF M

\* Admitting into free slots keeps every index in agreement.
LEMMA TrackKeepsIndexes ==
  ASSUME NEW L \in LiveState, NEW A, NEW admit, NEW owner, NEW providers,
         Admits(L, A, admit, owner, providers),
         IndexesConsistent(L)
  PROVE  IndexesConsistent(track(L, admit, owner, providers))
<1> DEFINE M == track(L, admit, owner, providers)
           fresh == Fresh(A, admit)
<1>0. \A g \in fresh : /\ g \in Gen /\ IdentOf(g) \in A /\ admit[IdentOf(g)] = g
                       /\ L.status[g] = "none"
                       /\ L.current[SlotOf(g)] = NoGen
  BY FreshIsNamed
<1>1. \A i \in A : admit[i] \in fresh /\ IdentOf(admit[i]) = i /\ i \in Ident
  BY DEF Fresh, Admits
<1>2. /\ Authority(M) = Authority(L) \cup fresh
      /\ Obsolete(M) = Obsolete(L)
      /\ All(M) = All(L) \cup fresh
  BY TrackSets
<1>T. Tracks(L, M, A, admit, owner, providers)
  BY TrackFields
<1>3. /\ M.owner = [g \in Gen |-> IF g \in fresh THEN owner[IdentOf(g)] ELSE L.owner[g]]
      /\ M.providers = [g \in Gen |-> IF g \in fresh THEN providers[IdentOf(g)]
                                      ELSE L.providers[g]]
      /\ M.children = [h \in Gen |-> L.children[h] \cup
                         {g \in fresh : owner[IdentOf(g)] = h}]
      /\ M.dependents = [h \in Gen |-> L.dependents[h] \cup
                         {g \in fresh : h \in providers[IdentOf(g)]}]
      /\ M.currentByIdent = [i \in Ident |-> IF i \in A THEN admit[i]
                                             ELSE L.currentByIdent[i]]
      /\ M.retiring = L.retiring
  BY <1>T DEF Tracks
<1>4. /\ \A i \in A : M.current[SlotIdent(i)] = admit[i]
      /\ \A s \in Slot : (\A i \in A : SlotIdent(i) # s) => M.current[s] = L.current[s]
  BY <1>T DEF Tracks
<1>5. \A g \in Gen : SlotOf(g) = SlotIdent(IdentOf(g))
  BY GenSorts
<1> HIDE DEF M, fresh
<1>6. \A i \in A : L.currentByIdent[i] = NoGen
  <2> SUFFICES ASSUME NEW i \in A, L.currentByIdent[i] # NoGen PROVE FALSE
    OBVIOUS
  <2>1. L.currentByIdent[i] \in Gen
    BY <1>1 DEF LiveState
  <2>2. PICK g \in Gen : g = L.currentByIdent[i]
    BY <2>1
  <2>3. g \in Authority(L) /\ IdentOf(g) = i
    BY <2>2, <1>1 DEF IndexesConsistent, IdentIndexAgrees
  <2>4. SlotOf(g) = SlotIdent(i) /\ SlotOf(g) \in Slot
    BY <2>3, <1>5, GenSorts
  <2>5. L.current[SlotIdent(i)] = g
    BY <2>3, <2>4 DEF IndexesConsistent, SlotIndexAgrees
  <2>6. QED BY <2>5, NoGenAssumption DEF Admits
<1>7. IdentIndexAgrees(M)
  <2> SUFFICES ASSUME NEW i \in Ident, NEW g \in Gen
               PROVE  M.currentByIdent[i] = g <=> g \in Authority(M) /\ IdentOf(g) = i
    BY DEF IdentIndexAgrees
  <2>1. L.currentByIdent[i] = g <=> g \in Authority(L) /\ IdentOf(g) = i
    BY DEF IndexesConsistent, IdentIndexAgrees
  <2>2. CASE i \in A
    BY <2>1, <2>2, <1>0, <1>1, <1>2, <1>3, <1>6, NoGenAssumption
  <2>3. CASE i \notin A
    BY <2>1, <2>3, <1>0, <1>2, <1>3
  <2>4. QED BY <2>2, <2>3
<1>8. SlotIndexAgrees(M)
  <2> SUFFICES ASSUME NEW s \in Slot, NEW g \in Gen
               PROVE  M.current[s] = g <=> g \in Authority(M) /\ SlotOf(g) = s
    BY DEF SlotIndexAgrees
  <2>1. L.current[s] = g <=> g \in Authority(L) /\ SlotOf(g) = s
    BY DEF IndexesConsistent, SlotIndexAgrees
  <2>2. CASE \E i \in A : SlotIdent(i) = s
    <3>1. PICK i \in A : SlotIdent(i) = s
      BY <2>2
    <3>2. M.current[s] = admit[i] /\ L.current[s] = NoGen
      BY <3>1, <1>4 DEF Admits
    <3>3. g \in fresh /\ SlotOf(g) = s => IdentOf(g) = i
      BY <3>1, <1>0, <1>5 DEF Admits
    <3>4. SlotOf(admit[i]) = s
      BY <3>1, <1>0, <1>1, <1>5
    <3>5. QED BY <3>2, <3>3, <3>4, <2>1, <1>0, <1>1, <1>2, NoGenAssumption
  <2>3. CASE \A i \in A : SlotIdent(i) # s
    BY <2>1, <2>3, <1>0, <1>2, <1>4, <1>5
  <2>4. QED BY <2>2, <2>3
<1>9. RetiringIndexAgrees(M)
  BY <1>2, <1>3 DEF IndexesConsistent, RetiringIndexAgrees
<1>10. EdgesAgree(M)
  <2> SUFFICES ASSUME NEW h \in Gen
               PROVE  /\ M.children[h] = {g \in All(M) : M.owner[g] = h}
                      /\ M.dependents[h] = {g \in All(M) : h \in M.providers[g]}
    BY DEF EdgesAgree
  <2>1. /\ L.children[h] = {g \in All(L) : L.owner[g] = h}
        /\ L.dependents[h] = {g \in All(L) : h \in L.providers[g]}
    BY DEF IndexesConsistent, EdgesAgree
  <2>2. All(L) \cap fresh = {} /\ All(L) \subseteq Gen /\ fresh \subseteq Gen
    BY <1>0 DEF All
  <2>3. /\ \A g \in All(L) : M.owner[g] = L.owner[g] /\ M.providers[g] = L.providers[g]
        /\ \A g \in fresh : M.owner[g] = owner[IdentOf(g)]
                            /\ M.providers[g] = providers[IdentOf(g)]
    BY <2>2, <1>3
  <2>4. M.children[h] = {g \in All(M) : M.owner[g] = h}
    BY <2>1, <2>2, <2>3, <1>2, <1>3
  <2>5. M.dependents[h] = {g \in All(M) : h \in M.providers[g]}
    BY <2>1, <2>2, <2>3, <1>2, <1>3
  <2>6. QED BY <2>4, <2>5
<1>11. IndexesConsistent(M)
  BY <1>7, <1>8, <1>9, <1>10 DEF IndexesConsistent
<1>12. QED BY <1>11 DEF M

-----------------------------------------------------------------------------
\* A startup completion moves no index, and nobody's authority.
LEMMA ConcludeKeeps ==
  ASSUME NEW L \in LiveState, NEW g \in Gen, L.status[g] = "starting",
         NEW st \in {"running", "failed"}
  PROVE  LET M == concludeStartup(L, g, st)
         IN /\ M \in LiveState
            /\ Authority(M) = Authority(L)
            /\ Obsolete(M) = Obsolete(L)
            /\ All(M) = All(L)
            /\ IndexesConsistent(L) => IndexesConsistent(M)
            /\ AuthoritySupported(L) => AuthoritySupported(M)
            /\ SlotsExclusive(L) => SlotsExclusive(M)
<1> DEFINE M == concludeStartup(L, g, st)
<1>1. M = [L EXCEPT !.status = [L.status EXCEPT ![g] = st], !.moved = TRUE]
  BY DEF concludeStartup, LiveState
<1>2. /\ M.status = [L.status EXCEPT ![g] = st]
      /\ M.owner = L.owner /\ M.providers = L.providers
      /\ M.children = L.children /\ M.dependents = L.dependents
      /\ M.currentByIdent = L.currentByIdent /\ M.current = L.current
      /\ M.retiring = L.retiring
  BY <1>1 DEF LiveState
<1>3. M \in LiveState
  <2>1. [L.status EXCEPT ![g] = st] \in [Gen -> Lifecycle]
    BY DEF LiveState, Lifecycle
  <2>2. QED BY <1>1, <2>1 DEF LiveState
<1> HIDE DEF M
<1>4. /\ Authority(M) = Authority(L)
      /\ Obsolete(M) = Obsolete(L)
      /\ All(M) = All(L)
  BY <1>2 DEF Authority, Obsolete, All, LiveState
<1>5. IndexesConsistent(L) => IndexesConsistent(M)
  BY <1>2, <1>4 DEF IndexesConsistent, IdentIndexAgrees, SlotIndexAgrees,
                    RetiringIndexAgrees, EdgesAgree
<1>6. ASSUME AuthoritySupported(L) PROVE AuthoritySupported(M)
  <2> SUFFICES ASSUME NEW a \in Authority(L) PROVE Supported(M, a)
    BY <1>4 DEF AuthoritySupported
  <2>1. Supported(L, a)
    BY <1>6 DEF AuthoritySupported
  <2>2. \A h \in Gen : L.status[h] = "running" => M.status[h] = "running"
    BY <1>2 DEF LiveState
  <2>3. a \in Gen /\ L.owner[a] \in Gen \cup {NoGen} /\ L.providers[a] \subseteq Gen
    BY DEF Authority, LiveState
  <2>4. QED BY <2>1, <2>2, <2>3, <1>2 DEF Supported
<1>7. SlotsExclusive(L) => SlotsExclusive(M)
  BY <1>4 DEF SlotsExclusive
<1>8. QED BY <1>3, <1>4, <1>5, <1>6, <1>7 DEF M

\* Forgetting generations, whatever they are, keeps every index in agreement.
LEMMA ForgetKeeps ==
  ASSUME NEW L \in LiveState, NEW S \in SUBSET Gen
  PROVE  LET M == forget(L, S)
         IN /\ M \in LiveState
            /\ Authority(M) = Authority(L) \ S
            /\ Obsolete(M) = Obsolete(L) \ S
            /\ All(M) = All(L) \ S
            /\ IndexesConsistent(L) => IndexesConsistent(M)
            /\ SlotsExclusive(L) => SlotsExclusive(M)
<1> DEFINE M == forget(L, S)
<1>1. /\ M.status = [g \in Gen |-> IF g \in S THEN "none" ELSE L.status[g]]
      /\ M.owner = [g \in Gen |-> IF g \in S THEN NoGen ELSE L.owner[g]]
      /\ M.providers = [g \in Gen |-> IF g \in S THEN {} ELSE L.providers[g]]
      /\ M.children = [h \in Gen |-> L.children[h] \ S]
      /\ M.dependents = [h \in Gen |-> L.dependents[h] \ S]
      /\ M.currentByIdent = [i \in Ident |-> IF L.currentByIdent[i] \in S THEN NoGen
                                             ELSE L.currentByIdent[i]]
      /\ M.current = [s \in Slot |-> IF L.current[s] \in S THEN NoGen ELSE L.current[s]]
      /\ M.retiring = [s \in Slot |-> L.retiring[s] \ S]
  BY DEF forget
<1>2. M \in LiveState
  BY DEF forget, LiveState, Lifecycle
<1> HIDE DEF M
<1>3. /\ Authority(M) = Authority(L) \ S
      /\ Obsolete(M) = Obsolete(L) \ S
      /\ All(M) = All(L) \ S
  BY <1>1 DEF Authority, Obsolete, All, LiveState
<1>4. ASSUME IndexesConsistent(L) PROVE IndexesConsistent(M)
  <2>1. IdentIndexAgrees(M)
    BY <1>1, <1>3, <1>4, NoGenAssumption DEF IndexesConsistent, IdentIndexAgrees
  <2>2. SlotIndexAgrees(M)
    BY <1>1, <1>3, <1>4, NoGenAssumption DEF IndexesConsistent, SlotIndexAgrees
  <2>3. RetiringIndexAgrees(M)
    BY <1>1, <1>3, <1>4 DEF IndexesConsistent, RetiringIndexAgrees
  <2>4. EdgesAgree(M)
    <3>1. \A g \in All(M) : M.owner[g] = L.owner[g] /\ M.providers[g] = L.providers[g]
      BY <1>1, <1>3 DEF All
    <3>2. SUFFICES ASSUME NEW h \in Gen
                   PROVE  /\ M.children[h] = {g \in All(M) : M.owner[g] = h}
                          /\ M.dependents[h] = {g \in All(M) : h \in M.providers[g]}
      BY DEF EdgesAgree
    <3>3. /\ L.children[h] = {g \in All(L) : L.owner[g] = h}
          /\ L.dependents[h] = {g \in All(L) : h \in L.providers[g]}
      BY <1>4 DEF IndexesConsistent, EdgesAgree
    <3>4. M.children[h] = L.children[h] \ S /\ M.dependents[h] = L.dependents[h] \ S
      BY <1>1
    <3>5. M.children[h] = {g \in All(M) : M.owner[g] = h}
      BY <1>3, <3>1, <3>3, <3>4
    <3>6. M.dependents[h] = {g \in All(M) : h \in M.providers[g]}
      BY <1>3, <3>1, <3>3, <3>4
    <3>7. QED BY <3>5, <3>6
  <2>5. QED BY <2>1, <2>2, <2>3, <2>4 DEF IndexesConsistent
<1>5. SlotsExclusive(L) => SlotsExclusive(M)
  BY <1>3 DEF SlotsExclusive
<1>6. QED BY <1>2, <1>3, <1>4, <1>5 DEF M

\* Forgetting draining generations takes the support from nobody.
LEMMA ForgetKeepsSupport ==
  ASSUME NEW L \in LiveState, NEW S \in SUBSET Obsolete(L), AuthoritySupported(L)
  PROVE  AuthoritySupported(forget(L, S))
<1> DEFINE M == forget(L, S)
<1>1. S \subseteq Gen /\ \A g \in S : L.status[g] = "stopping"
  BY DEF Obsolete
<1>2. Authority(M) = Authority(L) \ S
  BY <1>1, ForgetKeeps
<1>3. /\ M.status = [g \in Gen |-> IF g \in S THEN "none" ELSE L.status[g]]
      /\ M.owner = [g \in Gen |-> IF g \in S THEN NoGen ELSE L.owner[g]]
      /\ M.providers = [g \in Gen |-> IF g \in S THEN {} ELSE L.providers[g]]
  BY DEF forget
<1> HIDE DEF M
<1>4. ASSUME NEW a \in Authority(L) \ S PROVE Supported(M, a)
  <2>1. Supported(L, a)
    BY DEF AuthoritySupported
  <2>2. a \in Gen /\ L.owner[a] \in Gen \cup {NoGen} /\ L.providers[a] \subseteq Gen
    BY DEF Authority, LiveState
  <2>3. M.owner[a] = L.owner[a] /\ M.providers[a] = L.providers[a]
    BY <1>3, <2>2
  <2>4. \A h \in Gen : L.status[h] = "running" => M.status[h] = "running"
    BY <1>1, <1>3
  <2>5. QED BY <2>1, <2>2, <2>3, <2>4 DEF Supported
<1>5. QED BY <1>2, <1>4 DEF AuthoritySupported, M

\* Retiring keeps what is left supported, provided the retired are closed along
\* the two edges that carry invalidity.
LEMMA RetireKeepsSupport ==
  ASSUME NEW L \in LiveState, NEW S \in SUBSET Authority(L),
         IndexesConsistent(L), AuthoritySupported(L),
         \A h \in S : (L.children[h] \cup L.dependents[h]) \cap Authority(L) \subseteq S
  PROVE  AuthoritySupported(retire(L, S))
<1> DEFINE M == retire(L, S)
<1>1. S \subseteq Gen /\ Authority(L) \subseteq All(L)
  BY DEF Authority, All
<1>2. Authority(M) = Authority(L) \ S
  BY RetireSets
<1>3. /\ M.status = [g \in Gen |-> IF g \in S THEN "stopping" ELSE L.status[g]]
      /\ M.owner = L.owner
      /\ M.providers = L.providers
  BY DEF retire, LiveState
<1> HIDE DEF M
<1>4. ASSUME NEW a \in Authority(L) \ S PROVE Supported(M, a)
  <2>1. Supported(L, a)
    BY DEF AuthoritySupported
  <2>2. a \in Gen /\ L.owner[a] \in Gen \cup {NoGen} /\ L.providers[a] \subseteq Gen
    BY DEF Authority, LiveState
  <2>3. \A h \in S : L.owner[a] # h /\ h \notin L.providers[a]
    BY <1>1, <2>2 DEF IndexesConsistent, EdgesAgree
  <2>4. \A h \in Gen \ S : M.status[h] = L.status[h]
    BY <1>3
  <2>5. QED BY <2>1, <2>2, <2>3, <2>4, <1>3 DEF Supported
<1>5. QED BY <1>2, <1>4 DEF AuthoritySupported, M

\* Retiring empties no slot: it is free again only once what drains is forgotten.
LEMMA RetireKeepsExclusion ==
  ASSUME NEW L \in LiveState, NEW S \in SUBSET Authority(L), SlotsExclusive(L)
  PROVE  SlotsExclusive(retire(L, S))
<1>1. All(retire(L, S)) = All(L)
  BY RetireSets
<1>2. QED BY <1>1 DEF SlotsExclusive

\* Admitting what stands on Running generations keeps authority supported.
LEMMA TrackKeepsSupport ==
  ASSUME NEW L \in LiveState, NEW A, NEW admit, NEW owner, NEW providers,
         Admits(L, A, admit, owner, providers),
         AuthoritySupported(L),
         \A i \in A : IF IsRoot(i) THEN owner[i] = NoGen
                      ELSE /\ owner[i] # NoGen
                           /\ IdentOf(owner[i]) = Parent(i)
                           /\ L.status[owner[i]] = "running",
         \A i \in A : \A h \in providers[i] : L.status[h] = "running"
  PROVE  AuthoritySupported(track(L, admit, owner, providers))
<1> DEFINE M == track(L, admit, owner, providers)
           fresh == Fresh(A, admit)
<1>0. \A g \in fresh : /\ g \in Gen /\ IdentOf(g) \in A /\ admit[IdentOf(g)] = g
                       /\ L.status[g] = "none"
  BY FreshIsNamed
<1>1. Tracks(L, M, A, admit, owner, providers)
  BY TrackFields
<1>2. Authority(M) = Authority(L) \cup fresh
  BY TrackSets
<1> HIDE DEF M
<1>3. /\ M.status = [g \in Gen |-> IF g \in fresh THEN "starting" ELSE L.status[g]]
      /\ M.owner = [g \in Gen |-> IF g \in fresh THEN owner[IdentOf(g)] ELSE L.owner[g]]
      /\ M.providers = [g \in Gen |-> IF g \in fresh THEN providers[IdentOf(g)]
                                      ELSE L.providers[g]]
  BY <1>1 DEF Tracks
<1> HIDE DEF fresh
<1>4. \A h \in Gen : L.status[h] = "running" => M.status[h] = "running"
  BY <1>0, <1>3
<1>5. ASSUME NEW a \in fresh PROVE Supported(M, a)
  <2>1. a \in Gen /\ IdentOf(a) \in A
    BY <1>0
  <2>2. owner[IdentOf(a)] \in Gen \cup {NoGen} /\ providers[IdentOf(a)] \subseteq Gen
    BY <2>1 DEF Admits
  <2>3. M.owner[a] = owner[IdentOf(a)] /\ M.providers[a] = providers[IdentOf(a)]
    BY <2>1, <1>3
  <2>4. QED BY <2>1, <2>2, <2>3, <1>4 DEF Supported
<1>6. ASSUME NEW a \in Authority(L) PROVE Supported(M, a)
  <2>1. Supported(L, a)
    BY DEF AuthoritySupported
  <2>2. a \in Gen /\ a \notin fresh
        /\ L.owner[a] \in Gen \cup {NoGen} /\ L.providers[a] \subseteq Gen
    BY <1>0 DEF Authority, LiveState
  <2>3. M.owner[a] = L.owner[a] /\ M.providers[a] = L.providers[a]
    BY <2>2, <1>3
  <2>4. QED BY <2>1, <2>2, <2>3, <1>4 DEF Supported
<1>7. QED BY <1>2, <1>5, <1>6 DEF AuthoritySupported, M

\* Admitting into drained sequential slots keeps them exclusive.
LEMMA TrackKeepsExclusion ==
  ASSUME NEW L \in LiveState, NEW A, NEW admit, NEW owner, NEW providers,
         Admits(L, A, admit, owner, providers),
         IndexesConsistent(L), SlotsExclusive(L),
         \A i \in A : FamilyOf(i) \in Overlap \/ L.retiring[SlotIdent(i)] = {}
  PROVE  SlotsExclusive(track(L, admit, owner, providers))
<1> DEFINE M == track(L, admit, owner, providers)
           fresh == Fresh(A, admit)
<1>0. \A g \in fresh : /\ g \in Gen /\ IdentOf(g) \in A /\ admit[IdentOf(g)] = g
                       /\ L.current[SlotOf(g)] = NoGen
  BY FreshIsNamed
<1>1. All(M) = All(L) \cup fresh
  BY TrackSets
<1>2. \A g \in Gen : SlotOf(g) = SlotIdent(IdentOf(g)) /\ SlotOf(g) \in Slot
  BY GenSorts
<1> HIDE DEF M, fresh
<1>3. \A g \in All(L) : g \in Gen /\ (g \in Authority(L) \/ g \in Obsolete(L))
  BY DEF All, Authority, Obsolete, LiveState, Lifecycle
<1>4. ASSUME NEW g \in fresh, NEW h \in All(L), Sequential(g), SlotOf(g) = SlotOf(h)
      PROVE  FALSE
  <2>1. L.retiring[SlotOf(h)] = {} /\ L.current[SlotOf(h)] = NoGen
    BY <1>0, <1>2, <1>4 DEF Sequential
  <2>2. SlotOf(h) \in Slot
    BY <1>2, <1>3
  <2>3. CASE h \in Authority(L)
    BY <2>1, <2>2, <2>3, <1>3, NoGenAssumption DEF IndexesConsistent, SlotIndexAgrees
  <2>4. CASE h \in Obsolete(L)
    BY <2>1, <2>2, <2>4 DEF IndexesConsistent, RetiringIndexAgrees
  <2>5. QED BY <1>3, <2>3, <2>4
<1>5. ASSUME NEW g \in fresh, NEW h \in fresh, SlotOf(g) = SlotOf(h) PROVE g = h
  BY <1>0, <1>2, <1>5 DEF Admits
<1>6. QED BY <1>1, <1>4, <1>5 DEF SlotsExclusive, M

-----------------------------------------------------------------------------
\* Whether a change has been signalled is not part of what the indexes say.
LEMMA MovedKeeps ==
  ASSUME NEW L \in LiveState, NEW b \in BOOLEAN
  PROVE  LET M == [L EXCEPT !.moved = b]
         IN /\ M \in LiveState
            /\ Authority(M) = Authority(L)
            /\ Obsolete(M) = Obsolete(L)
            /\ All(M) = All(L)
            /\ M.status = L.status
            /\ IndexesConsistent(L) => IndexesConsistent(M)
            /\ AuthoritySupported(L) => AuthoritySupported(M)
            /\ SlotsExclusive(L) => SlotsExclusive(M)
<1> DEFINE M == [L EXCEPT !.moved = b]
<1>1. M \in LiveState
  BY DEF LiveState
<1>2. /\ M.status = L.status
      /\ M.owner = L.owner /\ M.providers = L.providers
      /\ M.children = L.children /\ M.dependents = L.dependents
      /\ M.currentByIdent = L.currentByIdent /\ M.current = L.current
      /\ M.retiring = L.retiring
  BY DEF LiveState
<1> HIDE DEF M
<1>3. Authority(M) = Authority(L) /\ Obsolete(M) = Obsolete(L) /\ All(M) = All(L)
  BY <1>2 DEF Authority, Obsolete, All
<1>4. IndexesConsistent(L) => IndexesConsistent(M)
  BY <1>2, <1>3 DEF IndexesConsistent, IdentIndexAgrees, SlotIndexAgrees,
                    RetiringIndexAgrees, EdgesAgree
<1>5. AuthoritySupported(L) => AuthoritySupported(M)
  BY <1>2, <1>3 DEF AuthoritySupported, Supported
<1>6. SlotsExclusive(L) => SlotsExclusive(M)
  BY <1>3 DEF SlotsExclusive
<1>7. QED BY <1>1, <1>2, <1>3, <1>4, <1>5, <1>6 DEF M

\* When the indexes agree, the answer read from them and the one found by a walk
\* over every generation are the same.
LEMMA StatusAgrees ==
  ASSUME NEW L \in LiveState, IndexesConsistent(L), NEW i \in Ident
  PROVE  statusOf(L, i) = snapshotGet(L, i)
<1> DEFINE same == {h \in All(L) : IdentOf(h) = i}
           entries == {L.status[g] : g \in same}
           holding == entries \ {"stopping"}
<1>1. /\ All(L) = Authority(L) \cup Obsolete(L)
      /\ Authority(L) \cup Obsolete(L) \subseteq Gen
      /\ \A g \in Authority(L) : L.status[g] # "stopping"
      /\ \A g \in Obsolete(L) : L.status[g] = "stopping"
  BY DEF All, Authority, Obsolete, LiveState, Lifecycle
<1>2. snapshotGet(L, i) = IF holding # {} THEN CHOOSE st \in holding : TRUE
                          ELSE IF entries # {} THEN "stopping" ELSE "none"
  BY DEF snapshotGet
<1>3. CASE L.currentByIdent[i] # NoGen
  <2>1. PICK g \in Gen : g = L.currentByIdent[i]
    BY <1>3 DEF LiveState
  <2>2. \A h \in Gen : h \in Authority(L) /\ IdentOf(h) = i <=> h = g
    BY <2>1 DEF IndexesConsistent, IdentIndexAgrees
  <2>3. g \in same /\ L.status[g] # "stopping"
    BY <1>1, <2>2
  <2>4. \A h \in same : h # g => L.status[h] = "stopping"
    BY <1>1, <2>2
  <2>5. holding = {L.status[g]}
    BY <2>3, <2>4
  <2>6. snapshotGet(L, i) = L.status[g]
    BY <1>2, <2>5
  <2>7. instanceFor(L, i) = {g}
    BY <1>3, <2>1 DEF instanceFor
  <2>8. statusOf(L, i) = L.status[g]
    BY <2>7 DEF statusOf
  <2>9. QED BY <2>6, <2>8
<1>4. CASE L.currentByIdent[i] = NoGen
  <2>1. \A h \in Authority(L) : IdentOf(h) # i
    BY <1>1, <1>4, NoGenAssumption DEF IndexesConsistent, IdentIndexAgrees
  <2>2. \A h \in same : h \in Obsolete(L) /\ L.status[h] = "stopping"
    BY <1>1, <2>1
  <2>3. SlotIdent(i) \in Slot
    BY DEF Slot
  <2>4. instanceFor(L, i) = {h \in L.retiring[SlotIdent(i)] : IdentOf(h) = i}
    BY <1>4 DEF instanceFor
  <2>5. L.retiring[SlotIdent(i)] = {h \in Obsolete(L) : SlotOf(h) = SlotIdent(i)}
    BY <2>3 DEF IndexesConsistent, RetiringIndexAgrees
  <2>6. \A h \in Gen : IdentOf(h) = i => SlotOf(h) = SlotIdent(i)
    BY GenSorts
  <2>7. instanceFor(L, i) = same
    BY <1>1, <2>2, <2>4, <2>5, <2>6
  <2>8. CASE same = {}
    <3>1. entries = {}
      BY <2>8
    <3>2. QED BY <1>2, <2>7, <2>8, <3>1 DEF statusOf
  <2>9. CASE same # {}
    <3>1. entries = {"stopping"}
      BY <2>2, <2>9
    <3>2. snapshotGet(L, i) = "stopping"
      BY <1>2, <3>1
    <3>3. (CHOOSE h \in same : TRUE) \in same
      BY <2>9
    <3>4. QED BY <2>2, <2>7, <2>9, <3>2, <3>3 DEF statusOf
  <2>10. QED BY <2>8, <2>9
<1>5. QED BY <1>3, <1>4

-----------------------------------------------------------------------------
(***************************************************************************)
(* The controller.                                                         *)
(***************************************************************************)
\* A stop fiber waits on the dedicated close of a generation that is draining.
StopFibersDrain ==
  \A g \in Gen : stop[g] = "closing" => g \in Obsolete(live) /\ closing[g] # "none"

\* From the moment shutdown begins nothing has authority.
ClosingHasNoAuthority == phase # "open" => Authority(live) = {}

LiveInv(L) ==
  /\ L \in LiveState
  /\ IndexesConsistent(L)
  /\ AuthoritySupported(L)
  /\ SlotsExclusive(L)

IInv ==
  /\ TypeOK
  /\ LiveInv(live)
  /\ MatchCacheCoherent
  /\ ClosingHasNoAuthority
  /\ StopFibersDrain

-----------------------------------------------------------------------------
\* A published snapshot desires identities, owners with their children, one per
\* slot, and hands every one of them a projection.
LEMMA DesiredIsCoherent ==
  ASSUME desired \in Desire \cup {EmptySnapshot}
  PROVE  /\ Coherent(Wanted)
         /\ \A i \in Wanted : desired[i] \in Projection \cup {NoProjection}
<1>1. CASE desired = EmptySnapshot
  <2>1. Wanted = {}
    BY <1>1 DEF Wanted, EmptySnapshot
  <2>2. QED BY <2>1 DEF Coherent
<1>2. CASE desired \in Desire
  <2>1. desired \in DesiredSnapshot
    BY <1>2, ControllerAssumption
  <2>2. PICK D \in {S \in SUBSET Ident : Coherent(S)} :
          desired \in [D -> Projection \cup {NoProjection}]
    BY <2>1 DEF DesiredSnapshot
  <2>3. QED BY <2>2 DEF Wanted
<1>3. QED BY <1>1, <1>2

\* What invalidate returns has authority, contains everything whose desire is
\* withdrawn, and is closed along the owner and provider edges.
LEMMA InvalidateIsClosed ==
  /\ invalidate \subseteq Authority(live)
  /\ Withdrawn \subseteq invalidate
  /\ \A h \in invalidate :
       (live.children[h] \cup live.dependents[h]) \cap Authority(live) \subseteq invalidate
<1>1. invalidate \subseteq Authority(live)
  BY DEF invalidate
<1>2. Withdrawn \subseteq invalidate
  BY DEF invalidate, Cascades, Withdrawn
<1>3. ASSUME NEW h \in invalidate,
             NEW c \in (live.children[h] \cup live.dependents[h]) \cap Authority(live)
      PROVE  c \in invalidate
  <2>1. SUFFICES ASSUME NEW R \in SUBSET Authority(live), Cascades(R) PROVE c \in R
    BY DEF invalidate
  <2>2. h \in R
    BY <2>1 DEF invalidate
  <2>3. QED BY <2>1, <2>2 DEF Cascades
<1>4. QED BY <1>1, <1>2, <1>3

\* A draining generation supports nothing that has authority.
LEMMA DrainingSupportsNothing ==
  ASSUME NEW L, LiveInv(L), NEW h \in Gen, L.status[h] # "running"
  PROVE  (L.children[h] \cup L.dependents[h]) \cap Authority(L) = {}
<1> SUFFICES ASSUME NEW c \in Authority(L), c \in L.children[h] \cup L.dependents[h]
             PROVE  FALSE
  OBVIOUS
<1>1. c \in All(L) /\ (L.owner[c] = h \/ h \in L.providers[c])
  BY DEF LiveInv, IndexesConsistent, EdgesAgree, Authority, All
<1>2. Supported(L, c)
  BY DEF LiveInv, AuthoritySupported
<1>3. c \in Gen /\ L.owner[c] \in Gen \cup {NoGen}
  BY DEF Authority, LiveInv, LiveState
<1>4. CASE h \in L.providers[c]
  BY <1>2, <1>4 DEF Supported
<1>5. CASE L.owner[c] = h
  BY <1>2, <1>5, NoGenAssumption DEF Supported
<1>6. QED BY <1>1, <1>4, <1>5

\* What a stop fiber forgets is draining, and leaves alone every generation with
\* a dedicated close of its own.
LEMMA OwnedSubtreeDrains ==
  ASSUME LiveInv(live), NEW g \in Obsolete(live)
  PROVE  /\ ownedSubtree(g) \subseteq Obsolete(live)
         /\ \A h \in ownedSubtree(g) : h = g \/ closing[h] = "none"
<1>1. Obsolete(live) \subseteq All(live) /\ All(live) \subseteq Gen
      /\ All(live) = Obsolete(live) \cup Authority(live)
      /\ \A h \in Obsolete(live) : live.status[h] # "running"
  BY DEF LiveInv, LiveState, Lifecycle, Obsolete, Authority, All
<1>2. \A r \in All(live) : live.children[r] \subseteq All(live)
  BY <1>1 DEF LiveInv, IndexesConsistent, EdgesAgree
<1>3. \A r \in Obsolete(live) : live.children[r] \subseteq Obsolete(live)
  BY <1>1, <1>2, DrainingSupportsNothing
<1>4. ownedSubtree(g) \subseteq Obsolete(live)
  BY <1>1, <1>3 DEF ownedSubtree
<1>5. ASSUME NEW h \in ownedSubtree(g) PROVE h = g \/ closing[h] = "none"
  <2> DEFINE R == {g} \cup {c \in All(live) : closing[c] = "none"}
  <2>1. R \subseteq All(live) /\ g \in R
    BY <1>1
  <2>2. \A r \in R : {c \in live.children[r] : closing[c] = "none"} \subseteq R
    BY <1>2, <2>1
  <2>3. h \in R
    BY <2>1, <2>2 DEF ownedSubtree
  <2>4. QED BY <2>3
<1>6. QED BY <1>4, <1>5

-----------------------------------------------------------------------------
\* The initial state satisfies the invariant.
LEMMA InitEstablishesIInv == Init => IInv
<1> SUFFICES ASSUME Init PROVE IInv
  OBVIOUS
<1> USE DEF Init
<1>1. /\ makeLiveState \in LiveState
      /\ All(makeLiveState) = {} /\ Authority(makeLiveState) = {}
      /\ IndexesConsistent(makeLiveState)
  BY MakeLiveState
<1>2. LiveInv(live)
  BY <1>1 DEF LiveInv, AuthoritySupported, SlotsExclusive
<1>3. TypeOK
  <2>1. supervisors \in [Ident -> 0..MaxRestarts + 1]
    BY ControllerAssumption DEF NotStarted
  <2>2. seen \in [Gen -> Projection \cup {NoProjection}] /\ live \in LiveState
    BY <1>1
  <2> HIDE DEF Init
  <2>3. QED BY <2>1, <2>2 DEF TypeOK, Init
<1>4. MatchCacheCoherent /\ ClosingHasNoAuthority /\ StopFibersDrain
  BY DEF MatchCacheCoherent, ClosingHasNoAuthority, StopFibersDrain
<1>5. QED BY <1>2, <1>3, <1>4 DEF IInv

\* A commit replaces the desire and forgets what was matched to the last one.
LEMMA CommitKeepsIInv ==
  ASSUME IInv, NEW d \in Desire, Commit(d)
  PROVE  IInv'
<1> USE DEF Commit, wakeUp, scopes, fibers
<1>1. TypeOK'
  BY DEF IInv, TypeOK
<1>2. LiveInv(live)' /\ ClosingHasNoAuthority' /\ StopFibersDrain'
  BY DEF IInv, LiveInv, ClosingHasNoAuthority, StopFibersDrain
<1>3. MatchCacheCoherent'
  BY DEF MatchCacheCoherent
<1>4. QED BY <1>1, <1>2, <1>3 DEF IInv

\* A close claims Scopes and leaves the types alone.
LEMMA CloseTypes ==
  ASSUME TypeOK, NEW S \in SUBSET Gen
  PROVE  /\ closingAfter(S) \in [Gen -> {"none", "pending", "done"}]
         /\ scopeAfter(S) \in [Gen -> {"none", "open", "closing", "closed"}]
         /\ \A g \in S : closingAfter(S)[g] # "none"
         /\ \A g \in Gen : closing[g] # "none" => closingAfter(S)[g] # "none"
BY DEF TypeOK, closingAfter, scopeAfter

\* Retiring a Failed generation between two passes: nothing stands on it, so
\* nothing is left standing on a draining generation until the next pass.
LEMMA RetireOutOfBandKeeps ==
  ASSUME IInv, NEW g \in Gen, live.status[g] = "failed", phase = "open",
         phase' = phase, desired' = desired, RetireOutOfBand(g)
  PROVE  /\ LiveInv(live)' /\ MatchCacheCoherent' /\ ClosingHasNoAuthority' /\ StopFibersDrain'
         /\ matched' \subseteq Gen /\ outOfBand' \in SUBSET (Gen \cup outOfBand)
         /\ closing' \in [Gen -> {"none", "pending", "done"}]
         /\ scope' \in [Gen -> {"none", "open", "closing", "closed"}]
         /\ stop' \in [Gen -> {"none", "closing", "wake"}]
         /\ wake' \in BOOLEAN /\ owed' \in BOOLEAN /\ loop' = loop
<1> USE DEF RetireOutOfBand, beginStop, closeInstance, wakeUp
<1>1. {g} \subseteq Authority(live) /\ TypeOK /\ LiveInv(live)
  BY DEF Authority, IInv
<1>2. /\ Authority(retire(live, {g})) = Authority(live) \ {g}
      /\ Obsolete(retire(live, {g})) = Obsolete(live) \cup {g}
      /\ retire(live, {g}) \in LiveState
      /\ IndexesConsistent(retire(live, {g}))
      /\ SlotsExclusive(retire(live, {g}))
  BY <1>1, RetireSets, RetireType, RetireKeepsIndexes, RetireKeepsExclusion DEF LiveInv
<1>3. AuthoritySupported(retire(live, {g}))
  <2>1. (live.children[g] \cup live.dependents[g]) \cap Authority(live) = {}
    BY <1>1, DrainingSupportsNothing
  <2>2. \A h \in {g} : (live.children[h] \cup live.dependents[h]) \cap Authority(live)
                         \subseteq {g}
    BY <2>1
  <2>3. QED BY <1>1, <2>2, RetireKeepsSupport DEF LiveInv
<1>4. LiveInv(live)'
  BY <1>2, <1>3 DEF LiveInv
<1>5. MatchCacheCoherent' /\ ClosingHasNoAuthority'
  BY <1>2 DEF IInv, MatchCacheCoherent, ClosingHasNoAuthority, Wanted
<1>6. /\ closing' \in [Gen -> {"none", "pending", "done"}]
      /\ scope' \in [Gen -> {"none", "open", "closing", "closed"}]
      /\ closing'[g] # "none"
      /\ \A h \in Gen : closing[h] # "none" => closing'[h] # "none"
  BY <1>1, CloseTypes
<1>7. StopFibersDrain'
  BY <1>2, <1>6 DEF IInv, StopFibersDrain
<1>8. stop' \in [Gen -> {"none", "closing", "wake"}]
  BY <1>1 DEF TypeOK
<1>9. matched' \subseteq Gen /\ outOfBand' \in SUBSET (Gen \cup outOfBand)
  BY <1>1 DEF TypeOK
<1>10. wake' \in BOOLEAN /\ owed' \in BOOLEAN /\ loop' = loop
  OBVIOUS
<1>11. QED BY <1>4, <1>5, <1>6, <1>7, <1>8, <1>9, <1>10

\* A retry asked for by hand.
LEMMA RetryKeepsIInv ==
  ASSUME IInv, NEW i \in Retryable, Retry(i)
  PROVE  IInv'
<1> DEFINE g == live.currentByIdent[i]
<1>1. i \in Ident /\ g \in Gen /\ live.status[g] = "failed" /\ phase = "open"
      /\ phase' = phase /\ desired' = desired /\ RetireOutOfBand(g)
      /\ TypeOK
  BY ControllerAssumption DEF Retry, IInv, LiveInv, LiveState
<1>2. /\ supervisors' = [supervisors EXCEPT ![i] = NotStarted]
      /\ UNCHANGED <<phase, desired, start, cleanup, timer, seen>>
  BY DEF Retry
<1> HIDE DEF g
<1>3. /\ LiveInv(live)' /\ MatchCacheCoherent' /\ ClosingHasNoAuthority' /\ StopFibersDrain'
      /\ matched' \subseteq Gen /\ outOfBand' \in SUBSET (Gen \cup outOfBand)
      /\ closing' \in [Gen -> {"none", "pending", "done"}]
      /\ scope' \in [Gen -> {"none", "open", "closing", "closed"}]
      /\ stop' \in [Gen -> {"none", "closing", "wake"}]
      /\ wake' \in BOOLEAN /\ owed' \in BOOLEAN /\ loop' = loop
  BY <1>1, RetireOutOfBandKeeps
<1>4. TypeOK'
  BY <1>1, <1>2, <1>3, ControllerAssumption DEF TypeOK, NotStarted, LiveInv
<1>5. QED BY <1>3, <1>4 DEF IInv

\* A backoff that wakes, whether or not it still applies.
LEMMA TimerFiresKeepsIInv ==
  ASSUME IInv, NEW g \in Gen, TimerFires(g)
  PROVE  IInv'
<1>0. TypeOK
  BY DEF IInv
<1>1. CASE /\ phase = "open" /\ live.status[g] = "failed" /\ RetireOutOfBand(g)
  <2>1. /\ timer' = [timer EXCEPT ![g] = FALSE]
        /\ UNCHANGED <<phase, desired, start, cleanup, supervisors, seen>>
    BY DEF TimerFires
  <2>2. /\ LiveInv(live)' /\ MatchCacheCoherent' /\ ClosingHasNoAuthority' /\ StopFibersDrain'
        /\ matched' \subseteq Gen /\ outOfBand' \in SUBSET (Gen \cup outOfBand)
        /\ closing' \in [Gen -> {"none", "pending", "done"}]
        /\ scope' \in [Gen -> {"none", "open", "closing", "closed"}]
        /\ stop' \in [Gen -> {"none", "closing", "wake"}]
        /\ wake' \in BOOLEAN /\ owed' \in BOOLEAN /\ loop' = loop
    BY <1>1, <2>1, RetireOutOfBandKeeps
  <2>3. TypeOK'
    BY <1>0, <2>1, <2>2 DEF TypeOK, LiveInv
  <2>4. QED BY <2>2, <2>3 DEF IInv
<1>2. CASE UNCHANGED <<live, matched, outOfBand, scopes, stop, loops>>
  <2>1. /\ timer' = [timer EXCEPT ![g] = FALSE]
        /\ UNCHANGED <<phase, desired, start, cleanup, supervisors, seen>>
    BY DEF TimerFires
  <2>2. TypeOK'
    BY <1>0, <1>2, <2>1 DEF TypeOK, scopes, loops
  <2>3. LiveInv(live)' /\ MatchCacheCoherent' /\ ClosingHasNoAuthority' /\ StopFibersDrain'
    BY <1>2, <2>1 DEF IInv, LiveInv, MatchCacheCoherent, Wanted, ClosingHasNoAuthority,
                      StopFibersDrain, scopes
  <2>4. QED BY <2>2, <2>3 DEF IInv
<1>3. QED BY <1>1, <1>2 DEF TimerFires

-----------------------------------------------------------------------------
\* An action that touches neither the live state nor what the other parts of the
\* invariant read keeps all of them but the types.
LEMMA StutterKeeps ==
  ASSUME IInv, UNCHANGED <<phase, desired, matched, live, closing>>,
         \A g \in Gen : stop'[g] = "closing" => stop[g] = "closing"
  PROVE  LiveInv(live)' /\ MatchCacheCoherent' /\ ClosingHasNoAuthority' /\ StopFibersDrain'
BY DEF IInv, LiveInv, MatchCacheCoherent, Wanted, ClosingHasNoAuthority, StopFibersDrain

\* Shutdown retires everything, so nothing is left that could lack support.
LEMMA BeginShutdownKeepsIInv ==
  ASSUME IInv, BeginShutdown
  PROVE  IInv'
<1> USE DEF BeginShutdown, scopes, fibers, loops
<1> DEFINE A == Authority(live)
<1>0. TypeOK /\ LiveInv(live) /\ A \in SUBSET Authority(live) /\ A \subseteq Gen
  BY DEF IInv, Authority
<1>1. /\ Authority(retire(live, A)) = {}
      /\ Obsolete(retire(live, A)) = Obsolete(live) \cup A
      /\ retire(live, A) \in LiveState
      /\ IndexesConsistent(retire(live, A))
      /\ SlotsExclusive(retire(live, A))
  BY <1>0, RetireSets, RetireType, RetireKeepsIndexes, RetireKeepsExclusion DEF LiveInv
<1>2. live' = retire(live, A)
  OBVIOUS
<1> HIDE DEF A
<1>3. LiveInv(live)' /\ ClosingHasNoAuthority' /\ MatchCacheCoherent'
  BY <1>1, <1>2 DEF LiveInv, AuthoritySupported, ClosingHasNoAuthority, MatchCacheCoherent
<1>4. StopFibersDrain'
  BY <1>1, <1>2 DEF IInv, StopFibersDrain
<1>5. supervisors' \in [Ident -> 0..MaxRestarts + 1]
  BY <1>0, ControllerAssumption DEF TypeOK, NotStarted
<1>6. TypeOK'
  BY <1>0, <1>1, <1>2, <1>5 DEF TypeOK
<1>7. QED BY <1>3, <1>4, <1>6 DEF IInv

\* Forgetting what is left once every Scope has closed.
LEMMA ShutdownForgetsKeepsIInv ==
  ASSUME IInv, ShutdownForgets
  PROVE  IInv'
<1> USE DEF ShutdownForgets, loops
<1> DEFINE F == forget(live, All(live))
<1>0. TypeOK /\ LiveInv(live) /\ Authority(live) = {} /\ All(live) \in SUBSET Gen
  BY DEF IInv, ClosingHasNoAuthority, All
<1>1. /\ F \in LiveState
      /\ Authority(F) = {} /\ Obsolete(F) = Obsolete(live) \ All(live)
      /\ IndexesConsistent(F)
      /\ SlotsExclusive(F)
  BY <1>0, ForgetKeeps DEF LiveInv
<1>2. live' = F
  OBVIOUS
<1> HIDE DEF F
<1>3. LiveInv(live)' /\ ClosingHasNoAuthority'
  BY <1>1, <1>2 DEF LiveInv, AuthoritySupported, ClosingHasNoAuthority
<1>4. MatchCacheCoherent'
  BY <1>0 DEF IInv, MatchCacheCoherent
<1>5. StopFibersDrain'
  BY DEF StopFibersDrain
<1>6. TypeOK'
  BY <1>0, <1>1, <1>2 DEF TypeOK
<1>7. QED BY <1>3, <1>4, <1>5, <1>6 DEF IInv

\* Signalling changes only what has been signalled: a pass of a controller that
\* is closed, and the last step of shutdown.
LEMMA SignalKeeps ==
  ASSUME IInv, live' = [live EXCEPT !.moved = FALSE],
         UNCHANGED <<desired, matched, scopes, stop>>,
         phase # "open"
  PROVE  LiveInv(live)' /\ MatchCacheCoherent' /\ ClosingHasNoAuthority' /\ StopFibersDrain'
<1>0. LiveInv(live) /\ live \in LiveState
  BY DEF IInv, LiveInv
<1>1. /\ live' \in LiveState
      /\ Authority(live') = Authority(live) /\ Obsolete(live') = Obsolete(live)
      /\ IndexesConsistent(live') /\ AuthoritySupported(live') /\ SlotsExclusive(live')
  BY <1>0, MovedKeeps DEF LiveInv
<1>2. QED
  BY <1>1 DEF IInv, LiveInv, MatchCacheCoherent, Wanted, ClosingHasNoAuthority,
              StopFibersDrain, scopes

LEMMA ShutdownSignalsKeepsIInv ==
  ASSUME IInv, ShutdownSignals
  PROVE  IInv'
<1> USE DEF ShutdownSignals, fibers, loops
<1>1. LiveInv(live)' /\ MatchCacheCoherent' /\ ClosingHasNoAuthority' /\ StopFibersDrain'
  BY SignalKeeps
<1>2. TypeOK'
  BY <1>1 DEF IInv, TypeOK, LiveInv, scopes
<1>3. QED BY <1>1, <1>2 DEF IInv

LEMMA ClosedPassKeepsIInv ==
  ASSUME IInv, ClosedPass
  PROVE  IInv'
<1> USE DEF ClosedPass, fibers
<1>1. LiveInv(live)' /\ MatchCacheCoherent' /\ ClosingHasNoAuthority' /\ StopFibersDrain'
  BY SignalKeeps
<1>2. TypeOK'
  BY <1>1 DEF IInv, TypeOK, LiveInv, scopes
<1>3. QED BY <1>1, <1>2 DEF IInv

-----------------------------------------------------------------------------
\* The fibers that only move themselves, or ask for a pass.
LEMMA StartExitsKeepsIInv ==
  ASSUME IInv, NEW g \in Gen, NEW exit \in {"succeeded", "failed"}, StartExits(g, exit)
  PROVE  IInv'
<1> USE DEF StartExits, scopes, loops
<1>1. LiveInv(live)' /\ MatchCacheCoherent' /\ ClosingHasNoAuthority' /\ StopFibersDrain'
  BY StutterKeeps
<1>2. TypeOK'
  BY DEF IInv, TypeOK
<1>3. QED BY <1>1, <1>2 DEF IInv

LEMMA CleanupWakesKeepsIInv ==
  ASSUME IInv, NEW g \in Gen, CleanupWakes(g)
  PROVE  IInv'
<1> USE DEF CleanupWakes, scopes, wakeUp
<1>1. LiveInv(live)' /\ MatchCacheCoherent' /\ ClosingHasNoAuthority' /\ StopFibersDrain'
  BY StutterKeeps
<1>2. TypeOK'
  BY DEF IInv, TypeOK
<1>3. QED BY <1>1, <1>2 DEF IInv

LEMMA StopWakesKeepsIInv ==
  ASSUME IInv, NEW g \in Gen, StopWakes(g)
  PROVE  IInv'
<1> USE DEF StopWakes, scopes, wakeUp
<1>0. TypeOK /\ stop' \in [Gen -> {"none", "closing", "wake"}]
      /\ \A h \in Gen : stop'[h] = "closing" => stop[h] = "closing"
  BY DEF IInv, TypeOK
<1>1. LiveInv(live)' /\ MatchCacheCoherent' /\ ClosingHasNoAuthority' /\ StopFibersDrain'
  BY <1>0, StutterKeeps
<1>2. TypeOK'
  BY <1>0 DEF TypeOK
<1>3. QED BY <1>1, <1>2 DEF IInv

LEMMA LoopWakesKeepsIInv ==
  ASSUME IInv, LoopWakes
  PROVE  IInv'
<1> USE DEF LoopWakes, scopes, fibers
<1>1. LiveInv(live)' /\ MatchCacheCoherent' /\ ClosingHasNoAuthority' /\ StopFibersDrain'
  BY StutterKeeps
<1>2. TypeOK'
  BY DEF IInv, TypeOK
<1>3. QED BY <1>1, <1>2 DEF IInv

LEMMA LoopInterruptedKeepsIInv ==
  ASSUME IInv, LoopInterrupted
  PROVE  IInv'
<1> USE DEF LoopInterrupted, scopes, fibers
<1>1. LiveInv(live)' /\ MatchCacheCoherent' /\ ClosingHasNoAuthority' /\ StopFibersDrain'
  BY StutterKeeps
<1>2. TypeOK'
  BY DEF IInv, TypeOK
<1>3. QED BY <1>1, <1>2 DEF IInv

LEMMA OwnerClosesChildKeepsIInv ==
  ASSUME IInv, NEW g \in Gen, OwnerClosesChild(g)
  PROVE  IInv'
<1> USE DEF OwnerClosesChild, loops, fibers
<1>1. LiveInv(live)' /\ MatchCacheCoherent' /\ ClosingHasNoAuthority' /\ StopFibersDrain'
  BY StutterKeeps
<1>2. TypeOK'
  BY DEF IInv, TypeOK
<1>3. QED BY <1>1, <1>2 DEF IInv

\* The last finalizer completes a deferred that was pending.
LEMMA FinalizersRunKeepsIInv ==
  ASSUME IInv, NEW g \in Gen, FinalizersRun(g)
  PROVE  IInv'
<1> USE DEF FinalizersRun, loops, fibers
<1>0. TypeOK /\ closing' \in [Gen -> {"none", "pending", "done"}]
      /\ \A h \in Gen : closing[h] # "none" => closing'[h] # "none"
  BY DEF IInv, TypeOK
<1>1. StopFibersDrain'
  BY <1>0 DEF IInv, StopFibersDrain
<1>2. LiveInv(live)' /\ MatchCacheCoherent' /\ ClosingHasNoAuthority'
  BY DEF IInv, LiveInv, MatchCacheCoherent, Wanted, ClosingHasNoAuthority
<1>3. TypeOK'
  BY <1>0 DEF TypeOK
<1>4. QED BY <1>1, <1>2, <1>3 DEF IInv

-----------------------------------------------------------------------------
\* The transition a completion decides moves no authority.
LEMMA CompletionKeeps ==
  ASSUME IInv, NEW g \in Gen, live.status[g] = "starting", NEW st \in {"running", "failed"},
         live' = concludeStartup(live, g, st),
         UNCHANGED <<phase, desired, matched, stop>>,
         \A h \in Gen : closing[h] # "none" => closing'[h] # "none"
  PROVE  LiveInv(live)' /\ MatchCacheCoherent' /\ ClosingHasNoAuthority' /\ StopFibersDrain'
<1>0. LiveInv(live) /\ live \in LiveState
  BY DEF IInv, LiveInv
<1>1. /\ live' \in LiveState
      /\ Authority(live') = Authority(live) /\ Obsolete(live') = Obsolete(live)
      /\ IndexesConsistent(live') /\ AuthoritySupported(live') /\ SlotsExclusive(live')
  BY <1>0, ConcludeKeeps DEF LiveInv
<1>2. QED
  BY <1>1 DEF IInv, LiveInv, MatchCacheCoherent, Wanted, ClosingHasNoAuthority,
              StopFibersDrain

LEMMA StartupSucceedsKeeps ==
  ASSUME IInv, NEW g \in Gen, StartupSucceeds(g), UNCHANGED <<phase, desired, matched, stop>>
  PROVE  /\ LiveInv(live)' /\ MatchCacheCoherent' /\ ClosingHasNoAuthority' /\ StopFibersDrain'
         /\ supervisors' \in [Ident -> 0..MaxRestarts + 1]
<1> USE DEF StartupSucceeds
<1>1. LiveInv(live)' /\ MatchCacheCoherent' /\ ClosingHasNoAuthority' /\ StopFibersDrain'
  BY CompletionKeeps DEF scopes
<1>2. supervisors' \in [Ident -> 0..MaxRestarts + 1]
  BY ControllerAssumption, GenSorts DEF IInv, TypeOK, NotStarted
<1>3. QED BY <1>1, <1>2

\* A failed startup's close claims its Scope, and its backoff counts one attempt.
LEMMA StartupFailsKeeps ==
  ASSUME IInv, NEW g \in Gen, StartupFails(g), UNCHANGED <<phase, desired, matched, stop>>
  PROVE  /\ LiveInv(live)' /\ MatchCacheCoherent' /\ ClosingHasNoAuthority' /\ StopFibersDrain'
         /\ supervisors' \in [Ident -> 0..MaxRestarts + 1]
         /\ timer' \in [Gen -> BOOLEAN] /\ cleanup' \in [Gen -> BOOLEAN]
         /\ closing' \in [Gen -> {"none", "pending", "done"}]
         /\ scope' \in [Gen -> {"none", "open", "closing", "closed"}]
<1> USE DEF StartupFails, closeInstance
<1>0. TypeOK /\ {g} \in SUBSET Gen
  BY DEF IInv
<1>1. /\ closing' \in [Gen -> {"none", "pending", "done"}]
      /\ scope' \in [Gen -> {"none", "open", "closing", "closed"}]
      /\ \A h \in Gen : closing[h] # "none" => closing'[h] # "none"
  BY <1>0, CloseTypes
<1>2. LiveInv(live)' /\ MatchCacheCoherent' /\ ClosingHasNoAuthority' /\ StopFibersDrain'
  BY <1>1, CompletionKeeps
<1>3. supervisors' \in [Ident -> 0..MaxRestarts + 1] /\ timer' \in [Gen -> BOOLEAN]
  <2> DEFINE i == IdentOf(g)
             attempt == IF supervisors[i] > MaxRestarts THEN supervisors[i]
                                                        ELSE supervisors[i] + 1
  <2>1. i \in Ident /\ supervisors \in [Ident -> 0..MaxRestarts + 1]
        /\ timer \in [Gen -> BOOLEAN] /\ MaxRestarts \in Nat
    BY <1>0, GenSorts, ControllerAssumption DEF TypeOK
  <2>2. attempt \in 0..MaxRestarts + 1
    BY <2>1
  <2>3. \/ /\ supervisors' = [supervisors EXCEPT ![i] = attempt]
           /\ timer' = [timer EXCEPT ![g] = attempt <= MaxRestarts]
        \/ UNCHANGED <<supervisors, timer>>
    BY DEF superviseFailure
  <2>4. supervisors' \in [Ident -> 0..MaxRestarts + 1]
    <3> HIDE DEF i, attempt
    <3>1. QED BY <2>1, <2>2, <2>3
  <2>5. (attempt <= MaxRestarts) \in BOOLEAN
    BY <2>2
  <2>6. timer' \in [Gen -> BOOLEAN]
    <3> DEFINE b == attempt <= MaxRestarts
    <3>1. b \in BOOLEAN
      BY <2>5
    <3>2. timer' = [timer EXCEPT ![g] = b] \/ timer' = timer
      BY <2>3
    <3> HIDE DEF b
    <3>3. QED BY <2>1, <3>1, <3>2
  <2>7. QED BY <2>4, <2>6
<1>4. cleanup' \in [Gen -> BOOLEAN]
  BY <1>0 DEF TypeOK
<1>5. QED BY <1>1, <1>2, <1>3, <1>4

LEMMA OnStartupDoneKeepsIInv ==
  ASSUME IInv, NEW g \in Gen, OnStartupDone(g)
  PROVE  IInv'
<1>0. /\ start' = [start EXCEPT ![g] = "none"]
      /\ UNCHANGED <<phase, desired, matched, stop, seen, outOfBand>>
      /\ TypeOK
  BY DEF OnStartupDone, IInv
<1>1. CASE StartupIsLate(g) \/ StartupIsSuperseded(g)
  <2>0. UNCHANGED <<live, scope, closing, cleanup, timer, supervisors>>
        /\ (UNCHANGED <<loop, wake, owed>> \/ (owed' = TRUE /\ wake' = TRUE /\ UNCHANGED loop))
    BY <1>1 DEF StartupIsLate, StartupIsSuperseded, scopes, loops, wakeUp
  <2>1. LiveInv(live)' /\ MatchCacheCoherent' /\ ClosingHasNoAuthority' /\ StopFibersDrain'
    BY <1>0, <2>0, StutterKeeps
  <2>2. TypeOK'
    BY <1>0, <2>0 DEF TypeOK
  <2>3. QED BY <2>1, <2>2 DEF IInv
<1>2. CASE StartupSucceeds(g)
  <2>0. UNCHANGED <<scope, closing, cleanup, timer, loop>> /\ owed' = TRUE /\ wake' = TRUE
    BY <1>2 DEF StartupSucceeds, scopes, wakeUp
  <2>1. /\ LiveInv(live)' /\ MatchCacheCoherent' /\ ClosingHasNoAuthority' /\ StopFibersDrain'
        /\ supervisors' \in [Ident -> 0..MaxRestarts + 1]
    BY <1>0, <1>2, StartupSucceedsKeeps
  <2>2. TypeOK'
    BY <1>0, <2>0, <2>1 DEF TypeOK, LiveInv
  <2>3. QED BY <2>1, <2>2 DEF IInv
<1>3. CASE StartupFails(g)
  <2>0. UNCHANGED loop /\ owed' = TRUE /\ wake' = TRUE
    BY <1>3 DEF StartupFails, wakeUp
  <2>1. /\ LiveInv(live)' /\ MatchCacheCoherent' /\ ClosingHasNoAuthority' /\ StopFibersDrain'
        /\ supervisors' \in [Ident -> 0..MaxRestarts + 1]
        /\ timer' \in [Gen -> BOOLEAN] /\ cleanup' \in [Gen -> BOOLEAN]
        /\ closing' \in [Gen -> {"none", "pending", "done"}]
        /\ scope' \in [Gen -> {"none", "open", "closing", "closed"}]
    BY <1>0, <1>3, StartupFailsKeeps
  <2>2. TypeOK'
    BY <1>0, <2>0, <2>1 DEF TypeOK, LiveInv
  <2>3. QED BY <2>1, <2>2 DEF IInv
<1>4. QED BY <1>1, <1>2, <1>3 DEF OnStartupDone

\* A stop fiber forgets only what drains, and no other stop fiber's generation.
LEMMA StopForgetsKeepsIInv ==
  ASSUME IInv, NEW g \in Gen, StopForgets(g)
  PROVE  IInv'
<1> DEFINE gone == ownedSubtree(g)
           F == forget(live, gone)
<1>0. /\ TypeOK /\ LiveInv(live) /\ live \in LiveState
      /\ g \in Obsolete(live)
      /\ MatchCacheCoherent /\ ClosingHasNoAuthority
  BY DEF IInv, StopForgets, StopFibersDrain, LiveInv
<1>1. gone \subseteq Obsolete(live) /\ \A h \in gone : h = g \/ closing[h] = "none"
  BY <1>0, OwnedSubtreeDrains
<1>2. gone \in SUBSET Gen /\ gone \in SUBSET Obsolete(live)
      /\ Authority(live) \ gone = Authority(live)
  BY <1>1 DEF Obsolete, Authority
<1>3. /\ live' = F
      /\ scope' = [h \in Gen |-> IF h \in gone THEN "none" ELSE scope[h]]
      /\ closing' = [h \in Gen |-> IF h \in gone THEN "none" ELSE closing[h]]
      /\ seen' = [h \in Gen |-> IF h \in gone THEN NoProjection ELSE seen[h]]
      /\ stop' = [stop EXCEPT ![g] = "wake"]
      /\ UNCHANGED <<phase, desired, matched, start, cleanup, timer, supervisors,
                     outOfBand, loop, wake, owed>>
  BY DEF StopForgets, loops
<1> HIDE DEF gone
<1>4. /\ F \in LiveState
      /\ Authority(F) = Authority(live) /\ Obsolete(F) = Obsolete(live) \ gone
      /\ IndexesConsistent(F)
      /\ SlotsExclusive(F)
      /\ AuthoritySupported(F)
  BY <1>0, <1>2, ForgetKeeps, ForgetKeepsSupport DEF LiveInv
<1> HIDE DEF F
<1>5. LiveInv(live)' /\ MatchCacheCoherent' /\ ClosingHasNoAuthority'
  BY <1>0, <1>3, <1>4 DEF LiveInv, MatchCacheCoherent, ClosingHasNoAuthority, Wanted
<1>6. StopFibersDrain'
  <2> SUFFICES ASSUME NEW h \in Gen, stop'[h] = "closing"
               PROVE  h \in Obsolete(live)' /\ closing'[h] # "none"
    BY DEF StopFibersDrain
  <2>1. h # g /\ stop[h] = "closing"
    BY <1>0, <1>3 DEF TypeOK
  <2>2. h \in Obsolete(live) /\ closing[h] # "none"
    BY <2>1 DEF IInv, StopFibersDrain
  <2>3. h \notin gone
    BY <1>1, <2>1, <2>2
  <2>4. QED BY <1>3, <1>4, <2>2, <2>3
<1>7. TypeOK'
  BY <1>0, <1>3, <1>4 DEF TypeOK
<1>8. QED BY <1>5, <1>6, <1>7 DEF IInv

-----------------------------------------------------------------------------
\* Every generation a pass keeps is still desired: what is not was withdrawn.
LEMMA KeptIsDesired ==
  ASSUME IInv, NEW g \in Authority(live) \ invalidate
  PROVE  g \in Gen /\ IdentOf(g) \in Wanted
<1>1. g \in Gen
  BY DEF Authority
<1>2. g \notin Withdrawn
  BY InvalidateIsClosed
<1>3. QED BY <1>1, <1>2 DEF Withdrawn, IInv, MatchCacheCoherent

\* Phase A leaves a live state that is in order.
LEMMA DrainedIsInOrder ==
  ASSUME IInv
  PROVE  LET drained == retire(live, invalidate)
         IN /\ LiveInv(drained)
            /\ Authority(drained) = Authority(live) \ invalidate
            /\ Obsolete(drained) = Obsolete(live) \cup invalidate
            /\ \A g \in Gen : live.status[g] = "none" => drained.status[g] = "none"
<1>0. LiveInv(live) /\ live \in LiveState
      /\ invalidate \in SUBSET Authority(live) /\ invalidate \in SUBSET Gen
  BY InvalidateIsClosed DEF IInv, LiveInv, Authority
<1>1. /\ Authority(retire(live, invalidate)) = Authority(live) \ invalidate
      /\ Obsolete(retire(live, invalidate)) = Obsolete(live) \cup invalidate
      /\ All(retire(live, invalidate)) = All(live)
  BY <1>0, RetireSets
<1>2. /\ retire(live, invalidate) \in LiveState
      /\ IndexesConsistent(retire(live, invalidate))
      /\ AuthoritySupported(retire(live, invalidate))
      /\ SlotsExclusive(retire(live, invalidate))
  BY <1>0, RetireType, RetireKeepsIndexes, RetireKeepsSupport, RetireKeepsExclusion,
     InvalidateIsClosed DEF LiveInv
<1>3. \A g \in Gen : live.status[g] = "none" => retire(live, invalidate).status[g] = "none"
  BY <1>1 DEF All
<1>4. QED BY <1>1, <1>2, <1>3 DEF LiveInv

\* What Phase B admits has a place to stand: its owner and its providers are
\* Running, its slot is free, and a sequential slot has drained.
LEMMA AdmissionsStand ==
  ASSUME IInv, NEW L, LiveInv(L), NEW kept, NEW i \in admissions(L, kept)
  PROVE  /\ i \in Wanted /\ i \in Ident
         /\ L.current[SlotIdent(i)] = NoGen
         /\ FamilyOf(i) \in Overlap \/ L.retiring[SlotIdent(i)] = {}
         /\ CurrentOwner(L, i) \in Gen \cup {NoGen}
         /\ IF IsRoot(i) THEN CurrentOwner(L, i) = NoGen
            ELSE /\ CurrentOwner(L, i) # NoGen
                 /\ IdentOf(CurrentOwner(L, i)) = Parent(i)
                 /\ L.status[CurrentOwner(L, i)] = "running"
         /\ CurrentProviders(L, i) \subseteq Gen
         /\ \A h \in CurrentProviders(L, i) : L.status[h] = "running"
<1>1. i \in Wanted /\ admissible(L, i) /\ L \in LiveState
  BY DEF admissions, LiveInv
<1>2. Coherent(Wanted)
  BY DesiredIsCoherent DEF IInv, TypeOK
<1>3. Wanted \subseteq Ident /\ (IsRoot(i) \/ Parent(i) \in Ident)
  BY <1>1, <1>2 DEF Coherent
<1>4. /\ L.current[SlotIdent(i)] = NoGen
      /\ FamilyOf(i) \in Overlap \/ L.retiring[SlotIdent(i)] = {}
      /\ IsRoot(i) \/ /\ CurrentOwner(L, i) # NoGen
                      /\ L.status[CurrentOwner(L, i)] = "running"
      /\ \A p \in Requires[FamilyOf(i)] :
           \A h \in resolveProvider(L, i, p) : L.status[h] = "running"
  BY <1>1 DEF admissible
<1>5. CurrentOwner(L, i) \in Gen \cup {NoGen}
  BY <1>1, <1>3 DEF CurrentOwner, LiveState
<1>6. IsRoot(i) => CurrentOwner(L, i) = NoGen
  BY DEF CurrentOwner
<1>7. ASSUME ~IsRoot(i)
      PROVE  IdentOf(CurrentOwner(L, i)) = Parent(i)
  <2>1. L.currentByIdent[Parent(i)] = CurrentOwner(L, i) /\ Parent(i) \in Ident
        /\ CurrentOwner(L, i) \in Gen
    BY <1>3, <1>4, <1>5, <1>7 DEF CurrentOwner
  <2>2. QED BY <2>1 DEF LiveInv, IndexesConsistent, IdentIndexAgrees
<1>8. ASSUME NEW p \in Requires[FamilyOf(i)] PROVE resolveProvider(L, i, p) \subseteq Gen
  <2>1. Candidates(Wanted, i, p) \subseteq Ident
    BY <1>3 DEF Candidates
  <2>2. QED BY <1>1, <2>1 DEF resolveProvider, LiveState
<1>9. /\ CurrentProviders(L, i) \subseteq Gen
      /\ \A h \in CurrentProviders(L, i) : L.status[h] = "running"
  BY <1>4, <1>8 DEF CurrentProviders
<1>10. IF IsRoot(i) THEN CurrentOwner(L, i) = NoGen
       ELSE /\ CurrentOwner(L, i) # NoGen
            /\ IdentOf(CurrentOwner(L, i)) = Parent(i)
            /\ L.status[CurrentOwner(L, i)] = "running"
  BY <1>4, <1>6, <1>7
<1>11. QED BY <1>1, <1>3, <1>4, <1>5, <1>9, <1>10

\* What Phase B hands to track is what track asks for.
LEMMA AdmissionsAreAdmitted ==
  ASSUME IInv, NEW L, LiveInv(L), NEW kept, NEW A, A = admissions(L, kept), NEW admit,
         admit \in [A -> Gen],
         \A i \in A : IdentOf(admit[i]) = i /\ L.status[admit[i]] = "none",
         NEW owner, owner = [i \in A |-> CurrentOwner(L, i)],
         NEW providers, providers = [i \in A |-> CurrentProviders(L, i)]
  PROVE  Admits(L, A, admit, owner, providers)
<1>1. Coherent(Wanted)
  BY DesiredIsCoherent DEF IInv, TypeOK
<1>2. \A i \in A : /\ i \in Wanted /\ i \in Ident
                   /\ L.current[SlotIdent(i)] = NoGen
                   /\ owner[i] \in Gen \cup {NoGen}
                   /\ providers[i] \subseteq Gen
  BY AdmissionsStand
<1>3. A \subseteq Ident
  BY <1>2
<1>4. owner \in [A -> Gen \cup {NoGen}] /\ providers \in [A -> SUBSET Gen]
  BY <1>2
<1>5. \A i, j \in A : SlotIdent(i) = SlotIdent(j) => i = j
  BY <1>1, <1>2 DEF Coherent
<1>6. QED BY <1>2, <1>3, <1>4, <1>5 DEF Admits

\* Phase B keeps the live state in order, and authority is what was kept and
\* what was admitted.
LEMMA AdmittingKeeps ==
  ASSUME IInv, NEW L, LiveInv(L), NEW kept, NEW A, A = admissions(L, kept), NEW admit,
         admit \in [A -> Gen],
         \A i \in A : IdentOf(admit[i]) = i /\ L.status[admit[i]] = "none",
         NEW owner, owner = [i \in A |-> CurrentOwner(L, i)],
         NEW providers, providers = [i \in A |-> CurrentProviders(L, i)]
  PROVE  /\ LiveInv(track(L, admit, owner, providers))
         /\ Authority(track(L, admit, owner, providers)) = Authority(L) \cup Fresh(A, admit)
         /\ Obsolete(track(L, admit, owner, providers)) = Obsolete(L)
         /\ \A g \in Fresh(A, admit) : g \in Gen /\ IdentOf(g) \in Wanted
<1>1. L \in LiveState /\ IndexesConsistent(L) /\ AuthoritySupported(L) /\ SlotsExclusive(L)
  BY DEF LiveInv
<1>3. \A i \in A : i \in Wanted
  BY AdmissionsStand
<1>4. Admits(L, A, admit, owner, providers)
  BY AdmissionsAreAdmitted
<1>5. /\ track(L, admit, owner, providers) \in LiveState
      /\ Authority(track(L, admit, owner, providers)) = Authority(L) \cup Fresh(A, admit)
      /\ Obsolete(track(L, admit, owner, providers)) = Obsolete(L)
  BY <1>1, <1>4, TrackSets
<1>6. IndexesConsistent(track(L, admit, owner, providers))
  BY <1>1, <1>4, TrackKeepsIndexes
<1>7. AuthoritySupported(track(L, admit, owner, providers))
  <2>1. \A i \in A : IF IsRoot(i) THEN owner[i] = NoGen
                     ELSE /\ owner[i] # NoGen
                          /\ IdentOf(owner[i]) = Parent(i)
                          /\ L.status[owner[i]] = "running"
    BY AdmissionsStand
  <2>2. \A i \in A : \A h \in providers[i] : L.status[h] = "running"
    BY AdmissionsStand
  <2>3. QED BY <1>1, <1>4, <2>1, <2>2, TrackKeepsSupport
<1>8. SlotsExclusive(track(L, admit, owner, providers))
  <2>1. \A i \in A : FamilyOf(i) \in Overlap \/ L.retiring[SlotIdent(i)] = {}
    BY AdmissionsStand
  <2>2. QED BY <1>1, <1>4, <2>1, TrackKeepsExclusion
<1>9. \A g \in Fresh(A, admit) : g \in Gen /\ IdentOf(g) \in Wanted
  BY <1>1, <1>3, <1>4, FreshIsNamed
<1>10. QED BY <1>5, <1>6, <1>7, <1>8, <1>9 DEF LiveInv

\* One pass: Phase A, Phase B, and the accounts it settles.
LEMMA ReconcilePassKeepsIInv ==
  ASSUME IInv, ReconcilePass
  PROVE  IInv'
<1> DEFINE retired == invalidate
           drained == retire(live, retired)
           kept == Authority(live) \ retired
           A == admissions(drained, kept)
           admit == [i \in A |-> CHOOSE g \in Gen : Unused(g) /\ IdentOf(g) = i]
           owner == [i \in A |-> CurrentOwner(drained, i)]
           providers == [i \in A |-> CurrentProviders(drained, i)]
           M == track(drained, admit, owner, providers)
           fresh == Fresh(A, admit)
           own == ownStops(retired)
<1>1. TypeOK /\ LiveInv(live)
  BY DEF IInv
<1>2. /\ phase = "open"
      /\ \A i \in A : \E g \in Gen : Unused(g) /\ IdentOf(g) = i
      /\ live' = [M EXCEPT !.moved = FALSE]
      /\ matched' = kept \cup fresh
      /\ closing' = closingAfter(own)
      /\ scope' = [g \in Gen |-> IF g \in fresh THEN "open" ELSE scopeAfter(own)[g]]
      /\ stop' = [g \in Gen |-> IF g \in own THEN "closing" ELSE stop[g]]
      /\ start' = [g \in Gen |-> IF g \in fresh THEN "running" ELSE start[g]]
      /\ seen' = [g \in Gen |-> IF g \in kept \cup fresh THEN desired[IdentOf(g)]
                                ELSE seen[g]]
      /\ supervisors' = [i \in Ident |->
           IF \E g \in retired : IdentOf(g) = i THEN NotStarted ELSE supervisors[i]]
      /\ outOfBand' = {} /\ loop' = "waiting" /\ owed' = FALSE
      /\ UNCHANGED <<phase, desired, cleanup, timer, wake>>
  BY DEF ReconcilePass, Fresh
<1>3. own \subseteq retired /\ retired \subseteq Authority(live) /\ Authority(live) \subseteq Gen
      /\ own \in SUBSET Gen
  BY InvalidateIsClosed DEF ownStops, Authority
<1>4. /\ LiveInv(drained)
      /\ Authority(drained) = kept
      /\ Obsolete(drained) = Obsolete(live) \cup retired
      /\ \A g \in Gen : live.status[g] = "none" => drained.status[g] = "none"
  BY DrainedIsInOrder
<1>5. \A g \in kept : g \in Gen /\ IdentOf(g) \in Wanted
  BY KeptIsDesired
<1> HIDE DEF retired, drained, kept, own
<1>6. /\ admit \in [A -> Gen]
      /\ \A i \in A : IdentOf(admit[i]) = i /\ drained.status[admit[i]] = "none"
  <2>1. ASSUME NEW i \in A
        PROVE  /\ admit[i] \in Gen /\ IdentOf(admit[i]) = i
               /\ drained.status[admit[i]] = "none"
    <3>1. \E g \in Gen : Unused(g) /\ IdentOf(g) = i
      BY <1>2
    <3>2. admit[i] \in Gen /\ Unused(admit[i]) /\ IdentOf(admit[i]) = i
      BY <3>1
    <3>3. QED BY <3>2, <1>4 DEF Unused
  <2>2. QED BY <2>1
<1>7. /\ LiveInv(M)
      /\ Authority(M) = kept \cup fresh
      /\ Obsolete(M) = Obsolete(live) \cup retired
      /\ \A g \in fresh : g \in Gen /\ IdentOf(g) \in Wanted
  <2> HIDE DEF admit
  <2>1. QED BY <1>4, <1>6, AdmittingKeeps
<1> HIDE DEF A, admit, owner, providers, M, fresh
<1>8. /\ live' \in LiveState
      /\ Authority(live') = kept \cup fresh
      /\ Obsolete(live') = Obsolete(live) \cup retired
      /\ IndexesConsistent(live') /\ AuthoritySupported(live') /\ SlotsExclusive(live')
  BY <1>2, <1>7, MovedKeeps DEF LiveInv
<1>9. LiveInv(live)' /\ ClosingHasNoAuthority'
  BY <1>2, <1>8 DEF LiveInv, ClosingHasNoAuthority
<1>10. MatchCacheCoherent'
  BY <1>2, <1>5, <1>7, <1>8 DEF MatchCacheCoherent, Wanted
<1>11. /\ closingAfter(own) \in [Gen -> {"none", "pending", "done"}]
       /\ scopeAfter(own) \in [Gen -> {"none", "open", "closing", "closed"}]
       /\ \A g \in own : closingAfter(own)[g] # "none"
       /\ \A g \in Gen : closing[g] # "none" => closingAfter(own)[g] # "none"
  BY <1>1, <1>3, CloseTypes
<1>12. StopFibersDrain'
  <2> SUFFICES ASSUME NEW g \in Gen, stop'[g] = "closing"
               PROVE  g \in Obsolete(live)' /\ closing'[g] # "none"
    BY DEF StopFibersDrain
  <2>1. CASE g \in own
    BY <2>1, <1>2, <1>3, <1>8, <1>11
  <2>2. CASE g \notin own
    <3>1. stop[g] = "closing"
      BY <2>2, <1>2
    <3>2. g \in Obsolete(live) /\ closing[g] # "none"
      BY <3>1 DEF IInv, StopFibersDrain
    <3>3. QED BY <3>2, <1>2, <1>8, <1>11
  <2>3. QED BY <2>1, <2>2
<1>13. TypeOK'
  <2>1. seen' \in [Gen -> Projection \cup {NoProjection}]
    <3>1. \A i \in Wanted : desired[i] \in Projection \cup {NoProjection}
      BY <1>1, DesiredIsCoherent DEF TypeOK
    <3>2. QED BY <1>1, <1>2, <1>5, <1>7, <3>1 DEF TypeOK
  <2>2. supervisors' \in [Ident -> 0..MaxRestarts + 1]
    BY <1>1, <1>2, ControllerAssumption DEF TypeOK, NotStarted
  <2>3. /\ scope' \in [Gen -> {"none", "open", "closing", "closed"}]
        /\ stop' \in [Gen -> {"none", "closing", "wake"}]
        /\ start' \in [Gen -> {"none", "running", "succeeded", "failed"}]
        /\ closing' \in [Gen -> {"none", "pending", "done"}]
    BY <1>1, <1>2, <1>11 DEF TypeOK
  <2>4. matched' \subseteq Gen
    BY <1>2, <1>5, <1>7
  <2>5. QED BY <1>1, <1>2, <1>8, <2>1, <2>2, <2>3, <2>4 DEF TypeOK
<1>14. QED BY <1>9, <1>10, <1>12, <1>13 DEF IInv

-----------------------------------------------------------------------------
\* A step in which nothing changes.
LEMMA StutteringKeepsIInv ==
  ASSUME IInv, UNCHANGED vars
  PROVE  IInv'
<1> USE DEF vars, scopes, fibers, loops
<1>1. LiveInv(live)' /\ MatchCacheCoherent' /\ ClosingHasNoAuthority' /\ StopFibersDrain'
  BY StutterKeeps
<1>2. TypeOK'
  BY DEF IInv, TypeOK
<1>3. QED BY <1>1, <1>2 DEF IInv

\* Every step keeps the invariant.
LEMMA NextKeepsIInv ==
  ASSUME IInv, [Next]_vars
  PROVE  IInv'
<1>1. CASE UNCHANGED vars \/ Terminated
  BY <1>1, StutteringKeepsIInv DEF Terminated
<1>2. CASE Application
  BY <1>2, CommitKeepsIInv, RetryKeepsIInv, BeginShutdownKeepsIInv DEF Application
<1>3. CASE Startup
  BY <1>3, StartExitsKeepsIInv DEF Startup
<1>4. CASE Runtime
  <2>1. CASE \E g \in Gen : OnStartupDone(g) \/ CleanupWakes(g) \/ TimerFires(g)
    BY <2>1, OnStartupDoneKeepsIInv, CleanupWakesKeepsIInv, TimerFiresKeepsIInv
  <2>2. CASE \E g \in Gen : \/ OwnerClosesChild(g) \/ FinalizersRun(g)
                             \/ StopForgets(g) \/ StopWakes(g)
    BY <2>2, OwnerClosesChildKeepsIInv, FinalizersRunKeepsIInv, StopForgetsKeepsIInv,
       StopWakesKeepsIInv
  <2>3. CASE LoopWakes \/ ReconcilePass \/ ClosedPass \/ LoopInterrupted
    BY <2>3, LoopWakesKeepsIInv, ReconcilePassKeepsIInv, ClosedPassKeepsIInv,
       LoopInterruptedKeepsIInv
  <2>4. CASE ShutdownForgets \/ ShutdownSignals
    BY <2>4, ShutdownForgetsKeepsIInv, ShutdownSignalsKeepsIInv
  <2>5. QED BY <1>4, <2>1, <2>2, <2>3, <2>4 DEF Runtime
<1>5. QED BY <1>1, <1>2, <1>3, <1>4 DEF Next

\* The invariant holds in every state the controller reaches.
THEOREM InductiveInvariant == Spec => []IInv
<1>1. Init => IInv
  BY InitEstablishesIInv
<1>2. IInv /\ [Next]_vars => IInv'
  BY NextKeepsIInv
<1>3. QED BY <1>1, <1>2, PTL DEF Spec

\* Type correctness of the controller's state (controller.ts, the fields of the
\* controller, and liveState.ts, those of LiveState).
THEOREM TypeCorrect == Spec => []TypeOK
<1>1. IInv => TypeOK
  BY DEF IInv
<1>2. QED BY <1>1, InductiveInvariant, PTL

\* track, retire and forget, applied by passes, stop fibers, retries and shutdown
\* in any order, keep the three indexes and the two reverse edges in agreement
\* with what the generations record.
THEOREM IndexesAlwaysAgree == Spec => []IndexesAgree
<1>1. IInv => IndexesAgree
  BY DEF IInv, LiveInv, IndexesAgree
<1>2. QED BY <1>1, InductiveInvariant, PTL

\* invalidate never leaves a generation with authority above an owner or a
\* provider that is not Running, whatever was retired between two passes.
THEOREM OwnershipAlwaysClosed == Spec => []OwnershipClosure
<1>1. IInv => OwnershipClosure
  BY DEF IInv, LiveInv, OwnershipClosure
<1>2. QED BY <1>1, InductiveInvariant, PTL

\* A sequential slot never holds two generations: the one a pass admits waits for
\* the finalizers of the one it replaces (admissible, finalization.ts: stop).
THEOREM ReplacementNeverOverlaps == Spec => []SequentialExclusive
<1>1. IInv => SequentialExclusive
  BY DEF IInv, LiveInv, SequentialExclusive
<1>2. QED BY <1>1, InductiveInvariant, PTL

\* The per-snapshot match cache never names a generation that has lost authority
\* or whose identity the published snapshot no longer desires.
THEOREM MatchCacheAlwaysCoherent == Spec => []MatchCacheCoherent
<1>1. IInv => MatchCacheCoherent
  BY DEF IInv
<1>2. QED BY <1>1, InductiveInvariant, PTL

\* Controller.status, which reads the indexes, and Snapshot.get, which walks every
\* generation, never disagree.
THEOREM StatusAlwaysAgrees == Spec => []StatusAgreesWithSnapshot
<1>1. IInv => StatusAgreesWithSnapshot
  BY StatusAgrees DEF IInv, LiveInv, StatusAgreesWithSnapshot
<1>2. QED BY <1>1, InductiveInvariant, PTL

-----------------------------------------------------------------------------
(***************************************************************************)
(* Finalization: a lifetime with authority is never torn down, and a       *)
(* generation is forgotten only once its finalizers have run, although the *)
(* close that waits for them may return while a descendant is still being  *)
(* closed by somebody else.                                                *)
(***************************************************************************)
\* Of the generations with authority, those that failed and no others have a
\* close in flight or behind them.
FailedAreClaimed ==
  \A g \in Authority(live) : closing[g] # "none" <=> live.status[g] = "failed"

\* The deferred of a dedicated close completes with the Scope's last finalizer:
\* no close claims a Scope that another close has claimed before it.
DoneIsClosed == \A g \in Gen : closing[g] = "done" => scope[g] = "closed"

\* Beneath a closed Scope nothing runs, except where another close has claimed it.
ClosedIsQuiet ==
  \A g \in Gen : scope[g] = "closed" =>
    /\ start[g] # "running"
    /\ \A c \in live.children[g] : scope[c] = "closed" \/ closing[c] # "none"

\* A token that names no generation has no Scope.
UntrackedHasNoScope ==
  \A g \in Gen : live.status[g] = "none" => scope[g] = "none" /\ closing[g] = "none"

ScopeInv ==
  /\ AuthorityKeepsScope
  /\ FailedAreClaimed
  /\ DoneIsClosed
  /\ ClosedIsQuiet
  /\ UntrackedHasNoScope

-----------------------------------------------------------------------------
\* No Scope exists in the initial state.
LEMMA InitEstablishesScopeInv == Init => ScopeInv
BY MakeLiveState
   DEF Init, ScopeInv, AuthorityKeepsScope, FailedAreClaimed, DoneIsClosed, ClosedIsQuiet,
       UntrackedHasNoScope

\* An action that moves no Scope and no status, and starts nothing.
LEMMA UndisturbedScopes ==
  ASSUME ScopeInv, UNCHANGED scopes,
         live'.status = live.status, live'.children = live.children,
         \A g \in Gen : start'[g] = "running" => start[g] = "running",
         phase' = "open" => phase = "open"
  PROVE  ScopeInv'
BY DEF ScopeInv, AuthorityKeepsScope, FailedAreClaimed, DoneIsClosed, ClosedIsQuiet,
       UntrackedHasNoScope, Authority, scopes

\* Shutdown takes all authority away; its Scopes close afterwards.
LEMMA BeginShutdownKeepsScopeInv ==
  ASSUME IInv, ScopeInv, BeginShutdown
  PROVE  ScopeInv'
<1> USE DEF BeginShutdown, scopes, fibers
<1> DEFINE A == Authority(live)
<1>0. live \in LiveState /\ A \in SUBSET Authority(live) /\ A \subseteq Gen
  BY DEF IInv, TypeOK, Authority
<1>1. Authority(live') = {} /\ live'.children = live.children
      /\ \A g \in Gen : live'.status[g] = "none" => live.status[g] = "none"
  BY <1>0, RetireSets DEF retire, LiveState
<1>2. QED
  BY <1>1 DEF ScopeInv, AuthorityKeepsScope, FailedAreClaimed, DoneIsClosed, ClosedIsQuiet,
              UntrackedHasNoScope

\* Nothing is left of any Scope.
LEMMA ShutdownForgetsKeepsScopeInv ==
  ASSUME IInv, ScopeInv, ShutdownForgets
  PROVE  ScopeInv'
<1>1. /\ \A g \in Gen : scope'[g] = "none" /\ closing'[g] = "none"
      /\ phase' = "forgotten" /\ live' = forget(live, All(live))
      /\ live \in LiveState /\ All(live) \in SUBSET Gen
      /\ Authority(live) = {}
  BY DEF ShutdownForgets, IInv, TypeOK, All, ClosingHasNoAuthority
<1>2. Authority(live') = {}
  BY <1>1, ForgetKeeps
<1>3. QED
  BY <1>1, <1>2 DEF ScopeInv, AuthorityKeepsScope, FailedAreClaimed, DoneIsClosed,
                    ClosedIsQuiet, UntrackedHasNoScope

\* A Failed generation is claimed already: retiring it claims no Scope.
LEMMA RetireOutOfBandKeepsScopeInv ==
  ASSUME IInv, ScopeInv, NEW g \in Gen, live.status[g] = "failed", phase = "open",
         UNCHANGED <<phase, start>>, RetireOutOfBand(g)
  PROVE  ScopeInv'
<1>0. live \in LiveState /\ {g} \in SUBSET Authority(live) /\ TypeOK
  BY DEF IInv, TypeOK, Authority
<1>1. closing[g] # "none"
  BY <1>0 DEF ScopeInv, FailedAreClaimed
<1>2. closingAfter({g}) = closing /\ scopeAfter({g}) = scope
  BY <1>0, <1>1 DEF closingAfter, scopeAfter, TypeOK
<1>3. closing' = closing /\ scope' = scope /\ live' = retire(live, {g})
  BY <1>2 DEF RetireOutOfBand, beginStop, closeInstance
<1>4. /\ live'.status = [h \in Gen |-> IF h \in {g} THEN "stopping" ELSE live.status[h]]
      /\ live'.children = live.children
  BY <1>0, <1>3 DEF retire, LiveState
<1>5. /\ Authority(live') \subseteq Authority(live)
      /\ \A h \in Authority(live') : live'.status[h] = live.status[h]
      /\ \A h \in Gen : live'.status[h] = "none" => live.status[h] = "none"
  BY <1>4 DEF Authority
<1>6. QED
  BY <1>3, <1>4, <1>5 DEF ScopeInv, AuthorityKeepsScope, FailedAreClaimed, DoneIsClosed,
                          ClosedIsQuiet, UntrackedHasNoScope

\* A backoff that wakes, whether or not it still applies, and a retry.
LEMMA TimerFiresKeepsScopeInv ==
  ASSUME IInv, ScopeInv, NEW g \in Gen, TimerFires(g)
  PROVE  ScopeInv'
<1>1. UNCHANGED <<phase, start>>
  BY DEF TimerFires
<1>2. CASE phase = "open" /\ live.status[g] = "failed" /\ RetireOutOfBand(g)
  BY <1>1, <1>2, RetireOutOfBandKeepsScopeInv
<1>3. CASE UNCHANGED <<live, scopes>>
  BY <1>1, <1>3, UndisturbedScopes
<1>4. QED BY <1>2, <1>3 DEF TimerFires

LEMMA RetryKeepsScopeInv ==
  ASSUME IInv, ScopeInv, NEW i \in Retryable, Retry(i)
  PROVE  ScopeInv'
<1> DEFINE g == live.currentByIdent[i]
<1>1. g \in Gen /\ live.status[g] = "failed" /\ phase = "open"
      /\ UNCHANGED <<phase, start>> /\ RetireOutOfBand(g)
  BY ControllerAssumption DEF Retry, IInv, LiveInv, LiveState
<1> HIDE DEF g
<1>2. QED BY <1>1, RetireOutOfBandKeepsScopeInv

-----------------------------------------------------------------------------
\* The one status a completion changes, and what stays as it was.
LEMMA ConcludeMoves ==
  ASSUME IInv, NEW g \in Gen, live.status[g] = "starting", NEW st \in {"running", "failed"},
         live' = concludeStartup(live, g, st)
  PROVE  /\ live'.status = [live.status EXCEPT ![g] = st]
         /\ live'.children = live.children
         /\ Authority(live') = Authority(live)
         /\ g \in Authority(live)
<1>1. live \in LiveState
  BY DEF IInv, TypeOK
<1>2. Authority(live') = Authority(live)
  BY <1>1, ConcludeKeeps
<1>3. live'.status = [live.status EXCEPT ![g] = st] /\ live'.children = live.children
  BY <1>1 DEF LiveState, concludeStartup
<1>4. g \in Authority(live)
  BY DEF Authority
<1>5. QED BY <1>2, <1>3, <1>4

\* A completion: a success leaves the Scope alone, a failure claims it.
LEMMA OnStartupDoneKeepsScopeInv ==
  ASSUME IInv, ScopeInv, NEW g \in Gen, OnStartupDone(g)
  PROVE  ScopeInv'
<1>0. /\ TypeOK /\ phase' = phase
      /\ live.status \in [Gen -> Lifecycle]
      /\ start[g] # "running" /\ start' = [start EXCEPT ![g] = "none"]
  BY DEF OnStartupDone, IInv, TypeOK, LiveState
<1>1. \A h \in Gen : start'[h] = "running" => start[h] = "running"
  BY <1>0 DEF TypeOK
<1>2. CASE StartupIsLate(g) \/ StartupIsSuperseded(g)
  BY <1>0, <1>1, <1>2, UndisturbedScopes DEF StartupIsLate, StartupIsSuperseded
<1>3. CASE StartupSucceeds(g)
  <2>1. /\ live.status[g] = "starting" /\ phase = "open" /\ UNCHANGED scopes
        /\ live' = concludeStartup(live, g, "running")
    BY <1>3 DEF StartupSucceeds
  <2>2. /\ live'.status = [live.status EXCEPT ![g] = "running"]
        /\ live'.children = live.children
        /\ Authority(live') = Authority(live)
        /\ g \in Authority(live)
    BY <2>1, ConcludeMoves
  <2>3. QED
    BY <1>0, <1>1, <2>1, <2>2
       DEF ScopeInv, AuthorityKeepsScope, FailedAreClaimed, DoneIsClosed, ClosedIsQuiet,
           UntrackedHasNoScope, Authority, scopes
<1>4. CASE StartupFails(g)
  <2>1. /\ live.status[g] = "starting" /\ phase = "open"
        /\ closing' = closingAfter({g}) /\ scope' = scopeAfter({g})
        /\ live' = concludeStartup(live, g, "failed")
    BY <1>4 DEF StartupFails, closeInstance
  <2>2. /\ live'.status = [live.status EXCEPT ![g] = "failed"]
        /\ live'.children = live.children
        /\ Authority(live') = Authority(live)
        /\ g \in Authority(live)
    BY <2>1, ConcludeMoves
  <2>3. scope[g] = "open" /\ closing[g] = "none"
    BY <2>1, <2>2 DEF ScopeInv, AuthorityKeepsScope, FailedAreClaimed
  <2>4. /\ closing' = [closing EXCEPT ![g] = "pending"]
        /\ scope' = [scope EXCEPT ![g] = "closing"]
    BY <1>0, <2>1, <2>3 DEF closingAfter, scopeAfter, TypeOK
  <2>5. AuthorityKeepsScope' /\ FailedAreClaimed'
    BY <1>0, <2>2, <2>4 DEF ScopeInv, AuthorityKeepsScope, FailedAreClaimed, Authority, TypeOK
  <2>6. DoneIsClosed' /\ UntrackedHasNoScope'
    <3>1. DoneIsClosed'
      BY <1>0, <2>3, <2>4 DEF ScopeInv, DoneIsClosed, TypeOK
    <3>2. \A h \in Gen : live'.status[h] = "none" => h # g /\ live.status[h] = "none"
      BY <1>0, <2>2
    <3>3. UntrackedHasNoScope'
      BY <1>0, <2>4, <3>2 DEF ScopeInv, UntrackedHasNoScope, TypeOK
    <3>4. QED BY <3>1, <3>3
  <2>7. ClosedIsQuiet'
    <3>1. \A h \in Gen : live.children[h] \subseteq Gen
      BY <1>0 DEF TypeOK, LiveState
    <3>2. QED BY <1>0, <1>1, <2>2, <2>3, <2>4, <3>1 DEF ScopeInv, ClosedIsQuiet, TypeOK
  <2>8. QED BY <2>5, <2>6, <2>7 DEF ScopeInv
<1>5. QED BY <1>2, <1>3, <1>4 DEF OnStartupDone

\* An owner's close never reaches a generation with authority: its owner is
\* Running, and a Running generation's Scope is open.
LEMMA OwnerClosesChildKeepsScopeInv ==
  ASSUME IInv, ScopeInv, NEW g \in Gen, OwnerClosesChild(g)
  PROVE  ScopeInv'
<1>0. /\ TypeOK /\ scope[g] = "open" /\ scope' = [scope EXCEPT ![g] = "closing"]
      /\ UNCHANGED <<phase, live, closing, start>>
      /\ IF live.owner[g] = NoGen THEN phase = "closing"
                                  ELSE scope[live.owner[g]] = "closing"
  BY DEF OwnerClosesChild, IInv, fibers
<1>1. ASSUME phase = "open", g \in Authority(live) PROVE FALSE
  <2>1. live.owner[g] \in Gen /\ live.status[live.owner[g]] = "running"
    BY <1>0, <1>1, NoGenAssumption DEF IInv, LiveInv, AuthoritySupported, Supported, LiveState
  <2>2. live.owner[g] \in Authority(live)
    BY <2>1 DEF Authority
  <2>3. QED BY <1>0, <1>1, <2>1, <2>2, NoGenAssumption DEF ScopeInv, AuthorityKeepsScope
<1>2. AuthorityKeepsScope' /\ FailedAreClaimed'
  BY <1>0, <1>1 DEF ScopeInv, AuthorityKeepsScope, FailedAreClaimed, TypeOK, Authority
<1>3. DoneIsClosed' /\ UntrackedHasNoScope'
  BY <1>0 DEF ScopeInv, DoneIsClosed, UntrackedHasNoScope, TypeOK
<1>4. ClosedIsQuiet'
  <2>1. \A h \in Gen : live.children[h] \subseteq Gen
    BY <1>0 DEF TypeOK, LiveState
  <2>2. QED BY <1>0, <2>1 DEF ScopeInv, ClosedIsQuiet, TypeOK
<1>5. QED BY <1>2, <1>3, <1>4 DEF ScopeInv

\* The last finalizer waited for the startup and for the children's Scopes.
LEMMA FinalizersRunKeepsScopeInv ==
  ASSUME IInv, ScopeInv, NEW g \in Gen, FinalizersRun(g)
  PROVE  ScopeInv'
<1>0. /\ TypeOK /\ scope[g] = "closing" /\ scope' = [scope EXCEPT ![g] = "closed"]
      /\ closing' = [closing EXCEPT ![g] = IF closing[g] = "pending" THEN "done" ELSE closing[g]]
      /\ UNCHANGED <<phase, live, start>>
      /\ start[g] # "running"
      /\ \A c \in live.children[g] : scope[c] = "closed" \/ closing[c] # "none"
  BY DEF FinalizersRun, IInv, fibers
<1>1. \A h \in Gen : closing'[h] # "none" <=> closing[h] # "none"
  BY <1>0 DEF TypeOK
<1>2. AuthorityKeepsScope' /\ FailedAreClaimed'
  BY <1>0, <1>1 DEF ScopeInv, AuthorityKeepsScope, FailedAreClaimed, TypeOK, Authority
<1>3. DoneIsClosed' /\ UntrackedHasNoScope'
  BY <1>0, <1>1 DEF ScopeInv, DoneIsClosed, UntrackedHasNoScope, TypeOK
<1>4. ClosedIsQuiet'
  <2>1. \A h \in Gen : live.children[h] \subseteq Gen
    BY <1>0 DEF TypeOK, LiveState
  <2>2. QED BY <1>0, <1>1, <2>1 DEF ScopeInv, ClosedIsQuiet, TypeOK
<1>5. QED BY <1>2, <1>3, <1>4 DEF ScopeInv

\* When a stop fiber's close is done, so is every Scope the fiber forgets.
LEMMA SubtreeIsFinalized ==
  ASSUME IInv, ScopeInv, NEW g \in Gen, stop[g] = "closing", closing[g] = "done"
  PROVE  \A h \in ownedSubtree(g) : scope[h] = "closed" /\ start[h] # "running"
<1> DEFINE R == {h \in All(live) : scope[h] = "closed"}
<1>1. g \in All(live) /\ scope[g] = "closed"
  BY DEF IInv, StopFibersDrain, Obsolete, All, ScopeInv, DoneIsClosed
<1>2. \A r \in R : r \in Gen /\ live.children[r] \subseteq All(live)
  BY DEF IInv, LiveInv, IndexesConsistent, EdgesAgree, All
<1>3. \A r \in R : {c \in live.children[r] : closing[c] = "none"} \subseteq R
  BY <1>2 DEF ScopeInv, ClosedIsQuiet
<1>4. R \in SUBSET All(live) /\ g \in R
  BY <1>1
<1>5. \A h \in ownedSubtree(g) : h \in R
  BY <1>3, <1>4 DEF ownedSubtree
<1>6. QED BY <1>2, <1>5 DEF ScopeInv, ClosedIsQuiet

LEMMA StopForgetsKeepsScopeInv ==
  ASSUME IInv, ScopeInv, NEW g \in Gen, StopForgets(g)
  PROVE  ScopeInv'
<1> DEFINE gone == ownedSubtree(g)
<1>0. /\ TypeOK /\ live' = forget(live, gone)
      /\ scope' = [h \in Gen |-> IF h \in gone THEN "none" ELSE scope[h]]
      /\ closing' = [h \in Gen |-> IF h \in gone THEN "none" ELSE closing[h]]
      /\ UNCHANGED <<phase, start>>
      /\ g \in Obsolete(live) /\ LiveInv(live)
  BY DEF StopForgets, IInv, StopFibersDrain
<1>1. gone \subseteq Obsolete(live)
  BY <1>0, OwnedSubtreeDrains
<1> HIDE DEF gone
<1>2. /\ live'.status = [h \in Gen |-> IF h \in gone THEN "none" ELSE live.status[h]]
      /\ live'.children = [h \in Gen |-> live.children[h] \ gone]
      /\ \A h \in Authority(live) : h \notin gone
      /\ \A h \in Gen : live.children[h] \subseteq Gen
  BY <1>0, <1>1 DEF forget, Authority, Obsolete, TypeOK, LiveState
<1>3. AuthorityKeepsScope' /\ FailedAreClaimed'
  BY <1>0, <1>2 DEF ScopeInv, AuthorityKeepsScope, FailedAreClaimed, Authority
<1>4. DoneIsClosed' /\ UntrackedHasNoScope'
  BY <1>0, <1>2 DEF ScopeInv, DoneIsClosed, UntrackedHasNoScope
<1>5. ClosedIsQuiet'
  BY <1>0, <1>2 DEF ScopeInv, ClosedIsQuiet
<1>6. QED BY <1>3, <1>4, <1>5 DEF ScopeInv

-----------------------------------------------------------------------------
\* What a pass does to the Scopes and to the edges, with the admitted named.
PassMoves(fresh) ==
  /\ \A g \in fresh : g \in Gen /\ live.status[g] = "none"
  /\ live'.status = [g \in Gen |-> IF g \in fresh THEN "starting"
                                   ELSE IF g \in invalidate THEN "stopping" ELSE live.status[g]]
  /\ \A g \in Gen \ fresh : live'.owner[g] = live.owner[g]
  /\ \A h \in Gen : \/ live'.children[h] = live.children[h]
                    \/ live.status[h] = "running" /\ h \notin invalidate
  /\ closing' = closingAfter(ownStops(invalidate))
  /\ scope' = [g \in Gen |-> IF g \in fresh THEN "open"
                             ELSE scopeAfter(ownStops(invalidate))[g]]
  /\ stop' = [g \in Gen |-> IF g \in ownStops(invalidate) THEN "closing" ELSE stop[g]]
  /\ start' = [g \in Gen |-> IF g \in fresh THEN "running" ELSE start[g]]
  /\ \A g \in Gen : g \notin fresh /\ g \notin Authority(live) => seen'[g] = seen[g]
  /\ phase = "open" /\ phase' = "open"

LEMMA ReconcilePassMoves ==
  ASSUME IInv, ReconcilePass
  PROVE  \E fresh : PassMoves(fresh)
<1> DEFINE drained == retire(live, invalidate)
           kept == Authority(live) \ invalidate
           A == admissions(drained, kept)
           admit == [i \in A |-> CHOOSE g \in Gen : Unused(g) /\ IdentOf(g) = i]
           owner == [i \in A |-> CurrentOwner(drained, i)]
           providers == [i \in A |-> CurrentProviders(drained, i)]
           M == track(drained, admit, owner, providers)
           fresh == Fresh(A, admit)
<1>1. /\ phase = "open" /\ phase' = "open"
      /\ \A i \in A : \E g \in Gen : Unused(g) /\ IdentOf(g) = i
      /\ live' = [M EXCEPT !.moved = FALSE]
      /\ closing' = closingAfter(ownStops(invalidate))
      /\ scope' = [g \in Gen |-> IF g \in fresh THEN "open"
                                 ELSE scopeAfter(ownStops(invalidate))[g]]
      /\ stop' = [g \in Gen |-> IF g \in ownStops(invalidate) THEN "closing" ELSE stop[g]]
      /\ start' = [g \in Gen |-> IF g \in fresh THEN "running" ELSE start[g]]
      /\ seen' = [g \in Gen |-> IF g \in kept \cup fresh THEN desired[IdentOf(g)]
                                ELSE seen[g]]
  BY DEF ReconcilePass, Fresh
<1>2. /\ LiveInv(drained)
      /\ \A g \in Gen : live.status[g] = "none" => drained.status[g] = "none"
  BY DrainedIsInOrder
<1>3. /\ drained.status = [g \in Gen |-> IF g \in invalidate THEN "stopping"
                                         ELSE live.status[g]]
      /\ drained.owner = live.owner /\ drained.children = live.children
  BY DEF retire, IInv, TypeOK, LiveState
<1> HIDE DEF drained, kept
<1>4. ASSUME NEW i \in A
      PROVE  /\ admit[i] \in Gen /\ IdentOf(admit[i]) = i
             /\ live.status[admit[i]] = "none" /\ drained.status[admit[i]] = "none"
  <2>1. \E g \in Gen : Unused(g) /\ IdentOf(g) = i
    BY <1>1
  <2>2. admit[i] \in Gen /\ Unused(admit[i]) /\ IdentOf(admit[i]) = i
    BY <2>1
  <2>3. QED BY <2>2, <1>2 DEF Unused
<1>5. admit \in [A -> Gen]
      /\ \A i \in A : IdentOf(admit[i]) = i /\ drained.status[admit[i]] = "none"
  BY <1>4
<1>6. \A g \in fresh : g \in Gen /\ live.status[g] = "none"
  BY <1>4 DEF Fresh
<1> HIDE DEF admit
<1>7. Admits(drained, A, admit, owner, providers) /\ drained \in LiveState
  BY <1>2, <1>5, AdmissionsAreAdmitted DEF LiveInv
<1>8. \A i \in A : owner[i] \in Gen => drained.status[owner[i]] = "running"
  <2> SUFFICES ASSUME NEW i \in A, CurrentOwner(drained, i) \in Gen
               PROVE  drained.status[CurrentOwner(drained, i)] = "running"
    OBVIOUS
  <2>1. IF IsRoot(i) THEN CurrentOwner(drained, i) = NoGen
        ELSE drained.status[CurrentOwner(drained, i)] = "running"
    BY <1>2, AdmissionsStand
  <2>2. QED BY <2>1, NoGenAssumption
<1> HIDE DEF A, owner, providers
<1>9. Tracks(drained, M, A, admit, owner, providers) /\ M \in LiveState
  BY <1>7, TrackFields, TrackSets
<1>10. \A g \in fresh : IdentOf(g) \in A
  BY <1>7, FreshIsNamed
<1> HIDE DEF M
<1>11. /\ M.status = [g \in Gen |-> IF g \in fresh THEN "starting" ELSE drained.status[g]]
       /\ M.owner = [g \in Gen |-> IF g \in fresh THEN owner[IdentOf(g)] ELSE drained.owner[g]]
       /\ M.children = [h \in Gen |-> drained.children[h] \cup
                          {g \in fresh : owner[IdentOf(g)] = h}]
  BY <1>9 DEF Tracks
<1>12. live'.status = M.status /\ live'.owner = M.owner /\ live'.children = M.children
  BY <1>1, <1>9 DEF LiveState
<1> HIDE DEF fresh
<1>13. live'.status = [g \in Gen |-> IF g \in fresh THEN "starting"
                                     ELSE IF g \in invalidate THEN "stopping"
                                     ELSE live.status[g]]
  BY <1>3, <1>11, <1>12
<1>14. ASSUME NEW h \in Gen, live'.children[h] # live.children[h]
       PROVE  live.status[h] = "running" /\ h \notin invalidate
  <2>1. PICK g \in fresh : owner[IdentOf(g)] = h
    BY <1>3, <1>11, <1>12, <1>14
  <2>2. drained.status[h] = "running"
    BY <2>1, <1>8, <1>10
  <2>3. QED BY <2>2, <1>3
<1>15. PassMoves(fresh)
  <2>1. \A g \in Gen \ fresh : live'.owner[g] = live.owner[g]
    BY <1>3, <1>11, <1>12
  <2>2. \A g \in Gen : g \notin fresh /\ g \notin Authority(live) => seen'[g] = seen[g]
    BY <1>1 DEF kept
  <2>3. QED BY <1>1, <1>6, <1>13, <1>14, <2>1, <2>2 DEF PassMoves
<1>16. QED BY <1>15

\* A pass claims the Scopes of what it retires and opens those of what it
\* admits; what it keeps, it leaves alone.
LEMMA ReconcilePassKeepsScopeInv ==
  ASSUME IInv, ScopeInv, ReconcilePass
  PROVE  ScopeInv'
<1> DEFINE own == ownStops(invalidate)
<1>0. TypeOK /\ own \subseteq invalidate /\ invalidate \subseteq Authority(live)
      /\ Authority(live) \subseteq Gen
      /\ \A h \in Gen : live.children[h] \subseteq Gen
  BY InvalidateIsClosed DEF IInv, ownStops, Authority, TypeOK, LiveState
<1>1. PICK fresh : PassMoves(fresh)
  BY ReconcilePassMoves
<1>2. /\ \A g \in fresh : g \in Gen /\ live.status[g] = "none"
      /\ live'.status = [g \in Gen |-> IF g \in fresh THEN "starting"
                           ELSE IF g \in invalidate THEN "stopping" ELSE live.status[g]]
      /\ closing' = closingAfter(own)
      /\ scope' = [g \in Gen |-> IF g \in fresh THEN "open" ELSE scopeAfter(own)[g]]
      /\ start' = [g \in Gen |-> IF g \in fresh THEN "running" ELSE start[g]]
      /\ phase = "open" /\ phase' = "open"
  BY <1>1 DEF PassMoves
<1>3. \A h \in Gen : \/ live'.children[h] = live.children[h]
                     \/ live.status[h] = "running" /\ h \notin invalidate
  BY <1>1 DEF PassMoves
<1> HIDE DEF own
<1>4. \A g \in own : \/ closing[g] # "none"
                     \/ closing[g] = "none" /\ scope[g] = "open"
  BY <1>0, <1>2 DEF ScopeInv, AuthorityKeepsScope, FailedAreClaimed
<1>5. /\ closing' = [g \in Gen |-> IF g \in own /\ closing[g] = "none" THEN "pending"
                                   ELSE closing[g]]
      /\ scopeAfter(own) = [g \in Gen |-> IF g \in own /\ closing[g] = "none" THEN "closing"
                                          ELSE scope[g]]
  BY <1>0, <1>2, <1>4 DEF closingAfter, scopeAfter
<1>6. scope' = [g \in Gen |-> IF g \in fresh THEN "open"
                              ELSE IF g \in own /\ closing[g] = "none" THEN "closing"
                              ELSE scope[g]]
  BY <1>2, <1>5
<1>7. \A g \in fresh : closing'[g] = "none" /\ g \notin Authority(live) /\ g \notin own
  BY <1>0, <1>2, <1>5 DEF ScopeInv, UntrackedHasNoScope, Authority
<1>8. \A g \in Authority(live)' :
         g \in Gen /\ (g \in fresh \/ (g \in Authority(live) /\ g \notin own
                                       /\ live'.status[g] = live.status[g]))
  BY <1>0, <1>2 DEF Authority
<1>9. AuthorityKeepsScope' /\ FailedAreClaimed'
  BY <1>2, <1>5, <1>6, <1>7, <1>8 DEF ScopeInv, AuthorityKeepsScope, FailedAreClaimed
<1>10. DoneIsClosed'
  BY <1>2, <1>5, <1>6, <1>7 DEF ScopeInv, DoneIsClosed
<1>11. UntrackedHasNoScope'
  BY <1>0, <1>2, <1>5, <1>6 DEF ScopeInv, UntrackedHasNoScope, Authority
<1>12. ClosedIsQuiet'
  <2> SUFFICES ASSUME NEW g \in Gen, scope'[g] = "closed"
               PROVE  /\ start'[g] # "running"
                      /\ \A c \in live'.children[g] : scope'[c] = "closed" \/ closing'[c] # "none"
    BY DEF ClosedIsQuiet
  <2>1. g \notin fresh /\ scope[g] = "closed"
    BY <1>6
  <2>2. start[g] # "running"
        /\ \A c \in live.children[g] : scope[c] = "closed" \/ closing[c] # "none"
    BY <2>1 DEF ScopeInv, ClosedIsQuiet
  <2>3. live'.children[g] = live.children[g]
    BY <1>2, <1>3, <2>1 DEF ScopeInv, AuthorityKeepsScope, Authority
  <2>4. ASSUME NEW c \in live.children[g] PROVE scope'[c] = "closed" \/ closing'[c] # "none"
    <3>1. c \in Gen
      BY <1>0
    <3>2. c \notin fresh
      BY <1>2, <3>1, <2>2 DEF ScopeInv, UntrackedHasNoScope
    <3>3. QED BY <1>5, <1>6, <2>2, <3>1, <3>2
  <2>5. QED BY <1>2, <2>1, <2>2, <2>3, <2>4
<1>13. QED BY <1>9, <1>10, <1>11, <1>12 DEF ScopeInv

-----------------------------------------------------------------------------
\* Every step keeps the Scopes' part of the invariant.
LEMMA NextKeepsScopeInv ==
  ASSUME IInv, ScopeInv, [Next]_vars
  PROVE  ScopeInv'
<1>1. ASSUME NEW g \in Gen, NEW exit \in {"succeeded", "failed"}, StartExits(g, exit)
      PROVE  ScopeInv'
  <2>1. \A h \in Gen : start'[h] = "running" => start[h] = "running"
    BY <1>1 DEF StartExits, IInv, TypeOK
  <2>2. QED BY <1>1, <2>1, UndisturbedScopes DEF StartExits
<1>2. CASE \/ UNCHANGED vars \/ Terminated \/ (\E d \in Desire : Commit(d))
           \/ (\E g \in Gen : CleanupWakes(g) \/ StopWakes(g))
           \/ LoopWakes \/ LoopInterrupted \/ ClosedPass \/ ShutdownSignals
  <2>1. UNCHANGED <<scopes, start>> /\ (phase' = "open" => phase = "open")
    BY <1>2 DEF Commit, CleanupWakes, StopWakes, LoopWakes, LoopInterrupted, ClosedPass,
                ShutdownSignals, Terminated, vars, fibers
  <2>2. live' = live \/ live' = [live EXCEPT !.moved = FALSE]
    BY <1>2 DEF Commit, CleanupWakes, StopWakes, LoopWakes, LoopInterrupted, ClosedPass,
                ShutdownSignals, Terminated, vars
  <2>3. live'.status = live.status /\ live'.children = live.children
    BY <2>2 DEF IInv, TypeOK, LiveState
  <2>4. QED BY <2>1, <2>3, UndisturbedScopes
<1>3. CASE \/ \E i \in Retryable : Retry(i)
           \/ BeginShutdown \/ ShutdownForgets \/ ReconcilePass
  BY <1>3, RetryKeepsScopeInv, BeginShutdownKeepsScopeInv, ShutdownForgetsKeepsScopeInv,
     ReconcilePassKeepsScopeInv
<1>4. CASE \E g \in Gen : OnStartupDone(g) \/ TimerFires(g)
  BY <1>4, OnStartupDoneKeepsScopeInv, TimerFiresKeepsScopeInv
<1>5. CASE \E g \in Gen : OwnerClosesChild(g) \/ FinalizersRun(g) \/ StopForgets(g)
  BY <1>5, OwnerClosesChildKeepsScopeInv, FinalizersRunKeepsScopeInv, StopForgetsKeepsScopeInv
<1>6. QED BY <1>1, <1>2, <1>3, <1>4, <1>5 DEF Next, Application, Startup, Runtime

\* Both parts of the invariant, in every state the controller reaches.
THEOREM ScopeInvariant == Spec => [](IInv /\ ScopeInv)
<1>1. Init => IInv /\ ScopeInv
  BY InitEstablishesIInv, InitEstablishesScopeInv
<1>2. (IInv /\ ScopeInv) /\ [Next]_vars => (IInv /\ ScopeInv)'
  BY NextKeepsIInv, NextKeepsScopeInv
<1>3. QED BY <1>1, <1>2, PTL DEF Spec

\* While the controller is open, no Scope of a generation with authority begins to
\* close unless its startup failed (finalization.ts: closeInstance; the owner's
\* Scope.close).
THEOREM AuthorityAlwaysKeepsScope == Spec => []AuthorityKeepsScope
<1>1. IInv /\ ScopeInv => AuthorityKeepsScope
  BY DEF ScopeInv
<1>2. QED BY <1>1, ScopeInvariant, PTL

-----------------------------------------------------------------------------
\* Only a stop fiber and the end of shutdown drop generations; nothing else
\* touches one that drains.
LEMMA OthersLeaveDraining ==
  ASSUME IInv, [Next]_vars, ~ShutdownForgets, \A h \in Gen : ~StopForgets(h), NEW g \in Gen
  PROVE  /\ live'.status[g] = "none" => live.status[g] = "none"
         /\ live.status[g] = "stopping" => live'.status[g] = "stopping" /\ seen'[g] = seen[g]
<1>0. TypeOK /\ live \in LiveState /\ live.status \in [Gen -> Lifecycle]
  BY DEF IInv, TypeOK, LiveState
<1>1. CASE seen' = seen /\ (live' = live \/ live' = [live EXCEPT !.moved = FALSE])
  BY <1>0, <1>1 DEF LiveState
<1>2. CASE seen' = seen /\ \E S \in SUBSET Gen : live' = retire(live, S)
  <2>1. PICK S \in SUBSET Gen : live' = retire(live, S)
    BY <1>2
  <2>2. live'.status = [h \in Gen |-> IF h \in S THEN "stopping" ELSE live.status[h]]
    BY <1>0, <2>1 DEF retire, LiveState
  <2>3. QED BY <1>2, <2>2
<1>3. CASE /\ seen' = seen
           /\ \E h \in Gen, st \in {"running", "failed"} :
                live.status[h] = "starting" /\ live' = concludeStartup(live, h, st)
  <2>1. PICK h \in Gen, st \in {"running", "failed"} :
               live.status[h] = "starting" /\ live' = concludeStartup(live, h, st)
    BY <1>3
  <2>2. live'.status = [live.status EXCEPT ![h] = st]
    BY <2>1, ConcludeMoves
  <2>3. QED BY <1>0, <1>3, <2>1, <2>2
<1>4. CASE ReconcilePass
  <2>1. PICK fresh : PassMoves(fresh)
    BY <1>4, ReconcilePassMoves
  <2>2. QED BY <2>1 DEF PassMoves, Authority
<1>5. ASSUME NEW h \in Gen, RetireOutOfBand(h) PROVE \E S \in SUBSET Gen : live' = retire(live, S)
  BY <1>5 DEF RetireOutOfBand
<1>6. ASSUME NEW i \in Retryable, Retry(i)
      PROVE  seen' = seen /\ \E S \in SUBSET Gen : live' = retire(live, S)
  <2>1. live.currentByIdent[i] \in Gen /\ RetireOutOfBand(live.currentByIdent[i]) /\ seen' = seen
    BY <1>0, <1>6, ControllerAssumption DEF Retry, LiveState
  <2>2. QED BY <1>5, <2>1
<1>7. CASE Application
  <2>1. ASSUME BeginShutdown
        PROVE  seen' = seen /\ \E S \in SUBSET Gen : live' = retire(live, S)
    <3>1. Authority(live) \in SUBSET Gen
      BY DEF Authority
    <3>2. QED BY <2>1, <3>1 DEF BeginShutdown
  <2>2. ASSUME NEW d \in Desire, Commit(d) PROVE seen' = seen /\ live' = live
    BY <2>2 DEF Commit
  <2>3. QED BY <1>1, <1>2, <1>6, <1>7, <2>1, <2>2 DEF Application
<1>8. CASE Startup \/ Terminated \/ UNCHANGED vars
  BY <1>1, <1>8 DEF Startup, StartExits, Terminated, vars
<1>9. ASSUME NEW h \in Gen, OnStartupDone(h)
      PROVE  \/ seen' = seen /\ live' = live
             \/ /\ seen' = seen
                /\ \E st \in {"running", "failed"} :
                     live.status[h] = "starting" /\ live' = concludeStartup(live, h, st)
  BY <1>9 DEF OnStartupDone, StartupIsLate, StartupIsSuperseded, StartupSucceeds, StartupFails
<1>10. ASSUME NEW h \in Gen, TimerFires(h)
       PROVE  seen' = seen /\ (live' = live \/ \E S \in SUBSET Gen : live' = retire(live, S))
  BY <1>5, <1>10 DEF TimerFires
<1>11. ASSUME NEW h \in Gen,
              CleanupWakes(h) \/ OwnerClosesChild(h) \/ FinalizersRun(h) \/ StopWakes(h)
       PROVE  seen' = seen /\ live' = live
  BY <1>11 DEF CleanupWakes, OwnerClosesChild, FinalizersRun, StopWakes
<1>12. ASSUME LoopWakes \/ ClosedPass \/ LoopInterrupted \/ ShutdownSignals
       PROVE  seen' = seen /\ (live' = live \/ live' = [live EXCEPT !.moved = FALSE])
  BY <1>12 DEF LoopWakes, ClosedPass, LoopInterrupted, ShutdownSignals
<1>13. CASE Runtime
  <2>1. CASE \E h \in Gen : OnStartupDone(h)
    BY <2>1, <1>1, <1>3, <1>9
  <2>2. CASE \E h \in Gen : TimerFires(h)
    BY <2>2, <1>1, <1>2, <1>10
  <2>3. CASE \E h \in Gen :
               CleanupWakes(h) \/ OwnerClosesChild(h) \/ FinalizersRun(h) \/ StopWakes(h)
    BY <2>3, <1>1, <1>11
  <2>4. CASE LoopWakes \/ ClosedPass \/ LoopInterrupted \/ ShutdownSignals
    BY <2>4, <1>1, <1>12
  <2>5. QED BY <1>4, <1>13, <2>1, <2>2, <2>3, <2>4 DEF Runtime
<1>14. QED BY <1>7, <1>8, <1>13 DEF Next

\* What a stop fiber or the end of shutdown drops was finalized, and what it
\* does not drop it does not touch.
LEMMA ForgettingIsLast ==
  ASSUME IInv, ScopeInv, ShutdownForgets \/ \E h \in Gen : StopForgets(h), NEW g \in Gen
  PROVE  /\ live.status[g] # "none" /\ live'.status[g] = "none"
              => scope[g] = "closed" /\ start[g] # "running"
         /\ live'.status[g] = "none"
            \/ (live'.status[g] = live.status[g] /\ seen'[g] = seen[g])
<1>0. TypeOK /\ live \in LiveState
  BY DEF IInv, TypeOK
<1>1. CASE ShutdownForgets
  <2>1. /\ \A h \in Gen : start[h] # "running"
        /\ \A h \in All(live) : scope[h] = "closed"
        /\ live' = forget(live, All(live))
    BY <1>1 DEF ShutdownForgets
  <2>2. live'.status[g] = "none"
    BY <2>1 DEF forget, All
  <2>3. QED BY <2>1, <2>2 DEF All
<1>2. CASE \E h \in Gen : StopForgets(h)
  <2>1. PICK h \in Gen : StopForgets(h)
    BY <1>2
  <2> DEFINE gone == ownedSubtree(h)
  <2>2. /\ live' = forget(live, gone)
        /\ seen' = [r \in Gen |-> IF r \in gone THEN NoProjection ELSE seen[r]]
        /\ stop[h] = "closing" /\ closing[h] = "done"
    BY <2>1 DEF StopForgets
  <2>3. \A r \in gone : scope[r] = "closed" /\ start[r] # "running"
    BY <2>2, SubtreeIsFinalized
  <2> HIDE DEF gone
  <2>4. live'.status[g] = IF g \in gone THEN "none" ELSE live.status[g]
    BY <2>2 DEF forget
  <2>5. QED BY <2>2, <2>3, <2>4
<1>3. QED BY <1>1, <1>2

\* A generation leaves the live state only once its startup has ended and the last
\* of its finalizers has run (finalization.ts: ownedSubtree, beginStop; shutdown).
THEOREM ForgottenIsAlwaysFinalized == Spec => ForgottenIsFinalized
<1>1. IInv /\ ScopeInv /\ [Next]_vars =>
        \A g \in Gen : live.status[g] # "none" /\ live'.status[g] = "none"
          => scope[g] = "closed" /\ start[g] # "running"
  BY OthersLeaveDraining, ForgettingIsLast
<1>2. IInv /\ ScopeInv /\ [Next]_vars =>
        [\A g \in Gen : live.status[g] # "none" /\ live'.status[g] = "none"
          => scope[g] = "closed" /\ start[g] # "running"]_vars
  BY <1>1
<1>3. QED BY <1>2, ScopeInvariant, PTL DEF Spec, ForgottenIsFinalized

\* A draining generation never regains authority and never hears of another
\* projection, whatever completes, fires or is committed while it drains.
THEOREM ObsoleteIsAlwaysFinal == Spec => ObsoleteIsFinal
<1>1. IInv /\ ScopeInv /\ [Next]_vars =>
        \A g \in Obsolete(live) :
          \/ live'.status[g] = "none"
          \/ live'.status[g] = "stopping" /\ seen'[g] = seen[g]
  BY OthersLeaveDraining, ForgettingIsLast DEF Obsolete
<1>2. IInv /\ ScopeInv /\ [Next]_vars =>
        [\A g \in Obsolete(live) :
          \/ live'.status[g] = "none"
          \/ live'.status[g] = "stopping" /\ seen'[g] = seen[g]]_vars
  BY <1>1
<1>3. QED BY <1>2, ScopeInvariant, PTL DEF Spec, ObsoleteIsFinal


-----------------------------------------------------------------------------
\* Once everything is forgotten no step but the last signal is possible.
LEMMA NextKeepsClosedIsEmpty ==
  ASSUME IInv, ClosedIsEmpty, [Next]_vars
  PROVE  ClosedIsEmpty'
<1>1. CASE UNCHANGED vars
  BY <1>1 DEF vars, scopes, fibers, loops, ClosedIsEmpty, All
<1>2. CASE phase \in {"forgotten", "closed"} /\ Next
  <2>1. ShutdownSignals \/ Terminated
    BY <1>2 DEF ClosedIsEmpty, Next, Application, Startup, Runtime, Commit, Retry,
                BeginShutdown, StartExits, OnStartupDone, CleanupWakes, TimerFires,
                OwnerClosesChild, FinalizersRun, StopForgets, StopWakes, LoopWakes,
                ReconcilePass, ClosedPass, LoopInterrupted, ShutdownForgets
  <2>2. CASE ShutdownSignals
    <3>1. live'.status = live.status /\ ~live'.moved
      BY <2>2 DEF ShutdownSignals, IInv, TypeOK, LiveState
    <3>2. QED BY <1>2, <2>2, <3>1
              DEF ClosedIsEmpty, ShutdownSignals, All, scopes, fibers, loops
  <2>3. CASE Terminated
    BY <2>3 DEF Terminated, vars, scopes, fibers, loops, ClosedIsEmpty, All
  <2>4. QED BY <2>1, <2>2, <2>3
<1>3. CASE phase \notin {"forgotten", "closed"} /\ ShutdownForgets
  <2>1. /\ phase' = "forgotten" /\ live' = forget(live, All(live))
        /\ scope' = [g \in Gen |-> "none"]
        /\ start' = [g \in Gen |-> "none"]
        /\ timer' = [g \in Gen |-> FALSE]
        /\ \A g \in Gen : stop'[g] = "none" /\ ~cleanup'[g]
        /\ loop' = "dead"
    BY <1>3 DEF ShutdownForgets, loops
  <2>2. live'.status = [g \in Gen |-> "none"]
    BY <2>1 DEF forget, All, IInv, TypeOK, LiveState
  <2>3. QED BY <2>1, <2>2 DEF ClosedIsEmpty, All
<1>4. CASE phase \notin {"forgotten", "closed"} /\ Next /\ ~ShutdownForgets
  <2>1. phase' \notin {"forgotten", "closed"}
    BY <1>4 DEF Next, Application, Startup, Runtime, Commit, Retry,
                BeginShutdown, StartExits, OnStartupDone, CleanupWakes, TimerFires,
                OwnerClosesChild, FinalizersRun, StopForgets, StopWakes, LoopWakes,
                ReconcilePass, ClosedPass, LoopInterrupted, ShutdownSignals, Terminated
  <2>2. QED BY <2>1 DEF ClosedIsEmpty
<1>5. QED BY <1>1, <1>2, <1>3, <1>4

\* When shutdown has completed nothing is tracked, no fiber is left, the loop is
\* dead and the last movement has been signalled (controller.ts: shutdown).
THEOREM ClosedIsAlwaysEmpty == Spec => []ClosedIsEmpty
<1>1. Init => ClosedIsEmpty
  BY DEF Init, ClosedIsEmpty
<1>2. IInv /\ ClosedIsEmpty /\ [Next]_vars => ClosedIsEmpty'
  BY NextKeepsClosedIsEmpty
<1>3. QED BY <1>1, <1>2, ScopeInvariant, PTL DEF Spec


-----------------------------------------------------------------------------
\* Every draining generation stays answered for when none is dropped, the new
\* ones get a stop fiber, and the old ones keep theirs, or stay unclaimed
\* under the same owner.
LEMMA CoverIsKept ==
  ASSUME DrainingIsCovered, phase = "open",
         Obsolete(live) \subseteq Obsolete(live)',
         \A h \in Obsolete(live)' \ Obsolete(live) : stop'[h] = "closing",
         \A h \in Obsolete(live) : /\ live'.owner[h] = live.owner[h]
                                   /\ closing[h] = "none" => closing'[h] = "none"
                                   /\ stop[h] = "closing" => stop'[h] = "closing"
  PROVE  DrainingIsCovered'
BY DEF DrainingIsCovered

\* A fiber forgets the unclaimed children with their owner.
LEMMA StopForgetsKeepsCover ==
  ASSUME IInv, DrainingIsCovered, NEW g \in Gen, StopForgets(g)
  PROVE  DrainingIsCovered'
<1> DEFINE gone == ownedSubtree(g)
<1>0. /\ live' = forget(live, gone)
      /\ closing' = [h \in Gen |-> IF h \in gone THEN "none" ELSE closing[h]]
      /\ stop' = [stop EXCEPT ![g] = "wake"]
      /\ phase' = phase
      /\ g \in Obsolete(live) /\ LiveInv(live) /\ live \in LiveState
      /\ stop \in [Gen -> {"none", "closing", "wake"}]
  BY DEF StopForgets, IInv, TypeOK, StopFibersDrain
<1>1. gone \subseteq Obsolete(live) /\ gone \subseteq All(live)
  BY <1>0, OwnedSubtreeDrains DEF ownedSubtree
<1>2. g \in gone
  BY <1>0 DEF ownedSubtree, Obsolete, All
<1>3. ASSUME NEW r \in gone, NEW c \in live.children[r], closing[c] = "none"
      PROVE  c \in gone
  <2>1. c \in All(live)
    BY <1>0, <1>1 DEF LiveInv, IndexesConsistent, EdgesAgree, All
  <2>2. SUFFICES ASSUME NEW R \in SUBSET All(live), g \in R,
                        \A s \in R : {d \in live.children[s] : closing[d] = "none"} \subseteq R
                 PROVE  c \in R
    BY <2>1 DEF ownedSubtree
  <2>3. r \in R
    BY <2>2 DEF ownedSubtree
  <2>4. QED BY <1>3, <2>2, <2>3
<1> HIDE DEF gone
<1>4. /\ live'.status = [h \in Gen |-> IF h \in gone THEN "none" ELSE live.status[h]]
      /\ \A h \in Gen \ gone : live'.owner[h] = live.owner[h]
  BY <1>0, <1>1 DEF forget, LiveState
<1>5. Obsolete(live)' = Obsolete(live) \ gone
  BY <1>4 DEF Obsolete
<1>6. ASSUME NEW h \in Obsolete(live)', closing[h] = "none",
             live.owner[h] \in Obsolete(live)
      PROVE  live.owner[h] \in Obsolete(live)'
  <2>1. h \in Gen /\ h \in All(live) /\ h \notin gone
    BY <1>5 DEF Obsolete, All
  <2>2. h \in live.children[live.owner[h]]
    BY <1>0, <1>6, <2>1 DEF LiveInv, IndexesConsistent, EdgesAgree, Obsolete, All
  <2>3. live.owner[h] \notin gone
    BY <1>3, <1>6, <2>1, <2>2
  <2>4. QED BY <1>5, <1>6, <2>3
<1>7. ASSUME NEW h \in Obsolete(live)'
      PROVE  /\ h \in Gen /\ h \in Obsolete(live) /\ h \notin gone
             /\ stop'[h] = stop[h] /\ closing'[h] = closing[h]
             /\ live'.owner[h] = live.owner[h]
  BY <1>0, <1>2, <1>4, <1>5 DEF Obsolete
<1>8. QED BY <1>0, <1>6, <1>7 DEF DrainingIsCovered

\* A pass starts a stop fiber for every root of what it retires, and for what
\* another close has claimed.
LEMMA ReconcilePassKeepsCover ==
  ASSUME IInv, DrainingIsCovered, ReconcilePass
  PROVE  DrainingIsCovered'
<1>1. PICK fresh : PassMoves(fresh)
  BY ReconcilePassMoves
<1> DEFINE own == ownStops(invalidate)
<1>2. /\ \A g \in fresh : g \in Gen /\ live.status[g] = "none"
      /\ live'.status = [g \in Gen |-> IF g \in fresh THEN "starting"
                           ELSE IF g \in invalidate THEN "stopping" ELSE live.status[g]]
      /\ \A g \in Gen \ fresh : live'.owner[g] = live.owner[g]
      /\ closing' = closingAfter(own)
      /\ stop' = [g \in Gen |-> IF g \in own THEN "closing" ELSE stop[g]]
      /\ phase = "open"
  BY <1>1 DEF PassMoves
<1>3. invalidate \subseteq Authority(live) /\ own \subseteq invalidate
      /\ \A h \in invalidate \ own : live.owner[h] \in invalidate /\ closing[h] = "none"
  BY InvalidateIsClosed DEF ownStops
<1> HIDE DEF own
<1>4. Obsolete(live)' = Obsolete(live) \cup invalidate
  BY <1>2, <1>3 DEF Obsolete, Authority
<1>5. \A h \in Obsolete(live)' : h \in Gen /\ h \notin fresh
                                 /\ live'.owner[h] = live.owner[h]
  BY <1>2, <1>3, <1>4 DEF Obsolete, Authority
<1>6. ASSUME NEW h \in invalidate \ own
      PROVE  closing'[h] = "none" /\ live'.owner[h] \in Obsolete(live)'
  BY <1>2, <1>3, <1>4, <1>5 DEF closingAfter
<1>7. ASSUME NEW h \in own PROVE stop'[h] = "closing"
  BY <1>2, <1>3 DEF Authority
<1>8. ASSUME NEW h \in Obsolete(live), h \notin invalidate
      PROVE  stop'[h] = stop[h] /\ closing'[h] = closing[h]
  BY <1>2, <1>3, <1>8 DEF closingAfter, Obsolete
<1>9. ASSUME NEW h \in Obsolete(live)'
      PROVE  \/ stop'[h] = "closing"
             \/ closing'[h] = "none" /\ live'.owner[h] \in Obsolete(live)'
  <2>1. CASE h \in own
    BY <1>7, <2>1
  <2>2. CASE h \in invalidate \ own
    BY <1>6, <2>2
  <2>3. CASE h \in Obsolete(live) /\ h \notin invalidate
    BY <1>2, <1>4, <1>5, <1>8, <2>3 DEF DrainingIsCovered
  <2>4. QED BY <1>4, <2>1, <2>2, <2>3
<1>10. QED BY <1>9 DEF DrainingIsCovered


\* The two retirements between passes start a stop fiber at once.
LEMMA RetireOutOfBandKeepsCover ==
  ASSUME IInv, DrainingIsCovered, NEW g \in Gen, live.status[g] = "failed",
         phase = "open", RetireOutOfBand(g)
  PROVE  DrainingIsCovered'
<1>1. /\ live'.status = [h \in Gen |-> IF h \in {g} THEN "stopping" ELSE live.status[h]]
      /\ live'.owner = live.owner
      /\ closing' = closingAfter({g})
      /\ stop' = [h \in Gen |-> IF h \in {g} THEN "closing" ELSE stop[h]]
  BY DEF RetireOutOfBand, beginStop, closeInstance, retire, IInv, TypeOK, LiveState
<1>2. Obsolete(live)' = Obsolete(live) \cup {g} /\ g \notin Obsolete(live)
  BY <1>1 DEF Obsolete
<1>3. \A h \in Obsolete(live) : h \in Gen /\ h # g
  BY <1>2 DEF Obsolete
<1>4. QED BY <1>1, <1>2, <1>3, CoverIsKept DEF closingAfter

\* A completion touches no generation that drains.
LEMMA OnStartupDoneKeepsCover ==
  ASSUME IInv, DrainingIsCovered, NEW g \in Gen, OnStartupDone(g)
  PROVE  DrainingIsCovered'
<1>0. stop' = stop /\ phase' = phase
  BY DEF OnStartupDone
<1>1. CASE StartupIsLate(g) \/ StartupIsSuperseded(g)
  BY <1>0, <1>1 DEF StartupIsLate, StartupIsSuperseded, scopes, DrainingIsCovered, Obsolete
<1>2. ASSUME NEW st \in {"running", "failed"}, live' = concludeStartup(live, g, st),
             live.status[g] = "starting", phase = "open",
             closing' = closing \/ closing' = closingAfter({g})
      PROVE  DrainingIsCovered'
  <2>1. /\ live'.status = [live.status EXCEPT ![g] = st]
        /\ live'.owner = live.owner
    BY <1>2 DEF IInv, TypeOK, LiveState, concludeStartup
  <2>2. Obsolete(live)' = Obsolete(live)
    BY <1>2, <2>1 DEF Obsolete, IInv, TypeOK, LiveState
  <2>3. \A h \in Obsolete(live) : h \in Gen /\ h # g
    BY <1>2 DEF Obsolete
  <2>4. \A h \in Obsolete(live) : closing'[h] = closing[h]
    BY <1>2, <2>3 DEF closingAfter
  <2>5. QED BY <1>0, <1>2, <2>1, <2>2, <2>4, CoverIsKept
<1>3. CASE StartupSucceeds(g)
  BY <1>2, <1>3 DEF StartupSucceeds, scopes
<1>4. CASE StartupFails(g)
  BY <1>2, <1>4 DEF StartupFails, closeInstance
<1>5. QED BY <1>1, <1>3, <1>4 DEF OnStartupDone

LEMMA NextKeepsDrainingIsCovered ==
  ASSUME IInv, ClosedIsEmpty, DrainingIsCovered, [Next]_vars
  PROVE  DrainingIsCovered'
<1>1. ASSUME UNCHANGED <<phase, live, closing, stop>>
      PROVE  DrainingIsCovered'
  BY <1>1 DEF DrainingIsCovered, Obsolete
<1>2. CASE phase' # "open"
  <2>1. ClosedIsEmpty' /\ TypeOK'
    BY NextKeepsClosedIsEmpty, NextKeepsIInv DEF IInv
  <2>2. CASE phase' = "closing"
    BY <2>2 DEF DrainingIsCovered
  <2>3. CASE phase' \in {"forgotten", "closed"}
    BY <2>1, <2>3 DEF ClosedIsEmpty, DrainingIsCovered, Obsolete, All
  <2>4. QED BY <1>2, <2>1, <2>2, <2>3 DEF TypeOK
<1>3. CASE phase' = "open" /\ Application
  <2>1. ASSUME NEW d \in Desire, Commit(d) PROVE DrainingIsCovered'
    BY <1>1, <2>1 DEF Commit, scopes, fibers
  <2>2. ASSUME NEW i \in Retryable, Retry(i) PROVE DrainingIsCovered'
    <3> DEFINE g == live.currentByIdent[i]
    <3>1. g \in Gen /\ live.status[g] = "failed" /\ phase = "open" /\ RetireOutOfBand(g)
      BY <2>2, ControllerAssumption DEF Retry, IInv, LiveInv, LiveState
    <3> HIDE DEF g
    <3>2. QED BY <3>1, RetireOutOfBandKeepsCover
  <2>3. QED BY <1>3, <2>1, <2>2 DEF Application, BeginShutdown
<1>4. ASSUME NEW g \in Gen, phase' = "open",
             \/ OnStartupDone(g) \/ CleanupWakes(g) \/ TimerFires(g)
             \/ OwnerClosesChild(g) \/ FinalizersRun(g) \/ StopForgets(g) \/ StopWakes(g)
      PROVE  DrainingIsCovered'
  <2>1. CASE OnStartupDone(g)
    BY <2>1, OnStartupDoneKeepsCover
  <2>2. CASE CleanupWakes(g) \/ OwnerClosesChild(g)
    BY <1>1, <2>2 DEF CleanupWakes, OwnerClosesChild, scopes, fibers
  <2>3. CASE TimerFires(g)
    <3>1. CASE phase = "open" /\ live.status[g] = "failed" /\ RetireOutOfBand(g)
      BY <3>1, RetireOutOfBandKeepsCover
    <3>2. CASE UNCHANGED <<live, scopes, stop, phase>>
      BY <1>1, <3>2 DEF scopes
    <3>3. QED BY <2>3, <3>1, <3>2 DEF TimerFires
  <2>4. CASE FinalizersRun(g)
    <3>1. /\ UNCHANGED <<live, stop, phase>>
          /\ closing' = [closing EXCEPT ![g] = IF closing[g] = "pending" THEN "done"
                                               ELSE closing[g]]
      BY <2>4 DEF FinalizersRun, fibers
    <3>2. \A h \in Gen : closing[h] = "none" => closing'[h] = "none"
      BY <3>1 DEF IInv, TypeOK
    <3>3. QED BY <3>1, <3>2 DEF DrainingIsCovered, Obsolete
  <2>5. CASE StopForgets(g)
    BY <2>5, StopForgetsKeepsCover
  <2>6. CASE StopWakes(g)
    <3>1. /\ UNCHANGED <<live, closing, phase>> /\ stop[g] = "wake"
          /\ stop' = [stop EXCEPT ![g] = "none"]
      BY <2>6 DEF StopWakes, scopes
    <3>2. \A h \in Gen : stop[h] = "closing" => stop'[h] = "closing"
      BY <3>1 DEF IInv, TypeOK
    <3>3. QED BY <3>1, <3>2 DEF DrainingIsCovered, Obsolete
  <2>7. QED BY <1>4, <2>1, <2>2, <2>3, <2>4, <2>5, <2>6
<1>5. CASE phase' = "open" /\ Startup
  BY <1>1, <1>5 DEF Startup, StartExits, scopes
<1>6. CASE phase' = "open" /\ (LoopWakes \/ ReconcilePass \/ ClosedPass \/ LoopInterrupted)
  <2>1. CASE ReconcilePass
    BY <2>1, ReconcilePassKeepsCover
  <2>2. CASE LoopWakes
    BY <1>1, <2>2 DEF LoopWakes, scopes, fibers
  <2>3. QED BY <1>6, <2>1, <2>2 DEF ClosedPass, LoopInterrupted
<1>7. CASE phase' = "open" /\ (ShutdownForgets \/ ShutdownSignals \/ Terminated)
  BY <1>7 DEF ShutdownForgets, ShutdownSignals, Terminated, vars
<1>8. CASE UNCHANGED vars
  BY <1>1, <1>8 DEF vars, scopes, fibers
<1>9. QED BY <1>2, <1>3, <1>4, <1>5, <1>6, <1>7, <1>8 DEF Next, Runtime

\* A draining generation is never left without somebody who finalizes it: its own
\* stop fiber, or an owner that drains too and whose close covers it
\* (finalization.ts: beginStop, ownedSubtree).
THEOREM DrainingIsAlwaysCovered == Spec => []DrainingIsCovered
<1>1. Init => DrainingIsCovered
  BY MakeLiveState DEF Init, DrainingIsCovered, Obsolete
<1>2. IInv /\ ClosedIsEmpty /\ DrainingIsCovered /\ [Next]_vars => DrainingIsCovered'
  BY NextKeepsDrainingIsCovered
<1>3. QED BY <1>1, <1>2, ScopeInvariant, ClosedIsAlwaysEmpty, PTL DEF Spec

-----------------------------------------------------------------------------
(***************************************************************************)
(* What the reconcile pass is for, for every Definition and every set of   *)
(* snapshots: the controller implements Lifetimes; whatever a pass would   *)
(* still change is owed a pass; and a startup completion, which has to     *)
(* decide between two passes, decides as the pass would.                   *)
(***************************************************************************)
\* A token that names no generation has no startup running either.
UntrackedIsIdle == \A g \in Gen : live.status[g] = "none" => start[g] # "running"

RefInv == IInv /\ ScopeInv /\ UntrackedIsIdle

\* What the refinement mapping makes of one generation.
Stands(g) == live.providers[g] \cup ({live.owner[g]} \ {NoGen})
Held(g) == scope[g] \in {"open", "closing"} \/ start[g] = "running"

-----------------------------------------------------------------------------
(***************************************************************************)
(* One pass, with its parts named.                                         *)
(***************************************************************************)
Drained == retire(live, invalidate)
Kept == Authority(live) \ invalidate
Admissions == admissions(Drained, Kept)
Admit == [i \in Admissions |-> CHOOSE g \in Gen : Unused(g) /\ IdentOf(g) = i]
Owners == [i \in Admissions |-> CurrentOwner(Drained, i)]
Providers == [i \in Admissions |-> CurrentProviders(Drained, i)]
Tracked == track(Drained, Admit, Owners, Providers)
Admitted == Fresh(Admissions, Admit)

\* Phase A takes identities and slots away and leaves the bindings alone.
LEMMA DrainedFields ==
  ASSUME IInv
  PROVE  /\ LiveInv(Drained)
         /\ Authority(Drained) = Kept
         /\ Drained.status = [g \in Gen |-> IF g \in invalidate THEN "stopping"
                                            ELSE live.status[g]]
         /\ Drained.owner = live.owner /\ Drained.providers = live.providers
         /\ Drained.children = live.children /\ Drained.dependents = live.dependents
         /\ \A g \in Gen : live.status[g] = "none" => Drained.status[g] = "none"
<1>1. /\ LiveInv(Drained) /\ Authority(Drained) = Kept
      /\ \A g \in Gen : live.status[g] = "none" => Drained.status[g] = "none"
  BY DrainedIsInOrder DEF Drained, Kept
<1>2. /\ Drained.status = [g \in Gen |-> IF g \in invalidate THEN "stopping"
                                         ELSE live.status[g]]
      /\ Drained.owner = live.owner /\ Drained.providers = live.providers
      /\ Drained.children = live.children /\ Drained.dependents = live.dependents
  BY DEF Drained, retire, IInv, TypeOK, LiveState
<1>3. QED BY <1>1, <1>2

\* Every admission finds a token nobody uses.
LEMMA AdmitNames ==
  ASSUME IInv, ReconcilePass
  PROVE  /\ Admit \in [Admissions -> Gen]
         /\ \A i \in Admissions :
              /\ IdentOf(Admit[i]) = i
              /\ Unused(Admit[i])
              /\ Drained.status[Admit[i]] = "none"
<1>1. \A i \in Admissions : \E g \in Gen : Unused(g) /\ IdentOf(g) = i
  BY DEF ReconcilePass, Admissions, Drained, Kept
<1>2. ASSUME NEW i \in Admissions
      PROVE  Admit[i] \in Gen /\ Unused(Admit[i]) /\ IdentOf(Admit[i]) = i
  BY <1>1 DEF Admit
<1>3. \A i \in Admissions : Drained.status[Admit[i]] = "none"
  BY <1>2, DrainedFields DEF Unused
<1>4. \A i \in Admissions : Admit[i] \in Gen
  BY <1>2
<1>5. Admit \in [Admissions -> Gen]
  <2>1. DOMAIN Admit = Admissions /\ Admit = [i \in Admissions |-> Admit[i]]
    BY DEF Admit
  <2>2. QED BY <1>4, <2>1
<1>6. QED BY <1>2, <1>3, <1>5

\* Phase B binds what it admits to generations that run and go on running.
LEMMA TrackedFields ==
  ASSUME IInv, ReconcilePass
  PROVE  /\ LiveInv(Tracked)
         /\ Authority(Tracked) = Kept \cup Admitted
         /\ Tracks(Drained, Tracked, Admissions, Admit, Owners, Providers)
         /\ \A g \in Admitted : /\ g \in Gen
                                /\ IdentOf(g) \in Admissions /\ Admit[IdentOf(g)] = g
                                /\ Unused(g)
         /\ \A i \in Admissions :
              /\ Owners[i] \in Gen => Drained.status[Owners[i]] = "running"
              /\ Owners[i] \in Gen \cup {NoGen}
              /\ Providers[i] \subseteq Gen
              /\ \A h \in Providers[i] : Drained.status[h] = "running"
<1>1. /\ Admit \in [Admissions -> Gen]
      /\ \A i \in Admissions : /\ IdentOf(Admit[i]) = i /\ Unused(Admit[i])
                               /\ Drained.status[Admit[i]] = "none"
  BY AdmitNames
<1>2. LiveInv(Drained) /\ Drained \in LiveState /\ Authority(Drained) = Kept
  BY DrainedFields DEF LiveInv
<1>3. Admits(Drained, Admissions, Admit, Owners, Providers)
  BY <1>1, <1>2, AdmissionsAreAdmitted DEF Admissions, Owners, Providers
<1>4. LiveInv(Tracked) /\ Authority(Tracked) = Kept \cup Admitted
  BY <1>1, <1>2, AdmittingKeeps DEF Admissions, Owners, Providers, Tracked, Admitted
<1>5. Tracks(Drained, Tracked, Admissions, Admit, Owners, Providers)
  BY <1>2, <1>3, TrackFields DEF Tracked
<1>6. \A g \in Admitted : /\ g \in Gen
                          /\ IdentOf(g) \in Admissions /\ Admit[IdentOf(g)] = g
                          /\ Unused(g)
  BY <1>1 DEF Admitted, Fresh
<1>7. ASSUME NEW i \in Admissions
      PROVE  /\ Owners[i] \in Gen => Drained.status[Owners[i]] = "running"
             /\ Owners[i] \in Gen \cup {NoGen}
             /\ Providers[i] \subseteq Gen
             /\ \A h \in Providers[i] : Drained.status[h] = "running"
  <2>1. /\ CurrentOwner(Drained, i) \in Gen \cup {NoGen}
        /\ IF IsRoot(i) THEN CurrentOwner(Drained, i) = NoGen
           ELSE Drained.status[CurrentOwner(Drained, i)] = "running"
        /\ CurrentProviders(Drained, i) \subseteq Gen
        /\ \A h \in CurrentProviders(Drained, i) : Drained.status[h] = "running"
    BY <1>2, AdmissionsStand DEF Admissions
  <2>2. Owners[i] = CurrentOwner(Drained, i) /\ Providers[i] = CurrentProviders(Drained, i)
    BY DEF Owners, Providers
  <2>3. QED BY <2>1, <2>2, NoGenAssumption
<1>8. QED BY <1>4, <1>5, <1>6, <1>7

\* What a pass assigns.
LEMMA ReconcilePassAssigns ==
  ASSUME IInv, ReconcilePass
  PROVE  /\ phase = "open" /\ loop = "due"
         /\ live' = [Tracked EXCEPT !.moved = FALSE]
         /\ matched' = Kept \cup Admitted
         /\ closing' = closingAfter(ownStops(invalidate))
         /\ scope' = [g \in Gen |-> IF g \in Admitted THEN "open"
                                    ELSE scopeAfter(ownStops(invalidate))[g]]
         /\ stop' = [g \in Gen |-> IF g \in ownStops(invalidate) THEN "closing" ELSE stop[g]]
         /\ start' = [g \in Gen |-> IF g \in Admitted THEN "running" ELSE start[g]]
         /\ seen' = [g \in Gen |-> IF g \in Kept \cup Admitted THEN desired[IdentOf(g)]
                                   ELSE seen[g]]
         /\ supervisors' = [i \in Ident |->
              IF \E g \in invalidate : IdentOf(g) = i THEN NotStarted ELSE supervisors[i]]
         /\ outOfBand' = {} /\ loop' = "waiting" /\ owed' = FALSE
         /\ UNCHANGED <<phase, desired, cleanup, timer, wake>>
BY DEF ReconcilePass, Admissions, Drained, Kept, Admit, Owners, Providers, Tracked,
       Admitted, Fresh

\* What a pass makes of every generation's own fields.
LEMMA ReconcilePassFields ==
  ASSUME IInv, ReconcilePass
  PROVE  /\ live'.status = [g \in Gen |-> IF g \in Admitted THEN "starting"
                              ELSE IF g \in invalidate THEN "stopping" ELSE live.status[g]]
         /\ live'.owner = [g \in Gen |-> IF g \in Admitted THEN Owners[IdentOf(g)]
                                         ELSE live.owner[g]]
         /\ live'.providers = [g \in Gen |-> IF g \in Admitted THEN Providers[IdentOf(g)]
                                             ELSE live.providers[g]]
         /\ live'.moved = FALSE
<1>1. /\ Tracked \in LiveState /\ live' = [Tracked EXCEPT !.moved = FALSE]
      /\ Tracks(Drained, Tracked, Admissions, Admit, Owners, Providers)
  BY TrackedFields, ReconcilePassAssigns DEF LiveInv
<1>2. /\ live'.status = Tracked.status /\ live'.owner = Tracked.owner
      /\ live'.providers = Tracked.providers /\ live'.moved = FALSE
  BY <1>1 DEF LiveState
<1>3. /\ Tracked.status = [g \in Gen |-> IF g \in Admitted THEN "starting"
                                         ELSE Drained.status[g]]
      /\ Tracked.owner = [g \in Gen |-> IF g \in Admitted THEN Owners[IdentOf(g)]
                                        ELSE Drained.owner[g]]
      /\ Tracked.providers = [g \in Gen |-> IF g \in Admitted THEN Providers[IdentOf(g)]
                                            ELSE Drained.providers[g]]
  BY <1>1 DEF Tracks, Admitted
<1>4. QED BY <1>2, <1>3, DrainedFields

-----------------------------------------------------------------------------
(***************************************************************************)
(* The part of the invariant that is new.                                  *)
(***************************************************************************)
\* A startup begins to run only in a generation that is Starting.
LEMMA StartBegins ==
  ASSUME IInv, [Next]_vars, NEW g \in Gen, start'[g] = "running"
  PROVE  start[g] = "running" \/ live'.status[g] = "starting"
<1>1. CASE ReconcilePass
  BY <1>1, ReconcilePassAssigns, ReconcilePassFields
<1>2. CASE start' = start
  BY <1>2
<1>3. CASE \E h \in Gen : start' = [start EXCEPT ![h] = "none"]
  BY <1>3 DEF IInv, TypeOK
<1>4. CASE \E h \in Gen, exit \in {"succeeded", "failed"} : start' = [start EXCEPT ![h] = exit]
  BY <1>4 DEF IInv, TypeOK
<1>5. CASE ShutdownForgets
  BY <1>5 DEF ShutdownForgets
<1>6. CASE Application
  BY <1>2, <1>6 DEF Application, Commit, Retry, BeginShutdown, fibers
<1>7. CASE Startup
  BY <1>4, <1>7 DEF Startup, StartExits
<1>8. ASSUME NEW h \in Gen, OnStartupDone(h) PROVE start' = [start EXCEPT ![h] = "none"]
  BY <1>8 DEF OnStartupDone
<1>9. ASSUME NEW h \in Gen,
             \/ CleanupWakes(h) \/ TimerFires(h) \/ OwnerClosesChild(h)
             \/ FinalizersRun(h) \/ StopForgets(h) \/ StopWakes(h)
      PROVE  start' = start
  BY <1>9 DEF CleanupWakes, TimerFires, OwnerClosesChild, FinalizersRun, StopForgets,
              StopWakes, fibers
<1>10. CASE LoopWakes \/ ClosedPass \/ LoopInterrupted \/ ShutdownSignals
            \/ Terminated \/ UNCHANGED vars
  BY <1>2, <1>10 DEF LoopWakes, ClosedPass, LoopInterrupted, ShutdownSignals, Terminated,
                     vars, fibers
<1>11. CASE Runtime
  BY <1>1, <1>2, <1>3, <1>5, <1>8, <1>9, <1>10, <1>11 DEF Runtime
<1>12. QED BY <1>6, <1>7, <1>10, <1>11 DEF Next

LEMMA NextKeepsUntrackedIsIdle ==
  ASSUME RefInv, [Next]_vars
  PROVE  UntrackedIsIdle'
<1> SUFFICES ASSUME NEW g \in Gen, live'.status[g] = "none", start'[g] = "running"
             PROVE  FALSE
  BY DEF UntrackedIsIdle
<1>1. start[g] = "running"
  BY StartBegins DEF RefInv
<1>2. live.status[g] # "none"
  BY <1>1 DEF RefInv, UntrackedIsIdle
<1>3. QED BY <1>1, <1>2, OthersLeaveDraining, ForgettingIsLast DEF RefInv

THEOREM RefinementInvariant == Spec => []RefInv
<1>1. Init => RefInv
  BY InitEstablishesIInv, InitEstablishesScopeInv DEF RefInv, UntrackedIsIdle, Init
<1>2. RefInv /\ [Next]_vars => RefInv'
  BY NextKeepsIInv, NextKeepsScopeInv, NextKeepsUntrackedIsIdle DEF RefInv
<1>3. QED BY <1>1, <1>2, PTL DEF Spec

-----------------------------------------------------------------------------
(***************************************************************************)
(* Every step, as the generations see it.                                  *)
(***************************************************************************)
\* A generation whose status and bindings stay, and which goes on holding or
\* not holding resources.
LEMMA Undisturbed ==
  ASSUME NEW g \in Gen, live'.status[g] = live.status[g], live'.owner[g] = live.owner[g],
         live'.providers[g] = live.providers[g], Held(g)' <=> Held(g)
  PROVE  Generations!Stays(g)
BY DEF Held, Generations!Stays

\* One that has failed or drains, or that holds nothing, may let go.
LEMMA LetsGo ==
  ASSUME RefInv, NEW g \in Gen, live'.status[g] = live.status[g],
         live'.owner[g] = live.owner[g],
         live'.providers[g] = live.providers[g], Held(g)' => Held(g),
         live.status[g] \in {"failed", "stopping"} \/ ~Held(g)
  PROVE  Generations!Drains(g) \/ Generations!Stays(g)
BY DEF Held, Generations!Stays, Generations!Drains

\* What holds nothing with a token that names nothing, and what holds while it
\* has authority and has not failed.
LEMMA WhoHolds ==
  ASSUME RefInv, NEW g \in Gen
  PROVE  /\ live.status[g] = "none" => ~Held(g)
         /\ live.status[g] \in {"starting", "running"} => scope[g] = "open" /\ phase = "open"
BY DEF RefInv, IInv, ScopeInv, UntrackedHasNoScope, UntrackedIsIdle, AuthorityKeepsScope,
       ClosingHasNoAuthority, TypeOK, Authority, Held

\* A set of generations is retired with all that stands on them; the closes this
\* begins hold no more than before.
LEMMA RetiresTogether ==
  ASSUME RefInv, NEW S \in SUBSET Authority(live),
         \A h \in S : (live.children[h] \cup live.dependents[h]) \cap Authority(live) \subseteq S,
         live'.status = [g \in Gen |-> IF g \in S THEN "stopping" ELSE live.status[g]],
         live'.owner = live.owner, live'.providers = live.providers,
         \A g \in Gen : Held(g)' <=> Held(g)
  PROVE  Generations!Next
<1>1. ASSUME NEW g \in Gen, g \notin S PROVE Generations!Stays(g)
  BY <1>1, Undisturbed
<1>2. ASSUME NEW g \in Gen, g \in S PROVE Generations!Retired(g)
  <2>1. live.status[g] \in {"starting", "running", "failed"}
    BY <1>2 DEF Authority
  <2>2. ASSUME NEW d \in Gen, g \in Stands(d),
               live.status[d] \in {"starting", "running", "failed"}
        PROVE  d \in S
    <3>1. d \in Authority(live) /\ d \in All(live)
      BY <2>2 DEF Authority, All
    <3>2. d \in live.children[g] \cup live.dependents[g]
      BY <2>2, <3>1 DEF Stands, RefInv, IInv, LiveInv, IndexesConsistent, EdgesAgree
    <3>3. QED BY <1>2, <3>1, <3>2
  <2>3. QED BY <1>2, <2>1, <2>2 DEF Generations!Retired, Generations!Live, Stands, Held
<1>3. QED BY <1>1, <1>2 DEF Generations!Next

\* A close claims Scopes that were open, and a claimed Scope still holds.
LEMMA ClaimsGoOnHolding ==
  ASSUME RefInv, NEW S, NEW g \in Gen
  PROVE  scopeAfter(S)[g] \in {"open", "closing"} <=> scope[g] \in {"open", "closing"}
BY DEF RefInv, IInv, TypeOK, scopeAfter

LEMMA AbstractlyNothing ==
  ASSUME RefInv, UNCHANGED <<scope, start>>,
         live' = live \/ live' = [live EXCEPT !.moved = FALSE]
  PROVE  Generations!Next
<1>1. live'.status = live.status /\ live'.owner = live.owner
      /\ live'.providers = live.providers
  BY DEF RefInv, IInv, TypeOK, LiveState
<1>2. ASSUME NEW g \in Gen PROVE Generations!Stays(g)
  BY <1>1, Undisturbed DEF Held
<1>3. QED BY <1>2 DEF Generations!Next

\* A startup that ends lets go of the fiber it ran in; the Scope stays.
LEMMA StartExitsRefines ==
  ASSUME RefInv, NEW g \in Gen, NEW exit \in {"succeeded", "failed"}, StartExits(g, exit)
  PROVE  Generations!Next
<1>1. /\ start[g] = "running" /\ start' = [start EXCEPT ![g] = exit]
      /\ live' = live /\ scope' = scope
      /\ start \in [Gen -> {"none", "running", "succeeded", "failed"}]
      /\ live.status \in [Gen -> Lifecycle]
  BY DEF StartExits, scopes, RefInv, IInv, TypeOK, LiveState
<1>2. ASSUME NEW h \in Gen, h # g PROVE Generations!Stays(h)
  BY <1>1, <1>2, Undisturbed DEF Held
<1>3. CASE live.status[g] \in {"starting", "running"}
  <2>1. Held(g) /\ Held(g)'
    BY <1>1, <1>3, WhoHolds DEF Held
  <2>2. Generations!Stays(g)
    BY <1>1, <2>1, Undisturbed
  <2>3. QED BY <1>2, <2>2 DEF Generations!Next
<1>4. CASE live.status[g] \in {"failed", "stopping"}
  <2>1. Held(g)' => Held(g)
    BY <1>1 DEF Held
  <2>2. Generations!Drains(g) \/ Generations!Stays(g)
    BY <1>1, <1>4, <2>1, LetsGo
  <2>3. QED BY <1>2, <2>2 DEF Generations!Next
<1>5. live.status[g] # "none"
  BY <1>1 DEF RefInv, UntrackedIsIdle
<1>6. QED BY <1>1, <1>3, <1>4, <1>5 DEF Lifecycle

LEMMA OwnerClosesChildRefines ==
  ASSUME RefInv, NEW g \in Gen, OwnerClosesChild(g)
  PROVE  Generations!Next
<1>1. /\ live' = live /\ start' = start /\ scope[g] = "open"
      /\ scope' = [scope EXCEPT ![g] = "closing"]
      /\ scope \in [Gen -> {"none", "open", "closing", "closed"}]
  BY DEF OwnerClosesChild, fibers, RefInv, IInv, TypeOK
<1>2. ASSUME NEW h \in Gen PROVE Generations!Stays(h)
  <2>1. Held(h)' <=> Held(h)
    BY <1>1 DEF Held
  <2>2. QED BY <1>1, <2>1, Undisturbed
<1>3. QED BY <1>2 DEF Generations!Next

\* Finalizers run in what failed or drains, and in nothing else.
LEMMA FinalizersRunRefines ==
  ASSUME RefInv, NEW g \in Gen, FinalizersRun(g)
  PROVE  Generations!Next
<1>1. /\ live' = live /\ start' = start /\ scope[g] = "closing"
      /\ scope' = [scope EXCEPT ![g] = "closed"]
      /\ scope \in [Gen -> {"none", "open", "closing", "closed"}]
      /\ live.status \in [Gen -> Lifecycle]
  BY DEF FinalizersRun, fibers, RefInv, IInv, TypeOK, LiveState
<1>2. ASSUME NEW h \in Gen, h # g PROVE Generations!Stays(h)
  BY <1>1, <1>2, Undisturbed DEF Held
<1>3. live.status[g] \in {"failed", "stopping"}
  <2>1. live.status[g] \notin {"none", "starting", "running"}
    BY <1>1, WhoHolds DEF Held
  <2>2. QED BY <1>1, <2>1 DEF Lifecycle
<1>4. Held(g)' => Held(g)
  BY <1>1 DEF Held
<1>5. Generations!Drains(g) \/ Generations!Stays(g)
  BY <1>1, <1>3, <1>4, LetsGo
<1>6. QED BY <1>2, <1>5 DEF Generations!Next

\* What stood on a Failed generation has none of its authority left.
LEMMA RetireOutOfBandRefines ==
  ASSUME RefInv, NEW g \in Gen, live.status[g] = "failed", start' = start,
         RetireOutOfBand(g)
  PROVE  Generations!Next
<1>1. {g} \in SUBSET Authority(live)
  BY DEF Authority
<1>2. LiveInv(live) /\ live \in LiveState
  BY DEF RefInv, IInv, LiveInv
<1>3. \A h \in {g} : (live.children[h] \cup live.dependents[h]) \cap Authority(live) \subseteq {g}
  BY <1>2, DrainingSupportsNothing
<1>4. /\ live'.status = [h \in Gen |-> IF h \in {g} THEN "stopping" ELSE live.status[h]]
      /\ live'.owner = live.owner /\ live'.providers = live.providers
  BY <1>2 DEF RetireOutOfBand, retire, LiveState
<1>5. \A h \in Gen : Held(h)' <=> Held(h)
  BY ClaimsGoOnHolding DEF RetireOutOfBand, beginStop, closeInstance, Held
<1>6. QED BY <1>1, <1>3, <1>4, <1>5, RetiresTogether

LEMMA RetryRefines ==
  ASSUME RefInv, NEW i \in Retryable, Retry(i)
  PROVE  Generations!Next
<1> DEFINE g == live.currentByIdent[i]
<1>1. g \in Gen /\ live.status[g] = "failed" /\ start' = start /\ RetireOutOfBand(g)
  BY ControllerAssumption DEF Retry, RefInv, IInv, LiveInv, LiveState
<1> HIDE DEF g
<1>2. QED BY <1>1, RetireOutOfBandRefines

LEMMA TimerFiresRefines ==
  ASSUME RefInv, NEW g \in Gen, TimerFires(g)
  PROVE  Generations!Next
<1>1. start' = start
  BY DEF TimerFires
<1>2. CASE live.status[g] = "failed" /\ RetireOutOfBand(g)
  BY <1>1, <1>2, RetireOutOfBandRefines
<1>3. CASE UNCHANGED <<live, scopes>>
  BY <1>1, <1>3, AbstractlyNothing DEF scopes
<1>4. QED BY <1>2, <1>3 DEF TimerFires

LEMMA BeginShutdownRefines ==
  ASSUME RefInv, BeginShutdown
  PROVE  Generations!Next
<1> DEFINE A == Authority(live)
<1>1. /\ live'.status = [h \in Gen |-> IF h \in A THEN "stopping" ELSE live.status[h]]
      /\ live'.owner = live.owner /\ live'.providers = live.providers
      /\ scope' = scope /\ start' = start
  BY DEF BeginShutdown, retire, RefInv, IInv, TypeOK, LiveState, scopes, fibers
<1>2. /\ A \in SUBSET Authority(live)
      /\ \A h \in A : (live.children[h] \cup live.dependents[h]) \cap Authority(live) \subseteq A
      /\ \A g \in Gen : Held(g)' <=> Held(g)
  BY <1>1 DEF Held
<1> HIDE DEF A
<1>3. QED BY <1>1, <1>2, RetiresTogether

\* A completion: the Scope it succeeds with is open, the one it fails with was.
LEMMA OnStartupDoneRefines ==
  ASSUME RefInv, NEW g \in Gen, OnStartupDone(g)
  PROVE  Generations!Next
<1>1. /\ start[g] \in {"succeeded", "failed"} /\ start' = [start EXCEPT ![g] = "none"]
      /\ start \in [Gen -> {"none", "running", "succeeded", "failed"}]
      /\ live \in LiveState
  BY DEF OnStartupDone, RefInv, IInv, TypeOK
<1>2. \A h \in Gen : start'[h] = "running" <=> start[h] = "running"
  BY <1>1
<1>3. CASE StartupIsLate(g) \/ StartupIsSuperseded(g)
  <2>1. live' = live /\ scope' = scope
    BY <1>3 DEF StartupIsLate, StartupIsSuperseded, scopes
  <2>2. ASSUME NEW h \in Gen PROVE Generations!Stays(h)
    BY <1>2, <2>1, Undisturbed DEF Held
  <2>3. QED BY <2>2 DEF Generations!Next
<1>4. ASSUME NEW st \in {"running", "failed"}, live.status[g] = "starting",
             live' = concludeStartup(live, g, st),
             \A h \in Gen : scope'[h] \in {"open", "closing"} <=> scope[h] \in {"open", "closing"}
      PROVE  Generations!Next
  <2>1. /\ live'.status = [live.status EXCEPT ![g] = st]
        /\ live'.owner = live.owner /\ live'.providers = live.providers
        /\ live.status \in [Gen -> Lifecycle]
    BY <1>1, <1>4 DEF concludeStartup, LiveState
  <2>2. \A h \in Gen : Held(h)' <=> Held(h)
    BY <1>2, <1>4 DEF Held
  <2>3. ASSUME NEW h \in Gen, h # g PROVE Generations!Stays(h)
    BY <2>1, <2>2, <2>3, Undisturbed
  <2>4. Held(g) /\ Held(g)'
    BY <1>4, <2>2, WhoHolds DEF Held
  <2>5. Generations!Concludes(g)
    BY <1>4, <2>1, <2>4 DEF Generations!Concludes, Held
  <2>6. QED BY <2>3, <2>5 DEF Generations!Next
<1>5. CASE StartupSucceeds(g)
  BY <1>4, <1>5 DEF StartupSucceeds, scopes
<1>6. CASE StartupFails(g)
  BY <1>4, <1>6, ClaimsGoOnHolding DEF StartupFails, closeInstance
<1>7. QED BY <1>3, <1>5, <1>6 DEF OnStartupDone

\* Forgetting, whoever does it: what is dropped holds nothing any more.
LEMMA Forgets ==
  ASSUME RefInv, NEW S \in SUBSET Obsolete(live), live' = forget(live, S),
         \A g \in S : ~Held(g) /\ ~Held(g)',
         \A g \in Gen \ S : Held(g)' <=> Held(g)
  PROVE  Generations!Next
<1>1. /\ live'.status = [g \in Gen |-> IF g \in S THEN "none" ELSE live.status[g]]
      /\ live'.owner = [g \in Gen |-> IF g \in S THEN NoGen ELSE live.owner[g]]
      /\ live'.providers = [g \in Gen |-> IF g \in S THEN {} ELSE live.providers[g]]
  BY DEF forget
<1>2. ASSUME NEW g \in Gen, g \in S PROVE Generations!Forgotten(g)
  BY <1>1, <1>2 DEF Generations!Forgotten, Held, Obsolete
<1>3. ASSUME NEW g \in Gen, g \notin S PROVE Generations!Stays(g)
  BY <1>1, <1>3, Undisturbed
<1>4. QED BY <1>2, <1>3 DEF Generations!Next

LEMMA StopForgetsRefines ==
  ASSUME RefInv, NEW g \in Gen, StopForgets(g)
  PROVE  Generations!Next
<1> DEFINE gone == ownedSubtree(g)
<1>1. /\ live' = forget(live, gone)
      /\ scope' = [h \in Gen |-> IF h \in gone THEN "none" ELSE scope[h]]
      /\ start' = start
      /\ stop[g] = "closing" /\ closing[g] = "done"
      /\ IInv /\ ScopeInv /\ LiveInv(live)
      /\ g \in Obsolete(live)
  BY DEF StopForgets, RefInv, IInv, StopFibersDrain
<1>2. gone \subseteq Obsolete(live)
  BY <1>1, OwnedSubtreeDrains
<1>3. \A h \in gone : scope[h] = "closed" /\ start[h] # "running"
  BY <1>1, SubtreeIsFinalized
<1> HIDE DEF gone
<1>4. \A h \in gone : h \in Gen /\ ~Held(h) /\ ~Held(h)'
  BY <1>1, <1>2, <1>3 DEF Held, Obsolete
<1>5. \A h \in Gen \ gone : Held(h)' <=> Held(h)
  BY <1>1 DEF Held
<1>6. QED BY <1>1, <1>2, <1>4, <1>5, Forgets

LEMMA ShutdownForgetsRefines ==
  ASSUME RefInv, ShutdownForgets
  PROVE  Generations!Next
<1>1. /\ live' = forget(live, All(live))
      /\ scope' = [g \in Gen |-> "none"] /\ start' = [g \in Gen |-> "none"]
      /\ \A g \in Gen : start[g] # "running"
      /\ \A g \in All(live) : scope[g] = "closed"
      /\ phase = "closing"
  BY DEF ShutdownForgets
<1>2. All(live) \subseteq Obsolete(live)
  BY <1>1 DEF RefInv, IInv, ClosingHasNoAuthority, TypeOK, LiveState, Lifecycle, All,
              Obsolete, Authority
<1>3. \A g \in All(live) : ~Held(g) /\ ~Held(g)'
  BY <1>1 DEF Held, All
<1>4. \A g \in Gen \ All(live) : Held(g)' <=> Held(g)
  BY <1>1, WhoHolds DEF Held, All
<1>5. QED BY <1>1, <1>2, <1>3, <1>4, Forgets

\* A pass: what it retires goes with all that stands on it, what it admits stands
\* on what runs before and after, in a slot that is empty before and after.
LEMMA ReconcilePassRefines ==
  ASSUME RefInv, ReconcilePass
  PROVE  Generations!Next
<1>1. IInv /\ LiveInv(live) /\ live \in LiveState /\ IInv' /\ SlotsExclusive(live')
      /\ live' \in LiveState
  <2>1. IInv /\ IInv'
    BY ReconcilePassKeepsIInv DEF RefInv
  <2>2. QED BY <2>1 DEF IInv, LiveInv
<1>2. /\ live'.status = [g \in Gen |-> IF g \in Admitted THEN "starting"
                           ELSE IF g \in invalidate THEN "stopping" ELSE live.status[g]]
      /\ live'.owner = [g \in Gen |-> IF g \in Admitted THEN Owners[IdentOf(g)]
                                      ELSE live.owner[g]]
      /\ live'.providers = [g \in Gen |-> IF g \in Admitted THEN Providers[IdentOf(g)]
                                          ELSE live.providers[g]]
      /\ scope' = [g \in Gen |-> IF g \in Admitted THEN "open"
                                 ELSE scopeAfter(ownStops(invalidate))[g]]
      /\ start' = [g \in Gen |-> IF g \in Admitted THEN "running" ELSE start[g]]
  BY <1>1, ReconcilePassFields, ReconcilePassAssigns
<1>3. \A g \in Admitted : g \in Gen /\ IdentOf(g) \in Admissions /\ Unused(g)
                          /\ live.status[g] = "none"
  BY <1>1, TrackedFields DEF Unused
<1>4. \A g \in Gen \ Admitted : Held(g)' <=> Held(g)
  BY <1>2, ClaimsGoOnHolding DEF Held
<1>5. /\ invalidate \subseteq Authority(live) /\ invalidate \subseteq Gen
      /\ \A h \in invalidate :
           (live.children[h] \cup live.dependents[h]) \cap Authority(live) \subseteq invalidate
  BY InvalidateIsClosed DEF Authority
<1>6. ASSUME NEW g \in Gen, g \in Admitted PROVE Generations!Admitted(g)
  <2>1. IdentOf(g) \in Admissions /\ live.status[g] = "none" /\ live'.status[g] = "starting"
    BY <1>2, <1>3, <1>6
  <2>2. /\ Stands(g)' = Providers[IdentOf(g)] \cup ({Owners[IdentOf(g)]} \ {NoGen})
        /\ Held(g)'
    BY <1>2, <1>6 DEF Stands, Held
  <2>3. ASSUME NEW h \in Stands(g)'
        PROVE  h \in Gen /\ live.status[h] = "running" /\ live'.status[h] = "running"
    <3>1. h \in Gen /\ Drained.status[h] = "running"
      BY <1>1, <2>1, <2>2, TrackedFields
    <3>2. live.status[h] = "running" /\ h \notin invalidate
      BY <1>1, <3>1, DrainedFields
    <3>3. QED BY <1>2, <1>3, <3>1, <3>2
  <2>4. ASSUME NEW h \in Gen, h # g, Sequential(g), Sequential(h), SlotOf(g) = SlotOf(h)
        PROVE  live.status[h] = "none" /\ live'.status[h] = "none"
    <3>1. g \in All(live')
      BY <2>1 DEF All
    <3>2. h \notin All(live')
      BY <1>1, <2>4, <3>1 DEF SlotsExclusive
    <3>3. live'.status[h] = "none"
      BY <3>2 DEF All
    <3>4. live.status[h] = "none"
      BY <1>2, <3>3
    <3>5. QED BY <3>3, <3>4
  <2>5. QED BY <2>1, <2>2, <2>3, <2>4 DEF Generations!Admitted, Stands, Held
<1>7. ASSUME NEW g \in Gen, g \in invalidate PROVE Generations!Retired(g)
  <2>1. live.status[g] \in {"starting", "running", "failed"} /\ g \notin Admitted
    BY <1>3, <1>5, <1>7 DEF Authority
  <2>2. ASSUME NEW d \in Gen, g \in Stands(d),
               live.status[d] \in {"starting", "running", "failed"}
        PROVE  d \in invalidate /\ d \notin Admitted
    <3>1. d \in Authority(live) /\ d \in All(live)
      BY <2>2 DEF Authority, All
    <3>2. d \in live.children[g] \cup live.dependents[g]
      BY <1>1, <2>2, <3>1 DEF Stands, LiveInv, IndexesConsistent, EdgesAgree
    <3>3. QED BY <1>3, <1>5, <1>7, <2>2, <3>1, <3>2
  <2>3. Held(g)' => Held(g)
    BY <1>4, <2>1
  <2>4. QED
    BY <1>2, <1>7, <2>1, <2>2, <2>3 DEF Generations!Retired, Generations!Live, Stands, Held
<1>8. ASSUME NEW g \in Gen, g \notin Admitted, g \notin invalidate PROVE Generations!Stays(g)
  BY <1>2, <1>4, <1>8, Undisturbed
<1>9. QED BY <1>6, <1>7, <1>8 DEF Generations!Next

\* Every step of the controller is a step of Lifetimes.
LEMMA NextRefines ==
  ASSUME RefInv, [Next]_vars
  PROVE  Generations!Next
<1>1. CASE \/ UNCHANGED vars \/ Terminated \/ (\E d \in Desire : Commit(d))
           \/ (\E g \in Gen : CleanupWakes(g) \/ StopWakes(g))
           \/ LoopWakes \/ LoopInterrupted \/ ClosedPass \/ ShutdownSignals
  <2>1. UNCHANGED <<scope, start>>
    BY <1>1 DEF Commit, CleanupWakes, StopWakes, LoopWakes, LoopInterrupted, ClosedPass,
                ShutdownSignals, Terminated, vars, scopes, fibers
  <2>2. live' = live \/ live' = [live EXCEPT !.moved = FALSE]
    BY <1>1 DEF Commit, CleanupWakes, StopWakes, LoopWakes, LoopInterrupted, ClosedPass,
                ShutdownSignals, Terminated, vars
  <2>3. QED BY <2>1, <2>2, AbstractlyNothing
<1>2. CASE Startup
  BY <1>2, StartExitsRefines DEF Startup
<1>3. CASE \E i \in Retryable : Retry(i)
  BY <1>3, RetryRefines
<1>4. CASE BeginShutdown \/ ShutdownForgets \/ ReconcilePass
  BY <1>4, BeginShutdownRefines, ShutdownForgetsRefines, ReconcilePassRefines
<1>5. CASE \E g \in Gen : OnStartupDone(g) \/ TimerFires(g) \/ OwnerClosesChild(g)
                          \/ FinalizersRun(g) \/ StopForgets(g)
  BY <1>5, OnStartupDoneRefines, TimerFiresRefines, OwnerClosesChildRefines,
     FinalizersRunRefines, StopForgetsRefines
<1>6. QED BY <1>1, <1>2, <1>3, <1>4, <1>5 DEF Next, Application, Runtime

\* The runtime's passes, Scopes, fibers and indexes implement what Lifetimes says
\* of generations: admitted onto what runs into an empty slot, retired together
\* with all that stands on it, forgotten once what it held is gone.
THEOREM ControllerImplementsLifetimes == Spec => ImplementsLifetimes
<1>1. Init => Generations!Init
  <2> SUFFICES ASSUME Init PROVE Generations!Init
    OBVIOUS
  <2>1. /\ live.status = [g \in Gen |-> "none"]
        /\ \A g \in Gen : live.providers[g] \cup ({live.owner[g]} \ {NoGen}) = {}
    BY DEF Init, makeLiveState
  <2>2. \A g \in Gen : ~(scope[g] \in {"open", "closing"} \/ start[g] = "running")
    BY DEF Init
  <2>3. [g \in Gen |-> scope[g] \in {"open", "closing"} \/ start[g] = "running"]
          = [g \in Gen |-> FALSE]
    BY <2>2, Zenon
  <2>4. [g \in Gen |-> live.providers[g] \cup ({live.owner[g]} \ {NoGen})]
          = [g \in Gen |-> {}]
    BY <2>1
  <2>5. QED BY <2>1, <2>3, <2>4 DEF Generations!Init
<1>2. RefInv /\ [Next]_vars => [Generations!Next]_(Generations!vars)
  BY NextRefines
<1>3. QED BY <1>1, <1>2, RefinementInvariant, PTL DEF Spec, ImplementsLifetimes, Generations!Spec

-----------------------------------------------------------------------------
(***************************************************************************)
(* What is owed.                                                           *)
(***************************************************************************)
\* A step that leaves alone what passes read, wakes nobody and is no pass.
Idles == /\ UNCHANGED <<phase, desired, matched, live, outOfBand, seen>>
         /\ owed => owed'
         /\ \A g \in Gen : stop[g] = "wake" => stop'[g] = "wake" \/ owed'

\* Every step idles, is a pass, closes the controller, or asks for a pass: at
\* once, or through the stop fiber that forgot something.
LEMMA StepsAsk ==
  ASSUME TypeOK, [Next]_vars
  PROVE  \/ Idles
         \/ ReconcilePass
         \/ owed' /\ phase' = phase
         \/ (\E g \in Gen : stop'[g] = "wake") /\ phase' = phase
         \/ phase' # "open" /\ (live'.moved => phase' \in {"closing", "forgotten"})
<1> USE DEF Idles, wakeUp
<1>1. CASE UNCHANGED vars \/ Terminated
  BY <1>1 DEF Terminated, vars, fibers, loops
<1>2. CASE Application
  <2>1. ASSUME NEW d \in Desire, Commit(d) PROVE owed' /\ phase' = phase
    BY <2>1 DEF Commit
  <2>2. ASSUME NEW i \in Retryable, Retry(i) PROVE owed' /\ phase' = phase
    BY <2>2 DEF Retry, RetireOutOfBand
  <2>3. ASSUME BeginShutdown PROVE phase' = "closing"
    BY <2>3 DEF BeginShutdown
  <2>4. QED BY <1>2, <2>1, <2>2, <2>3 DEF Application
<1>3. CASE Startup
  BY <1>3 DEF Startup, StartExits, loops
<1>4. ASSUME NEW g \in Gen, OnStartupDone(g) PROVE Idles \/ (owed' /\ phase' = phase)
  BY <1>4 DEF OnStartupDone, StartupIsLate, StartupIsSuperseded, StartupSucceeds,
              StartupFails, loops
<1>5. ASSUME NEW g \in Gen, CleanupWakes(g) \/ StopWakes(g) PROVE owed' /\ phase' = phase
  BY <1>5 DEF CleanupWakes, StopWakes
<1>6. ASSUME NEW g \in Gen, TimerFires(g) PROVE Idles \/ (owed' /\ phase' = phase)
  BY <1>6 DEF TimerFires, RetireOutOfBand, loops
<1>7. ASSUME NEW g \in Gen, OwnerClosesChild(g) \/ FinalizersRun(g) PROVE Idles
  BY <1>7 DEF OwnerClosesChild, FinalizersRun, fibers, loops
<1>8. ASSUME NEW g \in Gen, StopForgets(g) PROVE stop'[g] = "wake" /\ phase' = phase
  BY <1>8 DEF StopForgets, TypeOK
<1>9. CASE LoopWakes \/ LoopInterrupted
  BY <1>9 DEF LoopWakes, LoopInterrupted, fibers
<1>10. CASE ClosedPass \/ ShutdownSignals
  <2>1. phase' # "open" /\ live'.moved = FALSE
    BY <1>10 DEF ClosedPass, ShutdownSignals, TypeOK, LiveState
  <2>2. QED BY <2>1
<1>11. CASE ShutdownForgets
  BY <1>11 DEF ShutdownForgets
<1>12. CASE Runtime
  BY <1>4, <1>5, <1>6, <1>7, <1>8, <1>9, <1>10, <1>11, <1>12 DEF Runtime
<1>13. QED BY <1>1, <1>2, <1>3, <1>12 DEF Next

\* A movement is signalled by the pass it owes, the pass a stop fiber is about to
\* ask for, or shutdown (controller.ts: publishChanges; liveState.ts: version).
THEOREM NoChangeIsLost == Spec => []NoLostChange
<1>1. Init => NoLostChange
  BY DEF Init, NoLostChange, makeLiveState
<1>2. ASSUME IInv, NoLostChange, [Next]_vars PROVE NoLostChange'
  <2>1. CASE Idles
    BY <1>2, <2>1 DEF Idles, NoLostChange
  <2>2. CASE ReconcilePass
    BY <1>2, <2>2, ReconcilePassFields DEF NoLostChange
  <2>3. CASE phase' # "open" /\ (live'.moved => phase' \in {"closing", "forgotten"})
    BY <2>3 DEF NoLostChange
  <2>4. CASE owed' \/ \E g \in Gen : stop'[g] = "wake"
    BY <2>4 DEF NoLostChange
  <2>5. TypeOK
    BY <1>2 DEF IInv
  <2>6. QED BY <1>2, <2>1, <2>2, <2>3, <2>4, <2>5, StepsAsk
<1>3. QED BY <1>1, <1>2, InductiveInvariant, PTL DEF Spec

\* A pass leaves nothing to retire: everything with authority is matched.
LEMMA PassRetiresAll ==
  ASSUME IInv, ReconcilePass
  PROVE  invalidate' = {}
<1>1. matched' = Authority(live)' /\ outOfBand' = {}
  <2>1. Tracked \in LiveState /\ Authority(Tracked) = Kept \cup Admitted
    BY TrackedFields DEF LiveInv
  <2>2. Authority(live)' = Kept \cup Admitted
    BY <2>1, MovedKeeps, ReconcilePassAssigns
  <2>3. QED BY <2>2, ReconcilePassAssigns
<1>2. Withdrawn' = {}
  BY <1>1 DEF Withdrawn
<1>3. Cascades({})'
  BY <1>1, <1>2 DEF Cascades
<1>4. QED BY <1>3 DEF invalidate

\* ... nothing to admit: what could be admitted now could have been in the pass,
\* because what the pass admitted does not run yet ...
LEMMA PassAdmitsAll ==
  ASSUME IInv, ReconcilePass
  PROVE  admissions(live, Authority(live))' = {}
<1>1. /\ LiveInv(Drained) /\ Drained \in LiveState
      /\ Tracks(Drained, Tracked, Admissions, Admit, Owners, Providers)
      /\ Tracked \in LiveState /\ Authority(Tracked) = Kept \cup Admitted
      /\ desired' = desired /\ Wanted' = Wanted
      /\ live' = [Tracked EXCEPT !.moved = FALSE]
  BY TrackedFields, DrainedFields, ReconcilePassAssigns DEF LiveInv, Wanted
<1>2. /\ live'.status = Tracked.status /\ live'.currentByIdent = Tracked.currentByIdent
      /\ live'.current = Tracked.current /\ live'.retiring = Drained.retiring
      /\ Authority(live') = Kept \cup Admitted
  BY <1>1, MovedKeeps DEF LiveState, Tracks
<1>3. /\ Tracked.status = [g \in Gen |-> IF g \in Admitted THEN "starting"
                                         ELSE Drained.status[g]]
      /\ Tracked.currentByIdent = [i \in Ident |-> IF i \in Admissions THEN Admit[i]
                                                   ELSE Drained.currentByIdent[i]]
      /\ \A s \in Slot : (\A i \in Admissions : SlotIdent(i) # s)
                           => Tracked.current[s] = Drained.current[s]
      /\ \A i \in Admissions : Tracked.current[SlotIdent(i)] = Admit[i]
  BY <1>1 DEF Tracks, Admitted
<1>4. /\ Admit \in [Admissions -> Gen] /\ \A i \in Admissions : IdentOf(Admit[i]) = i
      /\ \A i \in Admissions : Admit[i] \in Admitted
  BY AdmitNames DEF Admitted, Fresh
<1>5. Wanted \subseteq Ident /\ \A i \in Wanted : IsRoot(i) \/ Parent(i) \in Ident
  BY DesiredIsCoherent DEF IInv, TypeOK, Coherent
<1>6. ASSUME NEW j \in Ident, NEW g \in Gen, live'.currentByIdent[j] = g,
             live'.status[g] = "running"
      PROVE  Drained.currentByIdent[j] = g /\ Drained.status[g] = "running"
  <2>1. g \notin Admitted
    BY <1>2, <1>3, <1>6
  <2>2. j \notin Admissions
    BY <1>2, <1>3, <1>4, <1>6, <2>1
  <2>3. QED BY <1>2, <1>3, <1>6, <2>1, <2>2
<1>7. SUFFICES ASSUME NEW i \in Wanted, i \notin {IdentOf(g) : g \in Authority(live')},
                      admissible(live, i)'
               PROVE  FALSE
  BY <1>1 DEF admissions
<1>8. i \in Ident /\ SlotIdent(i) \in Slot
  BY <1>5, <1>7 DEF Slot
<1>9. i \notin Admissions
  BY <1>2, <1>4, <1>7
<1>10. Drained.current[SlotIdent(i)] = NoGen
       /\ (FamilyOf(i) \in Overlap \/ Drained.retiring[SlotIdent(i)] = {})
  <2>1. live'.current[SlotIdent(i)] = NoGen
        /\ (FamilyOf(i) \in Overlap \/ live'.retiring[SlotIdent(i)] = {})
    BY <1>7 DEF admissible
  <2>2. \A j \in Admissions : SlotIdent(j) # SlotIdent(i)
    BY <1>2, <1>3, <1>4, <2>1, NoGenAssumption
  <2>3. QED BY <1>2, <1>3, <1>8, <2>1, <2>2
<1>11. IsRoot(i) \/ /\ CurrentOwner(Drained, i) # NoGen
                    /\ Drained.status[CurrentOwner(Drained, i)] = "running"
  <2> SUFFICES ASSUME ~IsRoot(i)
               PROVE  /\ CurrentOwner(Drained, i) # NoGen
                      /\ Drained.status[CurrentOwner(Drained, i)] = "running"
    OBVIOUS
  <2>1. /\ live'.currentByIdent[Parent(i)] # NoGen
        /\ live'.status[live'.currentByIdent[Parent(i)]] = "running"
        /\ CurrentOwner(Drained, i) = Drained.currentByIdent[Parent(i)]
    BY <1>7 DEF admissible, CurrentOwner
  <2>2. Parent(i) \in Ident /\ live'.currentByIdent[Parent(i)] \in Gen
    BY <1>1, <1>2, <1>5, <1>7, <2>1 DEF LiveState
  <2>3. QED BY <1>6, <2>1, <2>2
<1>12. ASSUME NEW p \in Requires[FamilyOf(i)]
       PROVE  /\ resolveProvider(Drained, i, p) # {}
              /\ \A h \in resolveProvider(Drained, i, p) : Drained.status[h] = "running"
  <2> DEFINE C == Candidates(Wanted, i, p)
             now == {live'.currentByIdent[j] : j \in C} \ {NoGen}
             then == {Drained.currentByIdent[j] : j \in C} \ {NoGen}
  <2>1. C \subseteq Ident
    BY <1>5 DEF Candidates
  <2>2. now # {} /\ \A h \in now : live'.status[h] = "running"
    BY <1>1, <1>7 DEF admissible, resolveProvider
  <2>3. resolveProvider(Drained, i, p) = then
    BY DEF resolveProvider
  <2> HIDE DEF C
  <2>4. \A j \in C : j \in Ident /\ live'.currentByIdent[j] \in Gen \cup {NoGen}
                     /\ Drained.currentByIdent[j] \in Gen \cup {NoGen}
    BY <1>1, <1>2, <2>1 DEF LiveState
  <2>5. ASSUME NEW j \in C, live'.currentByIdent[j] # NoGen
        PROVE  /\ Drained.currentByIdent[j] = live'.currentByIdent[j]
               /\ Drained.status[live'.currentByIdent[j]] = "running"
    <3>1. live'.currentByIdent[j] \in Gen /\ live'.status[live'.currentByIdent[j]] = "running"
      BY <2>2, <2>4, <2>5
    <3>2. QED BY <1>6, <2>4, <3>1
  <2>6. ASSUME NEW j \in C, live'.currentByIdent[j] = NoGen
        PROVE  Drained.currentByIdent[j] = NoGen
    <3>1. j \notin Admissions
      BY <1>2, <1>3, <1>4, <2>4, <2>6, NoGenAssumption
    <3>2. QED BY <1>2, <1>3, <2>4, <2>6, <3>1
  <2>7. \A j \in C : Drained.currentByIdent[j] = live'.currentByIdent[j]
    BY <2>5, <2>6
  <2>8. then # {} /\ \A h \in then : Drained.status[h] = "running"
    BY <2>2, <2>5, <2>7
  <2>9. QED BY <2>3, <2>8
<1>13. admissible(Drained, i)
  BY <1>10, <1>11, <1>12 DEF admissible
<1>14. i \notin {IdentOf(g) : g \in Kept}
  BY <1>2, <1>7
<1>15. QED BY <1>9, <1>13, <1>14 DEF Admissions, admissions

\* ... and nothing to tell.
LEMMA PassTellsAll ==
  ASSUME IInv, ReconcilePass
  PROVE  \A g \in Authority(live)' : seen'[g] = desired'[IdentOf(g)]
<1>1. Tracked \in LiveState /\ Authority(Tracked) = Kept \cup Admitted
  BY TrackedFields DEF LiveInv
<1>2. Authority(live)' = Kept \cup Admitted
  BY <1>1, MovedKeeps, ReconcilePassAssigns
<1>3. Authority(live)' \subseteq Gen
  BY DEF Authority
<1>4. QED BY <1>2, <1>3, ReconcilePassAssigns

\* No wake is lost: with no pass owed and none about to be, a pass would retire
\* nothing, admit nothing and tell nobody anything (controller.ts: wake,
\* runReconcileLoop, reconcilePass).
THEOREM NothingToDoUnlessOwed == Spec => []NothingOwedNothingToDo
<1>1. Init => NothingOwedNothingToDo
  <2> SUFFICES ASSUME Init PROVE NothingOwedNothingToDo
    OBVIOUS
  <2>1. Authority(live) = {} /\ Wanted = {} /\ outOfBand = {}
    BY MakeLiveState DEF Init, Wanted, EmptySnapshot
  <2>2. QED BY <2>1 DEF NothingOwedNothingToDo, invalidate, admissions
<1>2. ASSUME IInv, NothingOwedNothingToDo, [Next]_vars PROVE NothingOwedNothingToDo'
  <2>1. CASE Idles
    <3>1. CASE owed' \/ \E g \in Gen : stop'[g] = "wake"
      BY <3>1 DEF NothingOwedNothingToDo
    <3>2. CASE ~owed' /\ \A g \in Gen : stop'[g] # "wake"
      <4>1. ~owed /\ \A g \in Gen : stop[g] # "wake"
        BY <2>1, <3>2 DEF Idles
      <4>2. UNCHANGED <<phase, desired, matched, live, outOfBand, seen>>
        BY <2>1 DEF Idles
      <4>3. invalidate' = invalidate
            /\ admissions(live, Authority(live))' = admissions(live, Authority(live))
            /\ (\A g \in Authority(live) : seen[g] = desired[IdentOf(g)])'
                 = (\A g \in Authority(live) : seen[g] = desired[IdentOf(g)])
        BY <4>2 DEF invalidate, Cascades, Withdrawn, admissions, admissible, CurrentOwner,
                    resolveProvider, Wanted, Authority
      <4>4. QED BY <1>2, <4>1, <4>2, <4>3 DEF NothingOwedNothingToDo
    <3>3. QED BY <3>1, <3>2
  <2>2. CASE ReconcilePass
    BY <1>2, <2>2, PassRetiresAll, PassAdmitsAll, PassTellsAll DEF NothingOwedNothingToDo
  <2>3. CASE phase' # "open" \/ owed' \/ \E g \in Gen : stop'[g] = "wake"
    BY <2>3 DEF NothingOwedNothingToDo
  <2>4. TypeOK
    BY <1>2 DEF IInv
  <2>5. QED BY <1>2, <2>1, <2>2, <2>3, <2>4, StepsAsk
<1>3. QED BY <1>1, <1>2, InductiveInvariant, PTL DEF Spec

-----------------------------------------------------------------------------
(***************************************************************************)
(* Backoffs.                                                               *)
(***************************************************************************)
\* No backoff is asleep for a generation that has not failed yet.
SleepFollowsFailure ==
  \A g \in Gen : live.status[g] \in {"starting", "running"} => ~timer[g]

BackoffInv == SleepFollowsFailure /\ EffectiveBackoffIsCounted

\* Two generations with authority never share an identity.
LEMMA OneHolderPerIdentity ==
  ASSUME IInv, NEW g \in Authority(live), NEW h \in Authority(live), IdentOf(g) = IdentOf(h)
  PROVE  g = h
<1>1. g \in Gen /\ h \in Gen
  BY DEF Authority
<1>2. IdentOf(g) \in Ident
  BY <1>1 DEF Gen, IdentOf
<1>3. QED BY <1>1, <1>2 DEF IInv, LiveInv, IndexesConsistent, IdentIndexAgrees

\* What leaves the counts alone, starts no backoff and lets nothing fail or start.
LEMMA CountsStand ==
  ASSUME BackoffInv, UNCHANGED supervisors, \A g \in Gen : timer'[g] => timer[g],
         \A g \in Gen : live'.status[g] \in {"starting", "running", "failed"}
                          => live'.status[g] = live.status[g]
  PROVE  BackoffInv'
BY DEF BackoffInv, SleepFollowsFailure, EffectiveBackoffIsCounted

\* What retires whoever it resets the count of.
LEMMA CountsReset ==
  ASSUME IInv, BackoffInv, NEW S \in SUBSET Authority(live), UNCHANGED timer,
         \A g \in Gen : live'.status[g] \in {"starting", "running", "failed"}
                          => live'.status[g] = live.status[g] /\ g \notin S,
         supervisors' = [i \in Ident |-> IF \E g \in S : IdentOf(g) = i THEN NotStarted
                                         ELSE supervisors[i]]
  PROVE  BackoffInv'
<1>1. SleepFollowsFailure'
  BY DEF BackoffInv, SleepFollowsFailure
<1>2. ASSUME NEW g \in Gen, timer'[g], live'.status[g] = "failed"
      PROVE  supervisors'[IdentOf(g)] \in 1..MaxRestarts
  <2>1. live.status[g] = "failed" /\ g \notin S /\ g \in Authority(live)
    BY <1>2 DEF Authority
  <2>2. ~ \E h \in S : IdentOf(h) = IdentOf(g)
    BY <2>1, OneHolderPerIdentity
  <2>3. IdentOf(g) \in Ident
    BY DEF Gen, IdentOf
  <2>4. supervisors'[IdentOf(g)] = supervisors[IdentOf(g)]
    BY <2>2, <2>3
  <2>5. QED BY <1>2, <2>1, <2>4 DEF BackoffInv, EffectiveBackoffIsCounted
<1>3. QED BY <1>1, <1>2 DEF BackoffInv, EffectiveBackoffIsCounted

LEMMA RetryKeepsBackoffInv ==
  ASSUME IInv, BackoffInv, NEW i \in Retryable, Retry(i)
  PROVE  BackoffInv'
<1> DEFINE g == live.currentByIdent[i]
<1>1. /\ g \in Gen /\ live.status[g] = "failed" /\ i \in Ident
      /\ live' = retire(live, {g}) /\ timer' = timer
      /\ supervisors' = [supervisors EXCEPT ![i] = NotStarted]
      /\ supervisors \in [Ident -> 0..MaxRestarts + 1] /\ live \in LiveState
  BY ControllerAssumption DEF Retry, RetireOutOfBand, IInv, LiveInv, LiveState, TypeOK
<1>2. IdentOf(g) = i
  BY <1>1 DEF IInv, LiveInv, IndexesConsistent, IdentIndexAgrees
<1> HIDE DEF g
<1>3. {g} \in SUBSET Authority(live)
  BY <1>1 DEF Authority
<1>4. live'.status = [h \in Gen |-> IF h \in {g} THEN "stopping" ELSE live.status[h]]
  BY <1>1 DEF retire, LiveState
<1>5. supervisors' = [j \in Ident |-> IF \E h \in {g} : IdentOf(h) = j THEN NotStarted
                                      ELSE supervisors[j]]
  BY <1>1, <1>2
<1>6. QED BY <1>1, <1>3, <1>4, <1>5, CountsReset

LEMMA BeginShutdownKeepsBackoffInv ==
  ASSUME IInv, BackoffInv, BeginShutdown
  PROVE  BackoffInv'
<1>1. live'.status = [h \in Gen |-> IF h \in Authority(live) THEN "stopping"
                                    ELSE live.status[h]]
  BY DEF BeginShutdown, retire, IInv, TypeOK, LiveState
<1>2. UNCHANGED timer
      /\ supervisors' = [i \in Ident |->
           IF \E g \in Authority(live) : IdentOf(g) = i THEN NotStarted ELSE supervisors[i]]
  BY DEF BeginShutdown, fibers
<1>3. QED BY <1>1, <1>2, CountsReset

LEMMA ReconcilePassKeepsBackoffInv ==
  ASSUME IInv, BackoffInv, ReconcilePass
  PROVE  BackoffInv'
<1>1. /\ live'.status = [g \in Gen |-> IF g \in Admitted THEN "starting"
                           ELSE IF g \in invalidate THEN "stopping" ELSE live.status[g]]
      /\ timer' = timer
      /\ supervisors' = [i \in Ident |->
           IF \E g \in invalidate : IdentOf(g) = i THEN NotStarted ELSE supervisors[i]]
      /\ \A g \in Admitted : g \in Gen /\ ~timer[g]
      /\ invalidate \subseteq Authority(live)
  BY ReconcilePassFields, ReconcilePassAssigns, TrackedFields DEF Unused, invalidate
<1>2. SleepFollowsFailure'
  BY <1>1 DEF BackoffInv, SleepFollowsFailure
<1>3. ASSUME NEW g \in Gen, timer'[g], live'.status[g] = "failed"
      PROVE  supervisors'[IdentOf(g)] \in 1..MaxRestarts
  <2>1. live.status[g] = "failed" /\ g \notin invalidate /\ g \in Authority(live)
    BY <1>1, <1>3 DEF Authority
  <2>2. ~ \E h \in invalidate : IdentOf(h) = IdentOf(g)
    BY <1>1, <2>1, OneHolderPerIdentity
  <2>3. IdentOf(g) \in Ident
    BY DEF Gen, IdentOf
  <2>4. QED BY <1>1, <1>3, <2>1, <2>2, <2>3 DEF BackoffInv, EffectiveBackoffIsCounted
<1>4. QED BY <1>2, <1>3 DEF BackoffInv, EffectiveBackoffIsCounted

\* A completion that fails sleeps on the attempt it consumes; one that succeeds
\* resets the count of the only generation that could be asleep on it.
LEMMA OnStartupDoneKeepsBackoffInv ==
  ASSUME IInv, BackoffInv, NEW g \in Gen, OnStartupDone(g)
  PROVE  BackoffInv'
<1>1. CASE StartupIsLate(g) \/ StartupIsSuperseded(g)
  BY <1>1, CountsStand DEF StartupIsLate, StartupIsSuperseded
<1>2. /\ live \in LiveState /\ live.status \in [Gen -> Lifecycle]
      /\ supervisors \in [Ident -> 0..MaxRestarts + 1] /\ timer \in [Gen -> BOOLEAN]
      /\ IdentOf(g) \in Ident /\ MaxRestarts \in Nat
  BY ControllerAssumption DEF IInv, TypeOK, LiveState, Gen, IdentOf
<1>3. ASSUME live.status[g] = "starting", NEW h \in Gen, h # g, live.status[h] = "failed"
      PROVE  IdentOf(h) # IdentOf(g)
  BY <1>3, OneHolderPerIdentity DEF Authority
<1>4. CASE StartupSucceeds(g)
  <2>1. /\ live.status[g] = "starting" /\ live' = concludeStartup(live, g, "running")
        /\ supervisors' = [supervisors EXCEPT ![IdentOf(g)] = NotStarted]
        /\ timer' = timer
    BY <1>4 DEF StartupSucceeds
  <2>2. live'.status = [live.status EXCEPT ![g] = "running"]
    BY <1>2, <2>1 DEF concludeStartup, LiveState
  <2>3. SleepFollowsFailure'
    BY <1>2, <2>1, <2>2 DEF BackoffInv, SleepFollowsFailure
  <2>4. ASSUME NEW h \in Gen, timer'[h], live'.status[h] = "failed"
        PROVE  supervisors'[IdentOf(h)] \in 1..MaxRestarts
    <3>1. h # g /\ live.status[h] = "failed"
      BY <1>2, <2>2, <2>4
    <3>2. supervisors'[IdentOf(h)] = supervisors[IdentOf(h)]
      BY <1>2, <1>3, <2>1, <3>1
    <3>3. QED BY <2>1, <2>4, <3>1, <3>2 DEF BackoffInv, EffectiveBackoffIsCounted
  <2>5. QED BY <2>3, <2>4 DEF BackoffInv, EffectiveBackoffIsCounted
<1>5. CASE StartupFails(g)
  <2>1. /\ live.status[g] = "starting" /\ live' = concludeStartup(live, g, "failed")
        /\ superviseFailure(g)
    BY <1>5 DEF StartupFails
  <2>2. live'.status = [live.status EXCEPT ![g] = "failed"]
    BY <1>2, <2>1 DEF concludeStartup, LiveState
  <2>3. \A h \in Gen : h # g => timer'[h] = timer[h]
    BY <1>2, <2>1 DEF superviseFailure
  <2>4. SleepFollowsFailure'
    BY <1>2, <2>2, <2>3 DEF BackoffInv, SleepFollowsFailure
  <2>5. ASSUME NEW h \in Gen, h # g, timer'[h], live'.status[h] = "failed"
        PROVE  supervisors'[IdentOf(h)] \in 1..MaxRestarts
    <3>1. live.status[h] = "failed" /\ timer[h]
      BY <1>2, <2>2, <2>3, <2>5
    <3>2. \A i \in Ident : i # IdentOf(g) => supervisors'[i] = supervisors[i]
      BY <1>2, <2>1 DEF superviseFailure
    <3>3. IdentOf(h) # IdentOf(g) /\ IdentOf(h) \in Ident
      BY <1>3, <2>1, <2>5, <3>1, GenSorts
    <3>4. QED BY <3>1, <3>2, <3>3 DEF BackoffInv, EffectiveBackoffIsCounted
  <2>6. ASSUME timer'[g]
        PROVE  supervisors'[IdentOf(g)] \in 1..MaxRestarts
    <3> DEFINE n == supervisors[IdentOf(g)]
               attempt == IF n > MaxRestarts THEN n ELSE n + 1
    <3>1. ~timer[g]
      BY <2>1 DEF BackoffInv, SleepFollowsFailure
    <3>2. /\ supervisors' = [supervisors EXCEPT ![IdentOf(g)] = attempt]
          /\ timer' = [timer EXCEPT ![g] = attempt <= MaxRestarts]
      BY <2>1, <2>6, <3>1 DEF superviseFailure
    <3>3. n \in 0..MaxRestarts + 1
      BY <1>2
    <3>4. attempt <= MaxRestarts /\ supervisors'[IdentOf(g)] = attempt
      BY <1>2, <2>6, <3>2
    <3>5. attempt \in 1..MaxRestarts
      BY <1>2, <3>3, <3>4
    <3>6. QED BY <3>4, <3>5
  <2>7. QED BY <2>4, <2>5, <2>6 DEF BackoffInv, EffectiveBackoffIsCounted
<1>6. QED BY <1>1, <1>4, <1>5 DEF OnStartupDone

LEMMA NextKeepsBackoffInv ==
  ASSUME IInv, BackoffInv, [Next]_vars
  PROVE  BackoffInv'
<1>1. live \in LiveState /\ live.status \in [Gen -> Lifecycle] /\ timer \in [Gen -> BOOLEAN]
  BY DEF IInv, TypeOK, LiveState
<1>2. CASE \/ UNCHANGED vars \/ Terminated \/ Startup \/ (\E d \in Desire : Commit(d))
           \/ (\E g \in Gen : \/ CleanupWakes(g) \/ StopWakes(g)
                              \/ OwnerClosesChild(g) \/ FinalizersRun(g))
           \/ LoopWakes \/ LoopInterrupted \/ ClosedPass \/ ShutdownSignals
  <2>1. UNCHANGED <<supervisors, timer>>
    BY <1>2 DEF Commit, Startup, StartExits, CleanupWakes, StopWakes, OwnerClosesChild,
                FinalizersRun, LoopWakes, LoopInterrupted, ClosedPass, ShutdownSignals,
                Terminated, vars, fibers
  <2>2. live' = live \/ live' = [live EXCEPT !.moved = FALSE]
    BY <1>2 DEF Commit, Startup, StartExits, CleanupWakes, StopWakes, OwnerClosesChild,
                FinalizersRun, LoopWakes, LoopInterrupted, ClosedPass, ShutdownSignals,
                Terminated, vars
  <2>3. live'.status = live.status
    BY <1>1, <2>2 DEF LiveState
  <2>4. QED BY <2>1, <2>3, CountsStand
<1>3. ASSUME NEW i \in Retryable, Retry(i) PROVE BackoffInv'
  BY <1>3, RetryKeepsBackoffInv
<1>4. CASE BeginShutdown \/ ReconcilePass
  BY <1>4, BeginShutdownKeepsBackoffInv, ReconcilePassKeepsBackoffInv
<1>5. ASSUME NEW g \in Gen, OnStartupDone(g) PROVE BackoffInv'
  BY <1>5, OnStartupDoneKeepsBackoffInv
<1>6. ASSUME NEW g \in Gen, TimerFires(g) PROVE BackoffInv'
  <2>1. UNCHANGED supervisors /\ \A h \in Gen : timer'[h] => timer[h]
    BY <1>1, <1>6 DEF TimerFires
  <2>2. live' = live \/ live' = retire(live, {g})
    BY <1>6 DEF TimerFires, RetireOutOfBand
  <2>3. live' = live
        \/ live'.status = [h \in Gen |-> IF h \in {g} THEN "stopping" ELSE live.status[h]]
    BY <1>1, <2>2 DEF retire, LiveState
  <2>4. \A h \in Gen : live'.status[h] \in {"starting", "running", "failed"}
                         => live'.status[h] = live.status[h]
    BY <2>3
  <2>5. QED BY <2>1, <2>4, CountsStand
<1>7. CASE ShutdownForgets \/ \E g \in Gen : StopForgets(g)
  <2>1. UNCHANGED supervisors /\ \A h \in Gen : timer'[h] => timer[h]
    BY <1>1, <1>7 DEF ShutdownForgets, StopForgets
  <2>2. \E S : live' = forget(live, S)
    BY <1>7 DEF ShutdownForgets, StopForgets
  <2>3. \A h \in Gen : live'.status[h] \in {"starting", "running", "failed"}
                         => live'.status[h] = live.status[h]
    BY <2>2 DEF forget
  <2>4. QED BY <2>1, <2>3, CountsStand
<1>8. QED
  BY <1>2, <1>3, <1>4, <1>5, <1>6, <1>7 DEF Next, Application, Runtime

\* No reset and no stale sleep leaves an uncounted attempt behind
\* (controller.ts: superviseFailure, retry, retire, publishSuccess).
THEOREM BackoffsAreCounted == Spec => []EffectiveBackoffIsCounted
<1>1. Init => BackoffInv
  BY DEF Init, BackoffInv, SleepFollowsFailure, EffectiveBackoffIsCounted
<1>2. IInv /\ BackoffInv /\ [Next]_vars => BackoffInv'
  BY NextKeepsBackoffInv
<1>3. BackoffInv => EffectiveBackoffIsCounted
  BY DEF BackoffInv
<1>4. QED BY <1>1, <1>2, <1>3, InductiveInvariant, PTL DEF Spec

-----------------------------------------------------------------------------
(***************************************************************************)
(* Between two passes: a completion decides as the pass would.             *)
(***************************************************************************)
\* The node j answers i's requirement on family p, if it is desired.
Answers(j, i, p) == j \in Candidates({j}, i, p)

\* What has authority is bound to an answer to each of its requirements.
RequirementsBound ==
  \A g \in Authority(live) : \A p \in Requires[FamilyOf(IdentOf(g))] :
    \E x \in live.providers[g] : Answers(IdentOf(x), IdentOf(g), p)

\* A generation retired between two passes has no authority when the next runs.
OutOfBandHasNone == outOfBand \cap Authority(live) = {}

BindingInv == RequirementsBound /\ OutOfBandHasNone

\* Only a pass gives authority, and it binds no generation anew.
LEMMA OthersBindNothing ==
  ASSUME IInv, [Next]_vars, ~ReconcilePass
  PROVE  /\ \A g \in Gen : live'.status[g] \in {"starting", "running", "failed"} =>
              /\ live.status[g] \in {"starting", "running", "failed"}
              /\ live'.providers[g] = live.providers[g]
         /\ \A g \in Gen : g \in outOfBand' =>
              g \in outOfBand \/ live'.status[g] = "stopping"
<1> DEFINE Least ==
      /\ \A g \in Gen : live'.status[g] \in {"starting", "running", "failed"} =>
           /\ live.status[g] \in {"starting", "running", "failed"}
           /\ live'.providers[g] = live.providers[g]
      /\ \A g \in Gen : g \in outOfBand' => g \in outOfBand \/ live'.status[g] = "stopping"
<1> SUFFICES Least
  OBVIOUS
<1>1. /\ live \in LiveState /\ live.status \in [Gen -> Lifecycle]
      /\ live.providers \in [Gen -> SUBSET Gen]
  BY DEF IInv, TypeOK, LiveState
<1>2. ASSUME live' = live \/ live' = [live EXCEPT !.moved = FALSE], UNCHANGED outOfBand
      PROVE  Least
  <2>1. live'.status = live.status /\ live'.providers = live.providers
    BY <1>1, <1>2 DEF LiveState
  <2>2. QED BY <1>2, <2>1
<1>3. ASSUME NEW S \in SUBSET Gen, live' = retire(live, S),
             outOfBand' = outOfBand \/ outOfBand' = outOfBand \cup S
      PROVE  Least
  <2>1. /\ live'.status = [g \in Gen |-> IF g \in S THEN "stopping" ELSE live.status[g]]
        /\ live'.providers = live.providers
    BY <1>1, <1>3 DEF retire, LiveState
  <2>2. QED BY <1>3, <2>1
<1>4. ASSUME NEW S, live' = forget(live, S), UNCHANGED outOfBand PROVE Least
  <2>1. /\ live'.status = [g \in Gen |-> IF g \in S THEN "none" ELSE live.status[g]]
        /\ live'.providers = [g \in Gen |-> IF g \in S THEN {} ELSE live.providers[g]]
    BY <1>4 DEF forget
  <2>2. QED BY <1>4, <2>1
<1>5. ASSUME NEW g \in Gen, NEW st \in {"running", "failed"}, live.status[g] = "starting",
             live' = concludeStartup(live, g, st), UNCHANGED outOfBand
      PROVE  Least
  <2>1. live'.status = [live.status EXCEPT ![g] = st] /\ live'.providers = live.providers
    BY <1>1, <1>5 DEF concludeStartup, LiveState
  <2>2. QED BY <1>1, <1>5, <2>1
<1>6. CASE \/ UNCHANGED vars \/ Terminated \/ Startup \/ (\E d \in Desire : Commit(d))
           \/ (\E g \in Gen : \/ CleanupWakes(g) \/ StopWakes(g)
                              \/ OwnerClosesChild(g) \/ FinalizersRun(g))
           \/ LoopWakes \/ LoopInterrupted \/ ClosedPass \/ ShutdownSignals
  <2>1. UNCHANGED outOfBand
    BY <1>6 DEF Commit, Startup, StartExits, CleanupWakes, StopWakes, OwnerClosesChild,
                FinalizersRun, LoopWakes, LoopInterrupted, ClosedPass, ShutdownSignals,
                Terminated, vars
  <2>2. live' = live \/ live' = [live EXCEPT !.moved = FALSE]
    BY <1>6 DEF Commit, Startup, StartExits, CleanupWakes, StopWakes, OwnerClosesChild,
                FinalizersRun, LoopWakes, LoopInterrupted, ClosedPass, ShutdownSignals,
                Terminated, vars
  <2>3. QED BY <2>1, <2>2, <1>2
<1>7. ASSUME NEW g \in Gen, RetireOutOfBand(g) PROVE Least
  BY <1>3, <1>7 DEF RetireOutOfBand
<1>8. ASSUME NEW i \in Retryable, Retry(i) PROVE Least
  <2>1. live.currentByIdent[i] \in Gen /\ RetireOutOfBand(live.currentByIdent[i])
    BY <1>1, <1>8, ControllerAssumption DEF Retry, LiveState
  <2>2. QED BY <1>7, <2>1
<1>9. ASSUME NEW g \in Gen, TimerFires(g) PROVE Least
  BY <1>2, <1>7, <1>9 DEF TimerFires
<1>10. CASE BeginShutdown
  BY <1>3, <1>10 DEF BeginShutdown, Authority
<1>11. CASE ShutdownForgets \/ \E g \in Gen : StopForgets(g)
  BY <1>4, <1>11 DEF ShutdownForgets, StopForgets
<1>12. ASSUME NEW g \in Gen, OnStartupDone(g) PROVE Least
  BY <1>2, <1>5, <1>12 DEF OnStartupDone, StartupIsLate, StartupIsSuperseded,
                           StartupSucceeds, StartupFails
<1> HIDE DEF Least
<1>13. CASE Application
  BY <1>6, <1>8, <1>10, <1>13 DEF Application
<1>14. CASE Runtime
  BY <1>6, <1>9, <1>11, <1>12, <1>14 DEF Runtime
<1>15. QED
  BY <1>6, <1>13, <1>14 DEF Next

\* What a pass admits it binds to a current answer to each requirement.
LEMMA PassKeepsBindingInv ==
  ASSUME IInv, BindingInv, ReconcilePass
  PROVE  BindingInv'
<1>1. /\ LiveInv(Drained) /\ Drained \in LiveState
      /\ Tracked \in LiveState /\ Authority(Tracked) = Kept \cup Admitted
      /\ \A g \in Admitted : g \in Gen /\ IdentOf(g) \in Admissions
  BY TrackedFields, DrainedFields DEF LiveInv
<1>2. Authority(live') = Kept \cup Admitted /\ outOfBand' = {}
  BY <1>1, MovedKeeps, ReconcilePassAssigns
<1>3. live'.providers = [g \in Gen |-> IF g \in Admitted THEN Providers[IdentOf(g)]
                                       ELSE live.providers[g]]
  BY ReconcilePassFields
<1>4. ASSUME NEW g \in Authority(live'), NEW p \in Requires[FamilyOf(IdentOf(g))]
      PROVE  \E x \in live'.providers[g] : Answers(IdentOf(x), IdentOf(g), p)
  <2>1. CASE g \notin Admitted
    <3>1. g \in Authority(live) /\ g \in Gen /\ live'.providers[g] = live.providers[g]
      BY <1>2, <1>3, <2>1 DEF Kept, Authority
    <3>2. QED BY <1>4, <3>1 DEF BindingInv, RequirementsBound
  <2>2. CASE g \in Admitted
    <3> DEFINE i == IdentOf(g)
    <3>1. /\ g \in Gen /\ i \in Admissions /\ i \in Wanted
          /\ admissible(Drained, i)
          /\ live'.providers[g] = CurrentProviders(Drained, i)
      BY <1>1, <1>3, <2>2 DEF Admissions, admissions, Providers
    <3>2. PICK x \in resolveProvider(Drained, i, p) : TRUE
      BY <1>4, <3>1 DEF admissible
    <3>3. PICK j \in Candidates(Wanted, i, p) : x = Drained.currentByIdent[j] /\ x # NoGen
      BY <3>2 DEF resolveProvider
    <3>4. Wanted \subseteq Ident
      BY DesiredIsCoherent DEF IInv, TypeOK, Coherent
    <3>5. j \in Ident /\ x \in Gen
      BY <1>1, <3>3, <3>4 DEF Candidates, LiveState
    <3>6. IdentOf(x) = j
      BY <1>1, <3>3, <3>5 DEF LiveInv, IndexesConsistent, IdentIndexAgrees
    <3>7. Answers(j, i, p)
      BY <3>3 DEF Answers, Candidates
    <3>8. x \in live'.providers[g]
      BY <1>4, <3>1, <3>2 DEF CurrentProviders
    <3>9. QED BY <3>6, <3>7, <3>8
  <2>3. QED BY <2>1, <2>2
<1>5. QED BY <1>2, <1>4 DEF BindingInv, RequirementsBound, OutOfBandHasNone

LEMMA NextKeepsBindingInv ==
  ASSUME IInv, BindingInv, [Next]_vars
  PROVE  BindingInv'
<1>1. CASE ReconcilePass
  BY <1>1, PassKeepsBindingInv
<1>2. CASE ~ReconcilePass
  <2>1. ASSUME NEW g \in Authority(live')
        PROVE  g \in Authority(live) /\ live'.providers[g] = live.providers[g]
               /\ (g \in outOfBand' => g \in outOfBand)
    BY <1>2, <2>1, OthersBindNothing DEF Authority
  <2>2. QED BY <2>1 DEF BindingInv, RequirementsBound, OutOfBandHasNone
<1>3. QED BY <1>1, <1>2

\* A generation a pass would keep stands on what it would keep, and is bound as
\* the published snapshot asks: the recursive check succeeds on all of them.
LEMMA KeptIsAuthoritative ==
  ASSUME IInv, BindingInv, NEW g \in Gen, live.status[g] = "starting", g \notin invalidate
  PROVE  startupIsAuthoritative(g)
<1> DEFINE S == {h \in Authority(live) \ invalidate : live.status[h] \in {"starting", "running"}}
<1>1. /\ live \in LiveState /\ IdentIndexAgrees(live) /\ EdgesAgree(live)
      /\ AuthoritySupported(live)
  BY DEF IInv, LiveInv, IndexesConsistent
<1>2. ASSUME NEW h \in Gen, live.status[h] = "running", NEW c \in S,
             h = live.owner[c] \/ h \in live.providers[c]
      PROVE  h \in S
  <2>1. h \in Authority(live) /\ c \in All(live) /\ c \in Authority(live)
    BY <1>2 DEF Authority, All
  <2>2. c \in live.children[h] \cup live.dependents[h]
    BY <1>1, <1>2, <2>1 DEF EdgesAgree
  <2>3. h \notin invalidate
    BY <1>2, <2>1, <2>2, InvalidateIsClosed
  <2>4. QED BY <1>2, <2>1, <2>3
<1>3. ASSUME NEW h \in S
      PROVE  /\ BoundAsDesired(h)
             /\ {live.owner[h]} \ {NoGen} \subseteq S
             /\ live.providers[h] \subseteq S
  <2> DEFINE i == IdentOf(h)
  <2>1. /\ h \in Authority(live) /\ h \in Gen /\ h \notin invalidate /\ i \in Ident
        /\ live.status[h] \in {"starting", "running"}
        /\ live.providers[h] \in SUBSET Gen /\ live.owner[h] \in Gen \cup {NoGen}
    BY <1>1, GenSorts DEF Authority, LiveState
  <2>2. i \in Wanted /\ live.currentByIdent[i] = h
    BY <1>1, <2>1, KeptIsDesired DEF IdentIndexAgrees
  <2>3. Supported(live, h)
    BY <1>1, <2>1 DEF AuthoritySupported
  <2>4. live.providers[h] \subseteq S
    BY <1>2, <2>1, <2>3 DEF Supported
  <2>5. {live.owner[h]} \ {NoGen} \subseteq S
    BY <1>2, <2>1, <2>3 DEF Supported
  <2>6. live.owner[h] = CurrentOwner(live, i) /\ (IsRoot(i) \/ live.owner[h] # NoGen)
    <3>1. CASE IsRoot(i)
      BY <2>3, <3>1 DEF Supported, CurrentOwner
    <3>2. CASE ~IsRoot(i)
      <4>1. /\ live.owner[h] \in Gen /\ live.owner[h] \in S
            /\ IdentOf(live.owner[h]) = Parent(i) /\ live.owner[h] # NoGen
        BY <2>1, <2>3, <2>5, <3>2 DEF Supported
      <4>2. Parent(i) \in Ident /\ live.owner[h] \in Authority(live)
        BY <4>1, GenSorts
      <4>3. live.currentByIdent[Parent(i)] = live.owner[h]
        BY <1>1, <4>1, <4>2 DEF IdentIndexAgrees
      <4>4. QED BY <3>2, <4>1, <4>3 DEF CurrentOwner
    <3>3. QED BY <3>1, <3>2
  <2>7. ASSUME NEW p \in Requires[FamilyOf(i)]
        PROVE  \E x \in resolveProvider(live, i, p) : x \in live.providers[h]
    <3>1. PICK x \in live.providers[h] : Answers(IdentOf(x), i, p)
      BY <2>1, <2>7 DEF BindingInv, RequirementsBound
    <3>2. x \in S /\ x \in Gen /\ x \in Authority(live) /\ IdentOf(x) \in Ident
      BY <2>1, <2>4, <3>1, GenSorts
    <3>3. IdentOf(x) \in Wanted /\ live.currentByIdent[IdentOf(x)] = x
      BY <1>1, <3>2, KeptIsDesired DEF IdentIndexAgrees
    <3>4. IdentOf(x) \in Candidates(Wanted, i, p)
      BY <3>1, <3>3 DEF Answers, Candidates
    <3>5. x \in resolveProvider(live, i, p)
      BY <3>2, <3>3, <3>4, NoGenAssumption DEF resolveProvider
    <3>6. QED BY <3>1, <3>5
  <2>8. BoundAsDesired(h)
    BY <2>1, <2>2, <2>6, <2>7 DEF BoundAsDesired
  <2>9. QED BY <2>4, <2>5, <2>8
<1>4. g \in S /\ S \in SUBSET Authority(live)
  BY DEF Authority
<1> HIDE DEF S
<1>5. QED BY <1>3, <1>4 DEF startupIsAuthoritative

\* What the check accepts no cascade reaches: everything else is closed under it.
LEMMA AuthoritativeIsKept ==
  ASSUME IInv, BindingInv, NEW g \in Gen, startupIsAuthoritative(g)
  PROVE  g \notin invalidate
<1>1. PICK S \in SUBSET Authority(live) :
        /\ g \in S
        /\ \A h \in S : /\ BoundAsDesired(h)
                        /\ {live.owner[h]} \ {NoGen} \subseteq S
                        /\ live.providers[h] \subseteq S
  BY DEF startupIsAuthoritative
<1> DEFINE R == Authority(live) \ S
<1>2. EdgesAgree(live) /\ live \in LiveState
  BY DEF IInv, LiveInv, IndexesConsistent
<1>3. Withdrawn \subseteq R
  BY <1>1 DEF Withdrawn, BoundAsDesired
<1>4. ASSUME NEW h \in R \cup outOfBand,
             NEW c \in (live.children[h] \cup live.dependents[h]) \cap Authority(live)
      PROVE  c \in R
  <2>1. h \in Gen /\ h \notin S
    BY <1>1, <1>4 DEF BindingInv, OutOfBandHasNone, Authority, IInv, TypeOK
  <2>2. live.owner[c] = h \/ h \in live.providers[c]
    BY <1>2, <1>4, <2>1 DEF EdgesAgree
  <2>3. c \notin S
    BY <1>1, <2>1, <2>2, NoGenAssumption
  <2>4. QED BY <1>4, <2>3
<1>5. Cascades(R) /\ R \in SUBSET Authority(live) /\ g \notin R
  BY <1>1, <1>3, <1>4 DEF Cascades
<1> HIDE DEF R
<1>6. QED BY <1>5 DEF invalidate

\* The completion's recursive check and the pass's cascade decide alike, whatever
\* was committed or retired in between (controller.ts: startupIsAuthoritative,
\* invalidate).
THEOREM CompletionDecidesAsPass == Spec => []CompletionCheckAgreesWithPass
<1>1. Init => BindingInv
  <2> SUFFICES ASSUME Init PROVE BindingInv
    OBVIOUS
  <2>1. Authority(live) = {} /\ outOfBand = {}
    BY MakeLiveState DEF Init
  <2>2. QED BY <2>1 DEF BindingInv, RequirementsBound, OutOfBandHasNone
<1>2. IInv /\ BindingInv /\ [Next]_vars => BindingInv'
  BY NextKeepsBindingInv
<1>3. IInv /\ BindingInv => CompletionCheckAgreesWithPass
  BY KeptIsAuthoritative, AuthoritativeIsKept DEF CompletionCheckAgreesWithPass
<1>4. QED BY <1>1, <1>2, <1>3, InductiveInvariant, PTL DEF Spec

-----------------------------------------------------------------------------
(***************************************************************************)
(* A lifetime that runs a Reconciler of its own: the hosting controller    *)
(* goes on being the controller it was, and the child follows what its     *)
(* host is told.                                                           *)
(***************************************************************************)
\* What is left to take is a queue of projections.
PendingIsQueue == pending \in [Gen -> Seq(Projection \cup {NoProjection})]
ChildrenTypeOK ==
  /\ child \in [Gen -> {"none", "open", "closed"}]
  /\ committed \in [Gen -> Projection \cup {NoProjection}]
  /\ follower \in [Gen -> {"none", "forked", "following", "ended"}]
  /\ PendingIsQueue

NestedInv == IInv /\ ChildrenTypeOK /\ ChildFollows

-----------------------------------------------------------------------------
\* What hosts a child steps as the controller does, or not at all.
LEMMA HostsStepAsControllers ==
  ASSUME [NestedNext]_<<vars, children>>
  PROVE  [Next]_vars
BY DEF NestedNext, ControllerSteps, HostFiber, FirstCommit, Subscribes, Follows,
       ChildShutsDown, FollowerInterrupted, children

\* Nested Reconcilers change nothing for the one that hosts them: every theorem
\* about the controller holds of it beside its children (Reconciler.ts:
\* nested makes, follows and shuts a child down inside the host's own Scope).
THEOREM NestingChangesNothing == NestedSpec => Spec
<1>1. NestedInit => Init
  BY DEF NestedInit
<1>2. [NestedNext]_<<vars, children>> => [Next]_vars
  BY HostsStepAsControllers
<1>3. QED BY <1>1, <1>2, PTL DEF NestedSpec, Spec

-----------------------------------------------------------------------------
\* A queue that is not empty loses its head, and keeps its last while any is left.
LEMMA TakingTheHead ==
  ASSUME NEW S, NEW q \in Seq(S), q # << >>
  PROVE  /\ Head(q) \in S /\ Tail(q) \in Seq(S)
         /\ Tail(q) = << >> => Last(q) = Head(q)
         /\ Tail(q) # << >> => Last(Tail(q)) = Last(q)
<1>1. Len(q) \in Nat /\ Len(q) # 0 /\ DOMAIN q = 1..Len(q)
  OBVIOUS
<1>2. Head(q) = q[1] /\ Tail(q) \in Seq(S) /\ Len(Tail(q)) = Len(q) - 1
  BY <1>1
<1>3. Head(q) \in S
  BY <1>1, <1>2
<1>4. ASSUME Tail(q) = << >> PROVE Last(q) = Head(q)
  BY <1>1, <1>2, <1>4 DEF Last
<1>5. ASSUME Tail(q) # << >> PROVE Last(Tail(q)) = Last(q)
  BY <1>1, <1>2, <1>5 DEF Last
<1>6. QED BY <1>2, <1>3, <1>4, <1>5

LEMMA JoiningTheQueue ==
  ASSUME NEW S, NEW q \in Seq(S), NEW x \in S
  PROVE  Append(q, x) \in Seq(S) /\ Append(q, x) # << >> /\ Last(Append(q, x)) = x
BY DEF Last

\* A step of the controller tells a follower exactly what its host is handed.
LEMMA ControllerStepsKeepFollowing ==
  ASSUME NestedInv, ControllerSteps
  PROVE  ChildrenTypeOK' /\ ChildFollows'
<1>1. IInv' /\ seen' \in [Gen -> Projection \cup {NoProjection}]
  BY NextKeepsIInv DEF ControllerSteps, NestedInv, IInv, TypeOK
<1>2. /\ child' = [g \in Gen |-> IF Gone(g) THEN "none" ELSE child[g]]
      /\ committed' = [g \in Gen |-> IF Gone(g) THEN NoProjection ELSE committed[g]]
      /\ follower' = [g \in Gen |-> IF Gone(g) THEN "none" ELSE follower[g]]
      /\ pending' = [g \in Gen |-> IF Told(g) THEN Append(pending[g], seen'[g])
                                   ELSE pending[g]]
  BY DEF ControllerSteps
<1>3. ASSUME NEW g \in Gen
      PROVE  /\ pending'[g] \in Seq(Projection \cup {NoProjection})
             /\ Told(g) => pending'[g] # << >> /\ Last(pending'[g]) = seen'[g]
  <2>1. pending[g] \in Seq(Projection \cup {NoProjection})
        /\ seen'[g] \in Projection \cup {NoProjection}
    BY <1>1 DEF NestedInv, ChildrenTypeOK, PendingIsQueue
  <2>2. pending'[g] = IF Told(g) THEN Append(pending[g], seen'[g]) ELSE pending[g]
    BY <1>2
  <2>3. CASE Told(g)
    BY <2>1, <2>2, <2>3, JoiningTheQueue
  <2>4. CASE ~Told(g)
    BY <2>1, <2>2, <2>4
  <2>5. QED BY <2>3, <2>4
<1>4. ChildrenTypeOK'
  <2>1. PendingIsQueue'
    BY <1>2, <1>3 DEF PendingIsQueue
  <2>2. QED BY <1>2, <2>1 DEF NestedInv, ChildrenTypeOK
<1>5. ASSUME NEW g \in Hosts, follower'[g] = "following"
      PROVE  seen'[g] = IF pending'[g] = << >> THEN committed'[g] ELSE Last(pending'[g])
  <2>1. g \in Gen /\ ~Gone(g) /\ follower[g] = "following"
    BY <1>2, <1>5 DEF Hosts
  <2>2. CASE Told(g)
    BY <1>3, <2>1, <2>2
  <2>3. CASE ~Told(g)
    <3>1. seen'[g] = seen[g] /\ pending'[g] = pending[g] /\ committed'[g] = committed[g]
      BY <1>2, <2>1, <2>3 DEF Told
    <3>2. QED BY <1>5, <2>1, <3>1 DEF NestedInv, ChildFollows
  <2>4. QED BY <2>2, <2>3
<1>6. QED BY <1>4, <1>5 DEF ChildFollows, Hosts

\* A step of the host's own fibers: what they take they commit, in order.
LEMMA HostFiberKeepsFollowing ==
  ASSUME NestedInv, NEW g \in Gen, HostFiber(g)
  PROVE  ChildrenTypeOK' /\ ChildFollows'
<1>0. /\ seen' = seen /\ seen \in [Gen -> Projection \cup {NoProjection}]
      /\ child \in [Gen -> {"none", "open", "closed"}]
      /\ committed \in [Gen -> Projection \cup {NoProjection}]
      /\ follower \in [Gen -> {"none", "forked", "following", "ended"}]
      /\ pending \in [Gen -> Seq(Projection \cup {NoProjection})]
      /\ << >> \in Seq(Projection \cup {NoProjection})
  BY DEF HostFiber, FirstCommit, Subscribes, Follows, ChildShutsDown, FollowerInterrupted, vars,
         NestedInv, IInv, TypeOK, ChildrenTypeOK, PendingIsQueue
<1> DEFINE Follow(h) == follower[h] = "following" =>
             seen[h] = IF pending[h] = << >> THEN committed[h] ELSE Last(pending[h])
<1>1. \A h \in Hosts : Follow(h)
  BY DEF NestedInv, ChildFollows
<1>2. SUFFICES /\ child' \in [Gen -> {"none", "open", "closed"}]
               /\ committed' \in [Gen -> Projection \cup {NoProjection}]
               /\ follower' \in [Gen -> {"none", "forked", "following", "ended"}]
               /\ pending' \in [Gen -> Seq(Projection \cup {NoProjection})]
               /\ \A h \in Gen : h # g => /\ committed'[h] = committed[h]
                                          /\ follower'[h] = follower[h]
                                          /\ pending'[h] = pending[h]
               /\ Follow(g) => Follow(g)'
  BY <1>0, <1>1 DEF ChildrenTypeOK, PendingIsQueue, ChildFollows, Hosts
<1>3. CASE FirstCommit(g)
  BY <1>0, <1>3 DEF FirstCommit
<1>4. CASE Subscribes(g)
  <2>1. /\ follower' = [follower EXCEPT ![g] = "following"]
        /\ pending' = [pending EXCEPT ![g] = <<seen[g]>>]
        /\ child' = child /\ committed' = committed
    BY <1>4 DEF Subscribes
  <2>2. <<seen[g]>> \in Seq(Projection \cup {NoProjection}) /\ <<seen[g]>> # << >>
        /\ Last(<<seen[g]>>) = seen[g]
    BY <1>0 DEF Last
  <2>3. QED BY <1>0, <2>1, <2>2
<1>5. CASE Follows(g)
  <2> DEFINE q == pending[g]
  <2>1. /\ q \in Seq(Projection \cup {NoProjection}) /\ q # << >>
        /\ child' = child /\ follower[g] = "following"
    BY <1>0, <1>5 DEF Follows
  <2>2. /\ Head(q) \in Projection \cup {NoProjection}
        /\ Tail(q) \in Seq(Projection \cup {NoProjection})
        /\ Tail(q) = << >> => Last(q) = Head(q)
        /\ Tail(q) # << >> => Last(Tail(q)) = Last(q)
    BY <2>1, TakingTheHead
  <2>3. CASE /\ follower' = [follower EXCEPT ![g] = "ended"]
             /\ pending' = [pending EXCEPT ![g] = << >>]
             /\ UNCHANGED committed
    BY <1>0, <2>1, <2>3
  <2>4. CASE /\ committed' = [committed EXCEPT ![g] = Head(q)]
             /\ pending' = [pending EXCEPT ![g] = Tail(q)]
             /\ UNCHANGED follower
    <3> HIDE DEF q
    <3>1. /\ committed'[g] = Head(q) /\ pending'[g] = Tail(q)
      BY <1>0, <2>4
    <3>2. Follow(g) => Follow(g)'
      BY <1>0, <2>1, <2>2, <3>1 DEF q
    <3>3. QED BY <1>0, <2>1, <2>2, <2>4, <3>2
  <2>5. QED BY <1>5, <2>3, <2>4 DEF Follows
<1>6. CASE ChildShutsDown(g)
  BY <1>0, <1>6 DEF ChildShutsDown
<1>7. CASE FollowerInterrupted(g)
  BY <1>0, <1>7 DEF FollowerInterrupted
<1>8. QED BY <1>3, <1>4, <1>5, <1>6, <1>7 DEF HostFiber

\* No projection is lost on its way to a nested Reconciler, neither between the
\* first commit and the subscription nor after (Reconciler.ts: nested; changes replays).
THEOREM ChildAlwaysFollows == NestedSpec => []ChildFollows
<1>1. NestedInit => NestedInv
  <2> SUFFICES ASSUME NestedInit PROVE NestedInv
    OBVIOUS
  <2>1. IInv
    BY InitEstablishesIInv DEF NestedInit
  <2>2. ChildrenTypeOK /\ ChildFollows
    BY DEF NestedInit, ChildrenTypeOK, PendingIsQueue, ChildFollows, Hosts
  <2>3. QED BY <2>1, <2>2 DEF NestedInv
<1>2. ASSUME NestedInv, [NestedNext]_<<vars, children>> PROVE NestedInv'
  <2>1. IInv'
    BY <1>2, HostsStepAsControllers, NextKeepsIInv DEF NestedInv
  <2>2. CASE ControllerSteps
    BY <1>2, <2>1, <2>2, ControllerStepsKeepFollowing DEF NestedInv
  <2>3. CASE \E g \in Gen : HostFiber(g)
    BY <1>2, <2>1, <2>3, HostFiberKeepsFollowing DEF NestedInv
  <2>4. CASE UNCHANGED <<vars, children>>
    BY <1>2, <2>1, <2>4 DEF NestedInv, ChildrenTypeOK, PendingIsQueue, ChildFollows, Hosts,
                            vars, children
  <2>5. QED BY <1>2, <2>2, <2>3, <2>4 DEF NestedNext
<1>3. NestedInv => ChildFollows
  BY DEF NestedInv
<1>4. QED BY <1>1, <1>2, <1>3, PTL DEF NestedSpec

-----------------------------------------------------------------------------
(***************************************************************************)
(* The convergence barrier: the latch holds a state of the controller, and *)
(* who waits on it while it is closed is owed what opens it.               *)
(***************************************************************************)
\* A pass that is owed is on its way: the loop has been woken, or is about to run.
OwedIsComing == phase = "open" /\ owed => wake \/ loop = "due"

\* Somebody waits for the close of every startup that failed.
PendingIsCleaned ==
  \A g \in Gen : live.status[g] = "failed" /\ closing[g] = "pending" => cleanup[g]

\* Ownership has no cycle: of any generations that are tracked, one is owned by
\* none of the others.
OwnersGround ==
  \A S \in SUBSET All(live) : S # {} => \E g \in S : live.owner[g] \notin S

OwingInv == OwedIsComing /\ PendingIsCleaned /\ OwnersGround

-----------------------------------------------------------------------------
\* Whoever owes a pass wakes the loop, and only a pass pays.
LEMMA NextKeepsOwedIsComing ==
  ASSUME TypeOK, OwedIsComing, [Next]_vars
  PROVE  OwedIsComing'
<1> USE DEF OwedIsComing, wakeUp
<1>1. CASE UNCHANGED loops /\ (phase' = "open" => phase = "open")
  BY <1>1 DEF loops
<1>2. CASE Application
  BY <1>2 DEF Application, Commit, Retry, RetireOutOfBand, BeginShutdown
<1>3. CASE Startup
  BY <1>1, <1>3 DEF Startup, StartExits
<1>4. ASSUME NEW g \in Gen, OnStartupDone(g) PROVE OwedIsComing'
  BY <1>1, <1>4 DEF OnStartupDone, StartupIsLate, StartupIsSuperseded, StartupSucceeds,
                    StartupFails
<1>5. ASSUME NEW g \in Gen, CleanupWakes(g) \/ StopWakes(g) PROVE OwedIsComing'
  BY <1>5 DEF CleanupWakes, StopWakes
<1>6. ASSUME NEW g \in Gen, TimerFires(g) PROVE OwedIsComing'
  BY <1>1, <1>6 DEF TimerFires, RetireOutOfBand
<1>7. ASSUME NEW g \in Gen, OwnerClosesChild(g) \/ FinalizersRun(g) \/ StopForgets(g)
      PROVE  OwedIsComing'
  BY <1>1, <1>7 DEF OwnerClosesChild, FinalizersRun, StopForgets
<1>8. CASE LoopWakes \/ LoopInterrupted \/ ReconcilePass \/ ClosedPass
  <2>1. CASE ReconcilePass \/ ClosedPass
    <3>1. owed' = FALSE
      BY <2>1 DEF ReconcilePass, ClosedPass
    <3>2. QED BY <3>1
  <2>2. CASE LoopWakes
    BY <2>2 DEF LoopWakes
  <2>3. CASE LoopInterrupted
    BY <2>3 DEF LoopInterrupted
  <2>4. QED BY <1>8, <2>1, <2>2, <2>3
<1>9. CASE ShutdownForgets \/ ShutdownSignals
  BY <1>9 DEF ShutdownForgets, ShutdownSignals
<1>10. CASE UNCHANGED vars \/ Terminated
  BY <1>1, <1>10 DEF Terminated, vars
<1>11. CASE Runtime
  BY <1>4, <1>5, <1>6, <1>7, <1>8, <1>9, <1>11 DEF Runtime
<1>12. QED BY <1>2, <1>3, <1>10, <1>11 DEF Next

\* A failure forks the fiber that waits for its close, which waits to the end.
LEMMA NextKeepsPendingIsCleaned ==
  ASSUME IInv, PendingIsCleaned, [Next]_vars
  PROVE  PendingIsCleaned'
<1>0. /\ live \in LiveState /\ live.status \in [Gen -> Lifecycle]
      /\ closing \in [Gen -> {"none", "pending", "done"}] /\ cleanup \in [Gen -> BOOLEAN]
  BY DEF IInv, TypeOK, LiveState
<1> DEFINE NoClaim(h) == /\ live.status[h] = "failed"
                         /\ closing[h] = "pending"
                         /\ cleanup[h] => cleanup'[h]
<1>1. ASSUME \A h \in Gen : live'.status[h] = "failed" /\ closing'[h] = "pending" => NoClaim(h)
      PROVE  PendingIsCleaned'
  <2> SUFFICES ASSUME NEW h \in Gen, live'.status[h] = "failed", closing'[h] = "pending"
               PROVE  cleanup'[h]
    BY DEF PendingIsCleaned
  <2>1. NoClaim(h)
    BY <1>1
  <2>2. cleanup[h]
    BY <2>1 DEF PendingIsCleaned
  <2>3. QED BY <2>1, <2>2
<1>2. CASE /\ UNCHANGED <<scopes, cleanup>>
           /\ live' = live \/ live' = [live EXCEPT !.moved = FALSE]
  <2>1. live'.status = live.status
    BY <1>0, <1>2 DEF LiveState
  <2>2. QED BY <1>1, <1>2, <2>1 DEF scopes
<1>3. ASSUME NEW S \in SUBSET Gen, live' = retire(live, S), UNCHANGED cleanup,
             closing' = closing \/ closing' = closingAfter(S)
      PROVE  PendingIsCleaned'
  <2>1. live'.status = [h \in Gen |-> IF h \in S THEN "stopping" ELSE live.status[h]]
    BY <1>0, <1>3 DEF retire, LiveState
  <2>2. ASSUME NEW h \in Gen, live'.status[h] = "failed"
        PROVE  h \notin S /\ live.status[h] = "failed" /\ closing'[h] = closing[h]
    BY <1>0, <1>3, <2>1, <2>2 DEF closingAfter
  <2>3. QED BY <1>1, <1>3, <2>2
<1>4. ASSUME NEW S, live' = forget(live, S), UNCHANGED cleanup,
             closing' = [h \in Gen |-> IF h \in S THEN "none" ELSE closing[h]]
      PROVE  PendingIsCleaned'
  <2>1. live'.status = [h \in Gen |-> IF h \in S THEN "none" ELSE live.status[h]]
    BY <1>4 DEF forget
  <2>2. QED BY <1>1, <1>4, <2>1
<1>5. ASSUME NEW g \in Gen, RetireOutOfBand(g), UNCHANGED cleanup PROVE PendingIsCleaned'
  BY <1>3, <1>5 DEF RetireOutOfBand, beginStop, closeInstance
<1>6. CASE Application
  <2>1. ASSUME NEW i \in Retryable, Retry(i) PROVE PendingIsCleaned'
    <3>1. live.currentByIdent[i] \in Gen /\ RetireOutOfBand(live.currentByIdent[i])
      BY <1>0, <2>1, ControllerAssumption DEF Retry, LiveState
    <3>2. QED BY <1>5, <2>1, <3>1 DEF Retry
  <2>2. CASE BeginShutdown
    BY <1>3, <2>2 DEF BeginShutdown, scopes, fibers, Authority
  <2>3. ASSUME NEW d \in Desire, Commit(d) PROVE PendingIsCleaned'
    BY <1>2, <2>3 DEF Commit, fibers
  <2>4. QED BY <1>6, <2>1, <2>2, <2>3 DEF Application
<1>7. CASE Startup
  BY <1>2, <1>7 DEF Startup, StartExits
<1>8. ASSUME NEW g \in Gen, OnStartupDone(g) PROVE PendingIsCleaned'
  <2>1. CASE StartupIsLate(g) \/ StartupIsSuperseded(g)
    BY <1>2, <2>1 DEF StartupIsLate, StartupIsSuperseded
  <2>2. CASE StartupSucceeds(g)
    <3>1. live'.status = [live.status EXCEPT ![g] = "running"]
          /\ UNCHANGED <<closing, cleanup>>
      BY <1>0, <2>2 DEF StartupSucceeds, concludeStartup, LiveState, scopes
    <3>2. QED BY <1>0, <1>1, <3>1
  <2>3. CASE StartupFails(g)
    <3>1. /\ live'.status = [live.status EXCEPT ![g] = "failed"]
          /\ closing' = closingAfter({g})
          /\ cleanup' = [cleanup EXCEPT ![g] = TRUE]
      BY <1>0, <2>3 DEF StartupFails, closeInstance, concludeStartup, LiveState
    <3>2. \A h \in Gen : h # g => /\ live'.status[h] = live.status[h]
                                  /\ closing'[h] = closing[h] /\ cleanup'[h] = cleanup[h]
      BY <1>0, <3>1 DEF closingAfter
    <3>3. cleanup'[g]
      BY <1>0, <3>1
    <3>4. QED BY <3>2, <3>3 DEF PendingIsCleaned
  <2>4. QED BY <1>8, <2>1, <2>2, <2>3 DEF OnStartupDone
<1>9. ASSUME NEW g \in Gen, CleanupWakes(g) PROVE PendingIsCleaned'
  <2>1. /\ UNCHANGED <<live, closing>> /\ closing[g] # "pending"
        /\ cleanup' = [cleanup EXCEPT ![g] = FALSE]
    BY <1>9 DEF CleanupWakes, scopes
  <2>2. QED BY <1>0, <2>1 DEF PendingIsCleaned
<1>10. ASSUME NEW g \in Gen, TimerFires(g) PROVE PendingIsCleaned'
  <2>1. CASE RetireOutOfBand(g)
    BY <1>5, <1>10, <2>1 DEF TimerFires
  <2>2. CASE UNCHANGED <<live, scopes>>
    BY <1>2, <1>10, <2>2 DEF TimerFires
  <2>3. QED BY <1>10, <2>1, <2>2 DEF TimerFires
<1>11. ASSUME NEW g \in Gen, OwnerClosesChild(g) \/ FinalizersRun(g) PROVE PendingIsCleaned'
  <2>1. UNCHANGED <<live, cleanup>>
    BY <1>11 DEF OwnerClosesChild, FinalizersRun, fibers
  <2>2. \A h \in Gen : closing'[h] = "pending" => closing[h] = "pending"
    BY <1>0, <1>11 DEF OwnerClosesChild, FinalizersRun
  <2>3. QED BY <2>1, <2>2 DEF PendingIsCleaned
<1>12. ASSUME NEW g \in Gen, StopForgets(g) PROVE PendingIsCleaned'
  BY <1>4, <1>12 DEF StopForgets
<1>13. ASSUME NEW g \in Gen, StopWakes(g) PROVE PendingIsCleaned'
  BY <1>2, <1>13 DEF StopWakes
<1>14. CASE LoopWakes \/ LoopInterrupted \/ ClosedPass \/ ShutdownSignals
  BY <1>2, <1>14 DEF LoopWakes, LoopInterrupted, ClosedPass, ShutdownSignals, fibers
<1>15. CASE ReconcilePass
  <2>1. /\ closing' = closingAfter(ownStops(invalidate)) /\ cleanup' = cleanup
        /\ live'.status = [g \in Gen |-> IF g \in Admitted THEN "starting"
                              ELSE IF g \in invalidate THEN "stopping" ELSE live.status[g]]
    BY <1>15, ReconcilePassAssigns, ReconcilePassFields
  <2>2. ASSUME NEW h \in Gen, live'.status[h] = "failed"
        PROVE  live.status[h] = "failed" /\ closing'[h] = closing[h]
    BY <1>0, <2>1, <2>2 DEF closingAfter, ownStops
  <2>3. QED BY <2>1, <2>2 DEF PendingIsCleaned
<1>16. CASE ShutdownForgets
  <2>1. closing' = [g \in Gen |-> "none"]
    BY <1>16 DEF ShutdownForgets
  <2>2. QED BY <2>1 DEF PendingIsCleaned
<1>17. CASE UNCHANGED vars \/ Terminated
  BY <1>2, <1>17 DEF Terminated, vars, fibers
<1>18. CASE Runtime
  BY <1>8, <1>9, <1>10, <1>11, <1>12, <1>13, <1>14, <1>15, <1>16, <1>18 DEF Runtime
<1>19. QED BY <1>6, <1>7, <1>17, <1>18 DEF Next

\* Nobody is owned by a generation that is new: what names it was not tracked.
LEMMA PassKeepsOwnersGround ==
  ASSUME IInv, OwnersGround, ReconcilePass
  PROVE  OwnersGround'
<1> SUFFICES ASSUME NEW S \in SUBSET All(live)', S # {}
             PROVE  \E g \in S : live'.owner[g] \notin S
  BY DEF OwnersGround
<1>1. /\ live'.status = [g \in Gen |-> IF g \in Admitted THEN "starting"
                              ELSE IF g \in invalidate THEN "stopping" ELSE live.status[g]]
      /\ live'.owner = [g \in Gen |-> IF g \in Admitted THEN Owners[IdentOf(g)]
                                      ELSE live.owner[g]]
      /\ Drained.status = [g \in Gen |-> IF g \in invalidate THEN "stopping"
                                         ELSE live.status[g]]
      /\ invalidate \subseteq Authority(live)
      /\ S \subseteq Gen
  BY ReconcilePassFields, DrainedFields, InvalidateIsClosed DEF All
<1>2. /\ \A g \in Admitted : g \in Gen /\ IdentOf(g) \in Admissions /\ Unused(g)
      /\ \A i \in Admissions : /\ Owners[i] \in Gen => Drained.status[Owners[i]] = "running"
                               /\ Owners[i] \in Gen \cup {NoGen}
  BY TrackedFields
<1>3. \A g \in Admitted : live.status[g] = "none" /\ live.children[g] = {}
  BY <1>2 DEF Unused
<1>4. CASE S \subseteq Admitted
  <2>1. PICK g \in S : TRUE
    OBVIOUS
  <2>2. live'.owner[g] \in Gen => Drained.status[live'.owner[g]] = "running"
    BY <1>1, <1>2, <1>4, <2>1
  <2>3. live'.owner[g] \notin S
    BY <1>1, <1>2, <1>3, <1>4, <2>2
  <2>4. QED BY <2>1, <2>3
<1>5. CASE ~(S \subseteq Admitted)
  <2> DEFINE T == S \ Admitted
  <2>1. T \subseteq All(live) /\ T # {}
    BY <1>1, <1>5 DEF All, Authority
  <2>2. PICK g \in T : live.owner[g] \notin T
    BY <2>1 DEF OwnersGround
  <2>3. g \in Gen /\ g \in All(live) /\ live'.owner[g] = live.owner[g]
    BY <1>1, <2>1, <2>2
  <2>4. live.owner[g] \notin Admitted
    BY <1>2, <1>3, <2>3 DEF IInv, LiveInv, IndexesConsistent, EdgesAgree
  <2>5. QED BY <2>2, <2>3, <2>4
<1>6. QED BY <1>4, <1>5

LEMMA NextKeepsOwnersGround ==
  ASSUME IInv, OwnersGround, [Next]_vars
  PROVE  OwnersGround'
<1>0. live \in LiveState /\ All(live) \subseteq Gen
  BY DEF IInv, TypeOK, All
<1>1. ASSUME All(live)' \subseteq All(live),
             \A g \in All(live)' : live'.owner[g] = live.owner[g]
      PROVE  OwnersGround'
  <2> SUFFICES ASSUME NEW S \in SUBSET All(live)', S # {}
               PROVE  \E g \in S : live'.owner[g] \notin S
    BY DEF OwnersGround
  <2>1. S \in SUBSET All(live) /\ \A g \in S : live'.owner[g] = live.owner[g]
    BY <1>1
  <2>2. PICK g \in S : live.owner[g] \notin S
    BY <2>1 DEF OwnersGround
  <2>3. QED BY <2>1, <2>2
<1>2. CASE live' = live \/ live' = [live EXCEPT !.moved = FALSE]
  <2>1. live'.status = live.status /\ live'.owner = live.owner
    BY <1>0, <1>2 DEF LiveState
  <2>2. QED BY <1>1, <2>1 DEF All
<1>3. ASSUME NEW S \in SUBSET Authority(live), live' = retire(live, S) PROVE OwnersGround'
  <2>1. live'.owner = live.owner
    BY <1>0, <1>3 DEF retire, LiveState
  <2>2. All(live') = All(live)
    BY <1>0, <1>3, RetireSets
  <2>3. QED BY <1>1, <2>1, <2>2
<1>4. ASSUME NEW S, live' = forget(live, S) PROVE OwnersGround'
  <2>1. /\ live'.status = [g \in Gen |-> IF g \in S THEN "none" ELSE live.status[g]]
        /\ live'.owner = [g \in Gen |-> IF g \in S THEN NoGen ELSE live.owner[g]]
    BY <1>4 DEF forget
  <2>2. QED BY <1>1, <2>1 DEF All
<1>5. ASSUME NEW g \in Gen, NEW st \in {"running", "failed"}, live.status[g] = "starting",
             live' = concludeStartup(live, g, st)
      PROVE  OwnersGround'
  <2>1. live'.status = [live.status EXCEPT ![g] = st] /\ live'.owner = live.owner
    BY <1>0, <1>5 DEF concludeStartup, LiveState
  <2>2. All(live)' = All(live)
    BY <1>0, <1>5, <2>1 DEF All, LiveState
  <2>3. QED BY <1>1, <2>1, <2>2
<1>6. CASE \/ UNCHANGED vars \/ Terminated \/ Startup \/ (\E d \in Desire : Commit(d))
           \/ (\E g \in Gen : \/ CleanupWakes(g) \/ StopWakes(g)
                              \/ OwnerClosesChild(g) \/ FinalizersRun(g))
           \/ LoopWakes \/ LoopInterrupted \/ ClosedPass \/ ShutdownSignals
  <2>1. live' = live \/ live' = [live EXCEPT !.moved = FALSE]
    BY <1>6 DEF Commit, Startup, StartExits, CleanupWakes, StopWakes, OwnerClosesChild,
                FinalizersRun, LoopWakes, LoopInterrupted, ClosedPass, ShutdownSignals,
                Terminated, vars
  <2>2. QED BY <2>1, <1>2
<1>7. ASSUME NEW g \in Gen, live.status[g] = "failed", RetireOutOfBand(g) PROVE OwnersGround'
  BY <1>3, <1>7 DEF RetireOutOfBand, Authority
<1>8. ASSUME NEW i \in Retryable, Retry(i) PROVE OwnersGround'
  <2>1. /\ live.currentByIdent[i] \in Gen /\ live.status[live.currentByIdent[i]] = "failed"
        /\ RetireOutOfBand(live.currentByIdent[i])
    BY <1>0, <1>8, ControllerAssumption DEF Retry, LiveState
  <2>2. QED BY <1>7, <2>1
<1>9. ASSUME NEW g \in Gen, TimerFires(g) PROVE OwnersGround'
  BY <1>2, <1>7, <1>9 DEF TimerFires
<1>10. CASE BeginShutdown
  BY <1>3, <1>10 DEF BeginShutdown
<1>11. CASE ShutdownForgets \/ \E g \in Gen : StopForgets(g)
  BY <1>4, <1>11 DEF ShutdownForgets, StopForgets
<1>12. ASSUME NEW g \in Gen, OnStartupDone(g) PROVE OwnersGround'
  BY <1>2, <1>5, <1>12 DEF OnStartupDone, StartupIsLate, StartupIsSuperseded,
                           StartupSucceeds, StartupFails
<1>13. CASE Application
  BY <1>6, <1>8, <1>10, <1>13 DEF Application
<1>14. CASE Runtime
  BY <1>6, <1>9, <1>11, <1>12, <1>14, PassKeepsOwnersGround DEF Runtime
<1>15. QED BY <1>6, <1>13, <1>14 DEF Next

\* Whatever drains in an open controller has the stop fiber of a root above it.
LEMMA DrainingHasFiber ==
  ASSUME DrainingIsCovered, OwnersGround, phase = "open", Obsolete(live) # {}
  PROVE  \E g \in Gen : stop[g] = "closing"
<1>1. Obsolete(live) \in SUBSET All(live) /\ Obsolete(live) \subseteq Gen
  BY DEF Obsolete, All
<1>2. PICK g \in Obsolete(live) : live.owner[g] \notin Obsolete(live)
  BY <1>1 DEF OwnersGround
<1>3. stop[g] = "closing"
  BY <1>2 DEF DrainingIsCovered
<1>4. QED BY <1>1, <1>2, <1>3

\* All that holds of the controller and that its barrier relies on.
BarrierBase == IInv /\ ScopeInv /\ DrainingIsCovered /\ OwingInv

LEMMA BarrierStandsOn == Spec => []BarrierBase
<1>1. Init => OwingInv
  <2> SUFFICES ASSUME Init PROVE OwingInv
    OBVIOUS
  <2>1. OwedIsComing /\ PendingIsCleaned
    BY DEF Init, OwedIsComing, PendingIsCleaned
  <2>2. OwnersGround
    BY MakeLiveState DEF Init, OwnersGround
  <2>3. QED BY <2>1, <2>2 DEF OwingInv
<1>2. ASSUME IInv, OwingInv, [Next]_vars PROVE OwingInv'
  <2>1. TypeOK
    BY <1>2 DEF IInv
  <2>2. QED BY <1>2, <2>1, NextKeepsOwedIsComing, NextKeepsPendingIsCleaned,
               NextKeepsOwnersGround DEF OwingInv
<1>3. IInv /\ ScopeInv /\ DrainingIsCovered /\ OwingInv => BarrierBase
  BY DEF BarrierBase
<1>4. QED BY <1>1, <1>2, <1>3, ScopeInvariant, DrainingIsAlwaysCovered, PTL DEF Spec

-----------------------------------------------------------------------------
\* Somebody is about to wake the loop: the cleanup of a failed startup, or a stop
\* fiber that has forgotten its generation.
Stirs == \E g \in Gen : cleanup[g] \/ stop[g] = "wake"

\* What a waiter has been through, and what it waits for when all has settled.
WaiterInv ==
  /\ waiter = "waiting" => observed
  /\ phase = "closed" => converged
  /\ waiter = "waiting" /\ ~converged /\ phase = "open" /\ ~owed /\ settled => Stirs

LatchInv ==
  /\ converged \in BOOLEAN /\ observed \in BOOLEAN
  /\ LatchMeansConverged /\ WaiterInv

BarrierInv == BarrierBase /\ LatchInv

\* A step after which an open controller owes nothing, and that is no pass: it lets
\* one close complete, or a stop fiber forget, or changes nothing a pass reads.
LEMMA QuietStep ==
  ASSUME TypeOK, [Next]_vars, ~ReconcilePass, phase' = "open", ~owed'
  PROVE  /\ phase = "open" /\ ~owed /\ ~PassEnds
         /\ \A g \in Gen : /\ cleanup[g] => cleanup'[g]
                           /\ stop[g] = "wake" => stop'[g] = "wake"
         /\ \/ UNCHANGED <<desired, matched, live, outOfBand, closing>>
            \/ /\ UNCHANGED <<desired, matched, live, outOfBand>>
               /\ \E g \in Gen : /\ closing[g] = "pending"
                                 /\ closing' = [closing EXCEPT ![g] = "done"]
            \/ \E g \in Gen : stop[g] = "closing" /\ stop'[g] = "wake"
<1> DEFINE Quiet ==
      /\ phase = "open" /\ ~owed /\ ~PassEnds
      /\ \A g \in Gen : /\ cleanup[g] => cleanup'[g]
                        /\ stop[g] = "wake" => stop'[g] = "wake"
      /\ \/ UNCHANGED <<desired, matched, live, outOfBand, closing>>
         \/ /\ UNCHANGED <<desired, matched, live, outOfBand>>
            /\ \E g \in Gen : /\ closing[g] = "pending"
                              /\ closing' = [closing EXCEPT ![g] = "done"]
         \/ \E g \in Gen : stop[g] = "closing" /\ stop'[g] = "wake"
<1> SUFFICES Quiet
  OBVIOUS
<1> USE DEF wakeUp, PassEnds
<1>1. CASE /\ UNCHANGED <<phase, owed, cleanup, stop, desired, matched, live, outOfBand, closing>>
           /\ loop' = loop \/ loop = "waiting"
  BY <1>1
<1> HIDE DEF Quiet
<1>2. CASE Application
  BY <1>2 DEF Application, Commit, Retry, RetireOutOfBand, BeginShutdown
<1>3. CASE Startup
  BY <1>1, <1>3 DEF Startup, StartExits, scopes, loops
<1>4. ASSUME NEW g \in Gen, OnStartupDone(g) PROVE Quiet
  <2>1. StartupIsLate(g) /\ UNCHANGED <<phase, desired, matched, stop, outOfBand>>
    BY <1>4 DEF OnStartupDone, StartupIsSuperseded, StartupSucceeds, StartupFails
  <2>2. QED BY <1>1, <2>1 DEF StartupIsLate, scopes, loops
<1>5. ASSUME NEW g \in Gen, CleanupWakes(g) \/ StopWakes(g) PROVE Quiet
  BY <1>5 DEF CleanupWakes, StopWakes
<1>6. ASSUME NEW g \in Gen, TimerFires(g) PROVE Quiet
  <2>1. /\ UNCHANGED <<live, matched, outOfBand, scopes, stop, loops>>
        /\ UNCHANGED <<phase, desired, cleanup>>
    BY <1>6 DEF TimerFires, RetireOutOfBand
  <2>2. QED BY <1>1, <2>1 DEF scopes, loops
<1>7. ASSUME NEW g \in Gen, OwnerClosesChild(g) PROVE Quiet
  BY <1>1, <1>7 DEF OwnerClosesChild, fibers, loops
<1>8. ASSUME NEW g \in Gen, FinalizersRun(g) PROVE Quiet
  <2>1. /\ UNCHANGED <<phase, desired, matched, live, outOfBand, cleanup, stop, owed, loop>>
        /\ closing' = [closing EXCEPT ![g] = IF closing[g] = "pending" THEN "done"
                                             ELSE closing[g]]
    BY <1>8 DEF FinalizersRun, fibers, loops
  <2>2. CASE closing[g] = "pending"
    BY <2>1, <2>2 DEF Quiet
  <2>3. CASE closing[g] # "pending"
    <3>1. closing' = closing
      BY <2>1, <2>3 DEF TypeOK
    <3>2. QED BY <1>1, <2>1, <3>1
  <2>4. QED BY <2>2, <2>3
<1>9. ASSUME NEW g \in Gen, StopForgets(g) PROVE Quiet
  <2>1. /\ stop[g] = "closing" /\ stop' = [stop EXCEPT ![g] = "wake"]
        /\ UNCHANGED <<phase, cleanup, owed, loop>>
    BY <1>9 DEF StopForgets, loops
  <2>2. stop'[g] = "wake" /\ \A h \in Gen : stop[h] = "wake" => stop'[h] = "wake"
    BY <2>1 DEF TypeOK
  <2>3. QED BY <2>1, <2>2 DEF Quiet
<1>10. CASE LoopWakes
  BY <1>1, <1>10 DEF LoopWakes, scopes, fibers
<1>11. CASE LoopInterrupted \/ ClosedPass \/ ShutdownForgets \/ ShutdownSignals
  BY <1>11 DEF LoopInterrupted, ClosedPass, ShutdownForgets, ShutdownSignals
<1>12. CASE UNCHANGED vars \/ Terminated
  BY <1>1, <1>12 DEF Terminated, vars, scopes, fibers, loops
<1>13. CASE Runtime
  BY <1>4, <1>5, <1>6, <1>7, <1>8, <1>9, <1>10, <1>11, <1>13 DEF Runtime
<1>14. QED BY <1>2, <1>3, <1>12, <1>13 DEF Next

\* What a pass over a controller that has converged does to what settles: nothing.
LEMMA IdlePassSettles ==
  ASSUME IInv, ReconcilePass, settled, invalidate = {},
         admissions(live, Authority(live)) = {}
  PROVE  settled'
<1>0. live \in LiveState
  BY DEF IInv, TypeOK
<1>1. /\ Drained.status = live.status /\ Drained.current = live.current
      /\ Drained.currentByIdent = live.currentByIdent /\ Drained.retiring = live.retiring
  BY <1>0 DEF Drained, retire, LiveState
<1>2. Kept = Authority(live)
  BY DEF Kept
<1>3. Admissions = {}
  BY <1>1, <1>2 DEF Admissions, admissions, admissible, CurrentOwner, resolveProvider
<1>4. Admitted = {}
  BY <1>3 DEF Admitted, Fresh
<1>5. live'.status = live.status
  <2>1. live'.status = [g \in Gen |-> live.status[g]]
    BY <1>4, ReconcilePassFields
  <2>2. QED BY <1>0, <2>1 DEF LiveState
<1>6. live'.retiring = live.retiring
  BY <1>1, TrackedFields, ReconcilePassAssigns DEF Tracks, LiveInv, LiveState
<1>7. closing' = closing
  <2>1. ownStops(invalidate) = {}
    BY DEF ownStops
  <2>2. closing' = [g \in Gen |-> closing[g]]
    BY <2>1, ReconcilePassAssigns DEF closingAfter
  <2>3. QED BY <2>2 DEF IInv, TypeOK
<1>8. QED BY <1>5, <1>6, <1>7 DEF settled, All

\* While nothing of what a pass reads changes, what it would do stays the same.
LEMMA SameDecisions ==
  ASSUME UNCHANGED <<desired, matched, live, outOfBand>>
  PROVE  /\ invalidate' = invalidate
         /\ admissions(live, Authority(live))' = admissions(live, Authority(live))
BY DEF invalidate, Cascades, Withdrawn, admissions, admissible, CurrentOwner,
       resolveProvider, Wanted, Authority

\* The latch opens at the end of a pass that leaves nothing in flight; and what
\* stays open has seen no step that would change what a pass finds.
LEMMA LatchStaysTrue ==
  ASSUME BarrierBase, LatchInv, Next, Latch
  PROVE  LatchMeansConverged'
<1> SUFFICES ASSUME converged', phase' = "open"
             PROVE  quiescent' /\ invalidate' = {} /\ admissions(live, Authority(live))' = {}
  BY DEF LatchMeansConverged
<1>1. ~owed' /\ (converged \/ (PassEnds /\ quiescent'))
  BY DEF Latch
<1>2. IInv /\ StopFibersDrain /\ LatchMeansConverged
  BY DEF BarrierBase, IInv, LatchInv
<1>3. CASE ReconcilePass
  <2>1. invalidate' = {} /\ admissions(live, Authority(live))' = {}
    BY <1>2, <1>3, PassRetiresAll, PassAdmitsAll
  <2>2. CASE converged
    <3>1. phase = "open"
      BY <1>2, <1>3, ReconcilePassAssigns
    <3>2. invalidate = {} /\ admissions(live, Authority(live)) = {} /\ settled
      BY <1>2, <2>2, <3>1 DEF LatchMeansConverged, quiescent
    <3>3. settled'
      BY <1>2, <1>3, <3>2, IdlePassSettles
    <3>4. QED BY <1>1, <2>1, <3>3 DEF quiescent
  <2>3. QED BY <1>1, <2>1, <2>2
<1>4. CASE ~ReconcilePass
  <2>1. /\ phase = "open" /\ ~owed /\ ~PassEnds
        /\ \/ UNCHANGED <<desired, matched, live, outOfBand, closing>>
           \/ /\ UNCHANGED <<desired, matched, live, outOfBand>>
              /\ \E g \in Gen : /\ closing[g] = "pending"
                                /\ closing' = [closing EXCEPT ![g] = "done"]
           \/ \E g \in Gen : stop[g] = "closing" /\ stop'[g] = "wake"
    BY <1>1, <1>2, <1>4, QuietStep DEF IInv
  <2>2. invalidate = {} /\ admissions(live, Authority(live)) = {} /\ settled
    BY <1>1, <1>2, <2>1 DEF LatchMeansConverged, quiescent
  <2>3. \A g \in Gen : stop[g] # "closing"
    BY <1>2, <2>2 DEF StopFibersDrain, settled, Obsolete, All
  <2>4. UNCHANGED <<desired, matched, live, outOfBand>>
    BY <2>1, <2>3
  <2>5. \A g \in Gen : closing'[g] = "pending" => closing[g] = "pending"
    BY <1>2, <2>1, <2>3 DEF IInv, TypeOK
  <2>6. settled'
    BY <2>2, <2>4, <2>5 DEF settled, All
  <2>7. invalidate' = {} /\ admissions(live, Authority(live))' = {}
    BY <2>2, <2>4, SameDecisions
  <2>8. QED BY <1>1, <2>6, <2>7 DEF quiescent
<1>5. QED BY <1>3, <1>4

\* When the last thing in flight ends, who ended it is about to wake the loop: the
\* cleanup that waits for a failed startup's close, or the stop fiber.
LEMMA SettlingStirs ==
  ASSUME BarrierBase, Next, ~ReconcilePass, phase' = "open", ~owed', settled',
         phase = "open" /\ ~owed /\ settled => Stirs
  PROVE  Stirs'
<1>1. /\ TypeOK /\ FailedAreClaimed /\ PendingIsCleaned /\ live.status \in [Gen -> Lifecycle]
  BY DEF BarrierBase, IInv, ScopeInv, OwingInv, TypeOK, LiveState
<1>2. /\ phase = "open" /\ ~owed
      /\ \A g \in Gen : /\ cleanup[g] => cleanup'[g]
                        /\ stop[g] = "wake" => stop'[g] = "wake"
      /\ \/ UNCHANGED <<desired, matched, live, outOfBand, closing>>
         \/ /\ UNCHANGED <<desired, matched, live, outOfBand>>
            /\ \E g \in Gen : /\ closing[g] = "pending"
                              /\ closing' = [closing EXCEPT ![g] = "done"]
         \/ \E g \in Gen : stop[g] = "closing" /\ stop'[g] = "wake"
  BY <1>1, QuietStep
<1>3. CASE settled
  BY <1>2, <1>3 DEF Stirs
<1>4. CASE \E g \in Gen : stop[g] = "closing" /\ stop'[g] = "wake"
  BY <1>4 DEF Stirs
<1>5. CASE ~settled /\ UNCHANGED <<live, closing>>
  BY <1>5 DEF settled, All
<1>6. ASSUME ~settled, UNCHANGED live, NEW g \in Gen, closing[g] = "pending",
             closing' = [closing EXCEPT ![g] = "done"]
      PROVE  Stirs'
  <2>1. \A h \in Gen : h # g => closing'[h] = closing[h]
    BY <1>1, <1>6 DEF TypeOK
  <2>2. g \in All(live)
    <3> SUFFICES ASSUME g \notin All(live) PROVE FALSE
      OBVIOUS
    <3>1. \A h \in All(live) : h \in Gen /\ closing'[h] = closing[h]
      BY <2>1 DEF All
    <3>2. QED BY <1>6, <3>1 DEF settled, All
  <2>3. live.status[g] \in {"running", "failed"}
    BY <1>1, <1>6, <2>2 DEF settled, All, Lifecycle
  <2>4. live.status[g] = "failed"
    BY <1>1, <1>6, <2>3 DEF FailedAreClaimed, Authority
  <2>5. cleanup[g]
    BY <1>1, <1>6, <2>4 DEF PendingIsCleaned
  <2>6. QED BY <1>2, <2>5 DEF Stirs
<1>7. QED BY <1>2, <1>3, <1>4, <1>5, <1>6

\* What the barrier does is a step of the controller, or leaves it alone.
LEMMA BarrierStepsAsController ==
  ASSUME [BarrierNext]_<<vars, barrier>>
  PROVE  [Next]_vars
BY DEF BarrierNext, LatchedSteps, idle, AsksAgain, Asks, LatchLetsThrough

LEMMA BarrierNextKeepsLatchInv ==
  ASSUME BarrierBase, LatchInv, [BarrierNext]_<<vars, barrier>>
  PROVE  LatchInv'
<1>1. CASE LatchedSteps
  <2>1. Next /\ Latch /\ UNCHANGED <<observed, waiter>>
    BY <1>1 DEF LatchedSteps
  <2>2. LatchMeansConverged'
    BY <2>1, LatchStaysTrue
  <2>3. converged' \in BOOLEAN /\ (phase' = "closed" => converged')
    BY <2>1 DEF Latch
  <2>4. ASSUME waiter' = "waiting", ~converged', phase' = "open", ~owed', settled'
        PROVE  Stirs'
    <3>1. waiter = "waiting" /\ observed /\ quiescent'
      BY <2>1, <2>4 DEF LatchInv, WaiterInv, quiescent
    <3>2. ~converged /\ ~PassEnds
      BY <2>1, <2>4, <3>1 DEF Latch
    <3>3. ~ReconcilePass
      BY <3>2 DEF ReconcilePass, PassEnds
    <3>4. phase = "open" /\ ~owed /\ settled => Stirs
      BY <3>1, <3>2 DEF LatchInv, WaiterInv
    <3>5. QED BY <2>1, <2>4, <3>3, <3>4, SettlingStirs
  <2>5. waiter' = "waiting" => observed'
    BY <2>1 DEF LatchInv, WaiterInv
  <2>6. QED BY <2>1, <2>2, <2>3, <2>4, <2>5 DEF LatchInv, WaiterInv
<1>2. ASSUME UNCHANGED <<vars, converged>>, observed' \in BOOLEAN,
             waiter' = "waiting" => observed',
             waiter' = "waiting" => waiter = "waiting" \/ ~quiescent
      PROVE  LatchInv'
  <2>1. /\ UNCHANGED <<phase, desired, matched, live, outOfBand, closing, cleanup, stop, owed>>
    BY <1>2 DEF vars, scopes, fibers, loops
  <2>2. invalidate' = invalidate
        /\ admissions(live, Authority(live))' = admissions(live, Authority(live))
    BY <2>1, SameDecisions
  <2>3. settled' = settled /\ quiescent' = quiescent /\ Stirs' = Stirs
    BY <2>1 DEF settled, quiescent, Stirs, All
  <2>4. LatchMeansConverged'
    BY <1>2, <2>1, <2>2, <2>3 DEF LatchInv, LatchMeansConverged
  <2>5. WaiterInv'
    BY <1>2, <2>1, <2>3 DEF LatchInv, WaiterInv, quiescent
  <2>6. QED BY <1>2, <2>4, <2>5 DEF LatchInv
<1>3. CASE idle \/ AsksAgain
  BY <1>2, <1>3 DEF idle, AsksAgain, Asks
<1>4. CASE LatchLetsThrough
  BY <1>2, <1>4 DEF LatchLetsThrough, LatchInv
<1>5. CASE UNCHANGED <<vars, barrier>>
  BY <1>2, <1>5 DEF barrier, LatchInv, WaiterInv
<1>6. QED BY <1>1, <1>3, <1>4, <1>5 DEF BarrierNext

LEMMA BarrierMakesSafety ==
  BarrierSpec => BarrierInit /\ [][BarrierNext]_<<vars, barrier>>
BY PTL DEF BarrierSpec

\* The barrier watches and changes nothing: every theorem about the controller
\* holds of it beside its barrier (controller.ts: convergenceObserved, converged).
THEOREM WatchingChangesNothing == BarrierSpec => Spec
<1>1. BarrierInit => Init
  BY DEF BarrierInit
<1>2. [BarrierNext]_<<vars, barrier>> => [Next]_vars
  BY BarrierStepsAsController
<1>3. QED BY <1>1, <1>2, BarrierMakesSafety, PTL DEF Spec

THEOREM BarrierInvariant == BarrierSpec => []BarrierInv
<1>1. BarrierInit => LatchInv
  BY DEF BarrierInit, Init, LatchInv, LatchMeansConverged, WaiterInv
<1>2. BarrierBase /\ LatchInv /\ [BarrierNext]_<<vars, barrier>> => LatchInv'
  BY BarrierNextKeepsLatchInv
<1>3. BarrierBase /\ LatchInv => BarrierInv
  BY DEF BarrierInv
<1>4. QED
  BY <1>1, <1>2, <1>3, BarrierStandsOn, WatchingChangesNothing, BarrierMakesSafety, PTL

\* The latch holds a state of the controller and not an event: while it is open
\* nothing is owed or in flight and a pass would find nothing to do, although a pass
\* may still be due when it opens (controller.ts: converged, isQuiescent, wakeUp).
THEOREM LatchAlwaysMeansConverged == BarrierSpec => []LatchMeansConverged
<1>1. BarrierInv => LatchMeansConverged
  BY DEF BarrierInv, LatchInv
<1>2. QED BY <1>1, BarrierInvariant, PTL

\* Nobody waits on a closed latch with nothing under way that ends in a pass, so
\* no wake-up falls between asking and suspending (controller.ts: idle, onePass).
THEOREM WaiterIsAlwaysOwed == BarrierSpec => []WaiterIsOwed
<1>1. ASSUME BarrierInv, waiter = "waiting", ~converged
      PROVE  \/ owed /\ (wake \/ loop = "due")
             \/ \E g \in Gen : live.status[g] = "starting" \/ cleanup[g] \/ stop[g] # "none"
             \/ phase \in {"closing", "forgotten"}
  <2>1. /\ IInv /\ TypeOK /\ FailedAreClaimed /\ PendingIsCleaned /\ OwedIsComing
        /\ DrainingIsCovered /\ OwnersGround /\ WaiterInv
        /\ live.status \in [Gen -> Lifecycle]
        /\ RetiringIndexAgrees(live)
    BY <1>1 DEF BarrierInv, BarrierBase, LatchInv, OwingInv, ScopeInv, IInv, TypeOK,
                LiveInv, IndexesConsistent, LiveState
  <2>2. CASE phase # "open"
    BY <1>1, <2>1, <2>2 DEF WaiterInv, TypeOK
  <2>3. CASE owed /\ phase = "open"
    BY <2>1, <2>3 DEF OwedIsComing
  <2>4. CASE Obsolete(live) # {} /\ phase = "open"
    <3>1. \E g \in Gen : stop[g] = "closing"
      BY <2>1, <2>4, DrainingHasFiber
    <3>2. QED BY <3>1
  <2>5. CASE phase = "open" /\ ~owed /\ settled
    <3>1. PICK g \in Gen : cleanup[g] \/ stop[g] = "wake"
      BY <1>1, <2>1, <2>5 DEF WaiterInv, Stirs
    <3>2. CASE cleanup[g]
      BY <3>2
    <3>3. CASE stop[g] = "wake"
      BY <3>3
    <3>4. QED BY <3>1, <3>2, <3>3
  <2>6. ASSUME phase = "open", ~settled, Obsolete(live) = {}
        PROVE  \E g \in Gen : live.status[g] = "starting" \/ cleanup[g] \/ stop[g] # "none"
    <3>1. \A s \in Slot : live.retiring[s] = {}
      BY <2>1, <2>6 DEF RetiringIndexAgrees
    <3>2. PICK g \in All(live) :
            live.status[g] \in {"starting", "stopping"} \/ closing[g] = "pending"
      BY <2>6, <3>1 DEF settled
    <3>3. g \in Gen /\ live.status[g] # "stopping" /\ live.status[g] # "none"
      BY <2>6 DEF Obsolete, All
    <3>4. CASE live.status[g] = "starting"
      BY <3>3, <3>4
    <3>5. CASE live.status[g] # "starting"
      <4>1. closing[g] = "pending" /\ live.status[g] \in {"running", "failed"}
        BY <2>1, <3>2, <3>3, <3>5 DEF Lifecycle
      <4>2. live.status[g] = "failed"
        BY <2>1, <3>3, <4>1 DEF FailedAreClaimed, Authority
      <4>3. cleanup[g]
        BY <2>1, <3>3, <4>1, <4>2 DEF PendingIsCleaned
      <4>4. QED BY <3>3, <4>3
    <3>6. QED BY <3>4, <3>5
  <2>7. QED BY <2>2, <2>3, <2>4, <2>5, <2>6
<1>2. BarrierInv => WaiterIsOwed
  BY <1>1 DEF WaiterIsOwed
<1>3. QED BY <1>2, BarrierInvariant, PTL

\* An open latch is the truth about the controller whenever it is looked at, and a
\* closed one is never waited on in vain (controller.ts: converged, idle).
THEOREM LatchAlwaysTells == BarrierSpec => []LatchTells
BY LatchAlwaysMeansConverged, WaiterIsAlwaysOwed, PTL DEF LatchTells
=============================================================================
