---------------------------- MODULE ClosingProofs ----------------------------
(***************************************************************************)
(* What Kernel and Editor have in common: an invariant of physical         *)
(* generations and of the close of their Scopes, and that each kind of     *)
(* step keeps it.  There are four kinds: a close goes on (Closings), a     *)
(* startup ends or generations are retired (Turns), a stop fiber forgets   *)
(* its generation (Forgets), and a pass starts some (Starts).              *)
(***************************************************************************)
EXTENDS Closing, SequenceTheorems, WellFoundedInduction, TLAPS

-----------------------------------------------------------------------------
(***************************************************************************)
(* Loops.  A pass goes through a sequence; what it has when it is through  *)
(* is the last value of a function of how far it got.                      *)
(***************************************************************************)
LEMMA LeastNumber ==
  ASSUME NEW T \in SUBSET Nat, T # {}
  PROVE  \E n \in T : \A m \in T : n <= m
<1> DEFINE R == {ss \in Nat \X Nat : ss[1] < ss[2]}
<1>1. IsWellFoundedOn(R, Nat)
  BY NatLessThanWellFounded DEF OpToRel
<1> HIDE DEF R
<1>2. \E n \in T : \A m \in T : <<m, n>> \notin R
  BY <1>1, WFMin, Zenon
<1>3. ASSUME NEW m \in Nat, NEW n \in Nat, <<m, n>> \notin R PROVE n <= m
  BY <1>3 DEF R
<1>4. QED BY <1>2, <1>3

\* What holds before a loop and is kept by each of its steps holds all along.
LEMMA AllAlong ==
  ASSUME NEW L \in Nat, NEW T, 0 \in T, \A i \in 1 .. L : i - 1 \in T => i \in T
  PROVE  \A i \in 0 .. L : i \in T
<1> SUFFICES ASSUME NEW k \in 0 .. L, k \notin T PROVE FALSE
  OBVIOUS
<1> DEFINE U == {i \in 0 .. L : i \notin T}
<1>1. PICK n \in U : \A m \in U : n <= m
  <2>1. U \in SUBSET Nat /\ U # {}
    OBVIOUS
  <2>2. QED BY <2>1, LeastNumber
<1>2. n \in 1 .. L /\ n - 1 \in 0 .. L
  BY <1>1
<1>3. n - 1 \in T
  BY <1>1, <1>2
<1>4. QED BY <1>1, <1>2, <1>3

\* f tells, for each of L steps, what they have made of `base`.
Loop(f, L, base, step) ==
  /\ f[0] = base
  /\ \A i \in 1 .. L : f[i] = step[i][f[i - 1]]

LEMMA LoopRuns ==
  ASSUME NEW L \in Nat, NEW S, NEW base \in S, NEW step \in [1 .. L -> [S -> S]]
  PROVE  \E f \in [0 .. L -> S] : Loop(f, L, base, step)
<1> DEFINE T == {n \in 0 .. L : \E f \in [0 .. n -> S] : Loop(f, n, base, step)}
<1>1. 0 \in T
  <2> DEFINE f == [i \in 0 .. 0 |-> base]
  <2>1. f \in [0 .. 0 -> S] /\ Loop(f, 0, base, step)
    BY DEF Loop
  <2> HIDE DEF f
  <2>2. 0 \in 0 .. L /\ \E h \in [0 .. 0 -> S] : Loop(h, 0, base, step)
    BY <2>1
  <2>3. QED BY <2>2
<1>2. ASSUME NEW n \in 1 .. L, n - 1 \in T PROVE n \in T
  <2>1. PICK f \in [0 .. n - 1 -> S] : Loop(f, n - 1, base, step)
    BY <1>2
  <2> DEFINE g == [i \in 0 .. n |-> IF i < n THEN f[i] ELSE step[n][f[n - 1]]]
  <2>2. n - 1 \in 0 .. n - 1 /\ \A i \in 0 .. n : i < n => i \in 0 .. n - 1
    OBVIOUS
  <2>3. g \in [0 .. n -> S]
    BY <2>1, <2>2
  <2>4. ASSUME NEW i \in 1 .. n PROVE g[i] = step[i][g[i - 1]]
    <3>1. CASE i < n
      <4>1. i \in 1 .. n - 1 /\ i - 1 \in 0 .. n /\ i - 1 < n
        BY <3>1
      <4>2. f[i] = step[i][f[i - 1]] /\ g[i] = f[i] /\ g[i - 1] = f[i - 1]
        BY <2>1, <3>1, <4>1 DEF Loop
      <4>3. QED BY <4>2
    <3>2. CASE i = n
      <4>1. n - 1 \in 0 .. n /\ n - 1 < n /\ n \in 0 .. n
        OBVIOUS
      <4>2. g[n - 1] = f[n - 1] /\ g[n] = step[n][f[n - 1]]
        BY <4>1
      <4>3. QED BY <3>2, <4>2
    <3>3. QED BY <3>1, <3>2
  <2>5. Loop(g, n, base, step)
    <3>1. g[0] = f[0]
      OBVIOUS
    <3>2. QED BY <2>1, <2>4, <3>1 DEF Loop
  <2> HIDE DEF g
  <2>6. n \in 0 .. L /\ \E h \in [0 .. n -> S] : Loop(h, n, base, step)
    BY <2>3, <2>5
  <2>7. QED BY <2>6
<1>3. L \in T
  <2>1. \A i \in 0 .. L : i \in T
    BY <1>1, <1>2, AllAlong
  <2>2. QED BY <2>1
<1>4. QED BY <1>3

-----------------------------------------------------------------------------
(***************************************************************************)
(* The invariant.                                                          *)
(***************************************************************************)
Insts == [Gen -> Generation]

\* A generation's own fields agree about where it stands.
Sound(gen) ==
  /\ gen.status \in {"starting", "running"} => gen.scope = "open" /\ gen.closing = "none"
  /\ gen.status = "none" => /\ gen.scope # "open" /\ gen.closing # "pending"
                            /\ gen.scope = "closing" => gen.closer = "owner"
  /\ gen.scope = "none" => gen.status = "none"
  /\ gen.stopFiber => gen.status = "stopping"
  /\ gen.closing = "done" => gen.scope = "closed" \/ gen.closer = "owner"
  /\ gen.closer = "nobody" <=> gen.scope \in {"none", "open"}

\* A startup runs in a Scope that is not closed, and a failed one is released by a
\* close of its own.
Kempt(gen) ==
  /\ gen.building => gen.scope \in {"open", "closing"} /\ gen.status \notin {"running", "failed"}
  /\ gen.status = "failed" =>
       /\ gen.closer # "owner"
       /\ gen.closing = "pending" \/ gen.scope = "closed"
       /\ gen.closing = "pending" => gen.cleanup

AllSound == \A g \in Gen : Sound(inst[g])
AllKempt == \A g \in Gen : Kempt(inst[g])

\* `all` names each generation that has a status, once.
Remembers ==
  /\ \A i, j \in DOMAIN all : all[i] = all[j] => i = j
  /\ \A g \in Gen : inst[g].status # "none" <=> g \in Range(all)

Precedes(g, h) == \E i, j \in DOMAIN all : i < j /\ all[i] = g /\ all[j] = h

\* Who has authority stands on an owner that runs and was admitted before it ...
OwnersRun ==
  \A g \in Live(inst) : inst[g].owner # NoGen =>
    inst[inst[g].owner].status = "running" /\ Precedes(inst[g].owner, g)

\* ... and on such providers.
ProvidersRun ==
  \A g \in Live(inst) : \A p \in Range(inst[g].providers) :
    inst[p].status = "running" /\ Precedes(p, g)

\* A Scope its owner's close has reached closes before the owner's does.
ClosesUnderOwner ==
  \A g \in Gen : inst[g].closer = "owner" /\ inst[g].scope = "closing" =>
    inst[g].owner # NoGen /\ inst[inst[g].owner].scope = "closing"

ClosingInv ==
  /\ all \in Seq(Gen) /\ inst \in Insts
  /\ AllSound /\ AllKempt /\ Remembers /\ OwnersRun /\ ProvidersRun /\ ClosesUnderOwner

LEMMA GenerationsAreSound ==
  ASSUME ClosingInv
  PROVE  /\ Range(all) \subseteq Gen /\ inst \in Insts
         /\ \A g \in Gen : /\ inst[g] \in Generation /\ Sound(inst[g]) /\ Kempt(inst[g])
                           /\ inst[g].owner \in Gen \cup {NoGen}
                           /\ inst[g].providers \in Seq(Gen)
BY DEF ClosingInv, AllSound, AllKempt, Insts, Generation, Range

\* What a generation with authority stands on runs, and came before it.
LEMMA StandsOnWhatRuns ==
  ASSUME ClosingInv, NEW g \in Live(inst), NEW h \in standsOn(g)
  PROVE  h \in Gen /\ inst[h].status = "running" /\ Precedes(h, g)
<1>1. g \in Gen /\ inst[g].owner \in Gen \cup {NoGen} /\ inst[g].providers \in Seq(Gen)
  BY GenerationsAreSound DEF Live
<1>2. CASE h = inst[g].owner
  BY <1>1, <1>2 DEF standsOn, ClosingInv, OwnersRun
<1>3. CASE h \in Range(inst[g].providers)
  <2>1. h \in Gen
    BY <1>1, <1>3 DEF Range
  <2>2. QED BY <1>3, <2>1 DEF ClosingInv, ProvidersRun
<1>4. QED BY <1>2, <1>3 DEF standsOn

\* What a generation has to release itself, its owner not having reached it.
Held(g) == inst[g].scope \in {"open", "closing"} /\ inst[g].closer # "owner"

\* What has no status holds nothing that is its own, and what starts or runs does.
LEMMA WhoHolds ==
  ASSUME ClosingInv, NEW g \in Gen
  PROVE  /\ inst[g].status = "none" => ~Held(g)
         /\ inst[g].status \in {"starting", "running"} => Held(g)
BY GenerationsAreSound DEF Sound, Held, Generation

-----------------------------------------------------------------------------
(***************************************************************************)
(* One generation.                                                         *)
(***************************************************************************)
LEMMA NobodyIsSound ==
  /\ Nobody \in Generation /\ Sound(Nobody) /\ Kempt(Nobody)
  /\ Nobody.status = "none" /\ Nobody.scope = "none" /\ Nobody.owner = NoGen
BY EmptySeq DEF Nobody, Generation, Sound, Kempt

LEMMA AdmittedIsSound ==
  ASSUME NEW o \in Gen \cup {NoGen}, NEW ps \in Seq(Gen)
  PROVE  /\ Admitted(o, ps) \in Generation /\ Sound(Admitted(o, ps)) /\ Kempt(Admitted(o, ps))
         /\ Admitted(o, ps).owner = o /\ Admitted(o, ps).providers = ps
         /\ Admitted(o, ps).status = "starting" /\ Admitted(o, ps).closing = "none"
         /\ Admitted(o, ps).scope = "open" /\ Admitted(o, ps).closer = "nobody"
BY DEF Admitted, Nobody, Generation, Sound, Kempt

LEMMA StoppingIsSound ==
  ASSUME NEW gen \in Generation, Sound(gen), Kempt(gen),
         gen.status \in {"starting", "running", "failed"}
  PROVE  /\ Stopping(gen) \in Generation /\ Sound(Stopping(gen)) /\ Kempt(Stopping(gen))
         /\ Stopping(gen).status = "stopping"
         /\ Stopping(gen).owner = gen.owner /\ Stopping(gen).providers = gen.providers
         /\ Stopping(gen).scope = gen.scope /\ Stopping(gen).closer = gen.closer
<1> DEFINE s == Stopping(gen)
<1>1. /\ s \in Generation /\ s.status = "stopping" /\ s.stopFiber = TRUE
      /\ s.closing = (IF gen.closing = "none" THEN "pending" ELSE gen.closing)
      /\ s.owner = gen.owner /\ s.providers = gen.providers
      /\ s.scope = gen.scope /\ s.closer = gen.closer /\ s.building = gen.building
  BY DEF Stopping, Generation
<1> HIDE DEF s
<1>2. Sound(s)
  BY <1>1 DEF Sound
<1>3. Kempt(s)
  BY <1>1 DEF Kempt
<1>4. QED BY <1>1, <1>2, <1>3 DEF s

LEMMA ReturnedIsSound ==
  ASSUME NEW gen \in Generation, Sound(gen), Kempt(gen), gen.closing = "pending",
         gen.scope = "closed" \/ gen.closer = "owner"
  PROVE  /\ returned(gen) \in Generation /\ Sound(returned(gen)) /\ Kempt(returned(gen))
         /\ returned(gen).status = gen.status /\ returned(gen).closing = "done"
         /\ returned(gen).owner = gen.owner /\ returned(gen).providers = gen.providers
         /\ returned(gen).scope = gen.scope /\ returned(gen).closer = gen.closer
<1> DEFINE r == returned(gen)
<1>1. /\ r \in Generation /\ r.status = gen.status /\ r.closing = "done"
      /\ r.owner = gen.owner /\ r.providers = gen.providers /\ r.stopFiber = gen.stopFiber
      /\ r.scope = gen.scope /\ r.closer = gen.closer /\ r.building = gen.building
  BY DEF returned, Generation
<1> HIDE DEF r
<1>2. Sound(r)
  BY <1>1 DEF Sound
<1>3. Kempt(r)
  BY <1>1 DEF Kempt
<1>4. QED BY <1>1, <1>2, <1>3 DEF r


-----------------------------------------------------------------------------
(***************************************************************************)
(* A close goes on.                                                        *)
(***************************************************************************)
\* It leaves every status, and what those who are not forgotten stand on.  Nobody comes
\* to hold anything, and only who failed or drains lets go.
Closings ==
  /\ all' = all
  /\ inst' \in Insts
  /\ \A g \in Gen :
       /\ inst'[g].status = inst[g].status
       /\ inst[g].status # "none" => /\ inst'[g].owner = inst[g].owner
                                     /\ inst'[g].providers = inst[g].providers
       /\ Held(g)' => Held(g)
       /\ inst[g].status \notin {"failed", "stopping"} => (Held(g)' <=> Held(g))
       /\ inst'[g].scope \in {"open", "closing"} =>
            inst[g].scope \in {"open", "closing"} /\ inst'[g].owner = inst[g].owner
       /\ inst[g] = Nobody => inst'[g] = Nobody

LEMMA ClosingsKeep ==
  ASSUME ClosingInv, Closings, AllSound', AllKempt', ClosesUnderOwner'
  PROVE  ClosingInv'
<1>1. all' \in Seq(Gen) /\ inst' \in Insts /\ Remembers'
  BY DEF ClosingInv, Closings, Remembers
<1>2. Live(inst') = Live(inst)
  BY DEF Closings, Live
<1>3. ASSUME NEW g \in Live(inst)
      PROVE  /\ inst'[g].owner = inst[g].owner /\ inst'[g].providers = inst[g].providers
             /\ \A h \in standsOn(g) : inst'[h].status = "running" /\ Precedes(h, g)'
  <2>1. inst'[g].owner = inst[g].owner /\ inst'[g].providers = inst[g].providers
    BY DEF Closings, Live
  <2>2. ASSUME NEW h \in standsOn(g) PROVE inst'[h].status = "running" /\ Precedes(h, g)'
    <3>1. h \in Gen /\ inst[h].status = "running" /\ Precedes(h, g)
      BY StandsOnWhatRuns
    <3>2. QED BY <3>1 DEF Closings, Precedes
  <2>3. QED BY <2>1, <2>2
<1>4. ASSUME NEW g \in Live(inst)
      PROVE  NoGen \notin Range(inst[g].providers)
  BY GenerationsAreSound, ClosingAssumption DEF Live, Range
<1>5. OwnersRun' /\ ProvidersRun'
  BY <1>2, <1>3, <1>4 DEF OwnersRun, ProvidersRun, standsOn
<1>6. QED BY <1>1, <1>5 DEF ClosingInv

\* One generation's close goes on.
LEMMA OneCloses ==
  ASSUME ClosingInv, NEW g \in Gen, NEW gen \in Generation, all' = all,
         inst' = [inst EXCEPT ![g] = gen], Sound(gen), Kempt(gen), inst[g] # Nobody,
         gen.status = inst[g].status,
         gen.owner = inst[g].owner, gen.providers = inst[g].providers,
         \/ gen.scope = inst[g].scope /\ gen.closer = inst[g].closer
         \/ /\ inst[g].scope = "open" /\ gen.scope = "closing"
            /\ \/ gen.closer = "self"
               \/ /\ gen.closer = "owner" /\ inst[g].status \in {"failed", "stopping"}
                  /\ gen.owner \in Gen /\ inst[gen.owner].scope = "closing"
  PROVE  Closings /\ ClosingInv'
<1>1. inst \in Insts /\ \A h \in Gen : Sound(inst[h]) /\ Kempt(inst[h])
  BY GenerationsAreSound
<1>2. inst' \in Insts /\ inst'[g] = gen /\ \A h \in Gen : h # g => inst'[h] = inst[h]
  BY <1>1 DEF Insts
<1>3. AllSound' /\ AllKempt'
  BY <1>1, <1>2 DEF AllSound, AllKempt
<1>4. inst[g].scope = "open" => inst[g].closer = "nobody"
  BY <1>1 DEF Sound
<1>5. Closings
  BY <1>2, <1>4 DEF Closings, Held
<1>6. ClosesUnderOwner'
  <2> SUFFICES ASSUME NEW h \in Gen, inst'[h].closer = "owner", inst'[h].scope = "closing"
               PROVE  inst'[h].owner # NoGen /\ inst'[inst'[h].owner].scope = "closing"
    BY DEF ClosesUnderOwner
  <2>1. inst'[h].owner = inst[h].owner /\ inst[h].owner \in Gen \cup {NoGen}
    BY <1>2, GenerationsAreSound
  <2>2. inst[h].owner \in Gen /\ inst[inst[h].owner].scope = "closing"
    <3>1. CASE inst[h].closer = "owner" /\ inst[h].scope = "closing"
      BY <2>1, <3>1 DEF ClosingInv, ClosesUnderOwner
    <3>2. CASE ~(inst[h].closer = "owner" /\ inst[h].scope = "closing")
      <4>1. h = g /\ ~(gen.scope = inst[g].scope /\ gen.closer = inst[g].closer)
            /\ gen.closer = "owner"
        BY <1>2, <3>2
      <4>2. QED BY <4>1
    <3>3. QED BY <3>1, <3>2
  <2>3. inst'[inst[h].owner].scope = "closing"
    BY <1>2, <2>2
  <2>4. QED BY <2>1, <2>2, <2>3, ClosingAssumption
<1>7. QED BY <1>3, <1>5, <1>6, ClosingsKeep

LEMMA ClosesKeeps ==
  ASSUME ClosingInv, NEW g \in Gen, closes(g), all' = all
  PROVE  Closings /\ ClosingInv'
<1> DEFINE gen == [inst[g] EXCEPT !.scope = "closing", !.closer = "self"]
<1>1. inst[g] \in Generation /\ Sound(inst[g]) /\ Kempt(inst[g])
  BY GenerationsAreSound
<1>2. /\ inst' = [inst EXCEPT ![g] = gen]
      /\ inst[g].closing = "pending" /\ inst[g].closer = "nobody"
  BY DEF closes
<1>3. inst[g].scope = "open" /\ inst[g] # Nobody
  BY <1>1, <1>2 DEF Sound, Nobody, Generation
<1>4. /\ gen \in Generation /\ gen.scope = "closing" /\ gen.closer = "self"
      /\ gen.status = inst[g].status /\ gen.closing = inst[g].closing
      /\ gen.owner = inst[g].owner /\ gen.providers = inst[g].providers
      /\ gen.stopFiber = inst[g].stopFiber /\ gen.building = inst[g].building
      /\ gen.cleanup = inst[g].cleanup
  BY <1>1 DEF Generation
<1> HIDE DEF gen
<1>5. Sound(gen)
  BY <1>1, <1>2, <1>3, <1>4 DEF Sound
<1>6. Kempt(gen)
  BY <1>1, <1>2, <1>4 DEF Kempt
<1>7. QED BY <1>2, <1>3, <1>4, <1>5, <1>6, OneCloses

LEMMA FindsClosedKeeps ==
  ASSUME ClosingInv, NEW g \in Gen, findsClosed(g), all' = all
  PROVE  Closings /\ ClosingInv'
<1> DEFINE gen == returned(inst[g])
<1>1. inst[g] \in Generation /\ Sound(inst[g]) /\ Kempt(inst[g])
  BY GenerationsAreSound
<1>2. /\ inst' = [inst EXCEPT ![g] = gen]
      /\ inst[g].closing = "pending" /\ inst[g].closer = "owner"
  BY DEF findsClosed
<1>3. inst[g] # Nobody
  BY <1>2 DEF Nobody
<1> HIDE DEF gen
<1>4. /\ gen \in Generation /\ Sound(gen) /\ Kempt(gen)
      /\ gen.status = inst[g].status /\ gen.scope = inst[g].scope /\ gen.closer = inst[g].closer
      /\ gen.owner = inst[g].owner /\ gen.providers = inst[g].providers
  BY <1>1, <1>2, ReturnedIsSound DEF gen
<1>5. QED BY <1>2, <1>3, <1>4, OneCloses

\* Whoever has authority is not reached: its owner still runs, with its Scope open.
LEMMA ReachedIsDraining ==
  ASSUME ClosingInv, NEW g \in Gen, NEW c \in Gen, reaches(g, c)
  PROVE  inst[c].status = "stopping"
<1>1. inst[g].scope = "closing" /\ inst[c].owner = g /\ inst[c].scope = "open"
  BY DEF reaches, children
<1>2. Sound(inst[c]) /\ Sound(inst[g]) /\ inst[c] \in Generation
  BY GenerationsAreSound
<1>3. ASSUME c \in Live(inst) PROVE FALSE
  <2>1. g # NoGen
    BY ClosingAssumption
  <2>2. inst[g].status = "running"
    BY <1>1, <1>3, <2>1 DEF ClosingInv, OwnersRun
  <2>3. QED BY <1>1, <1>2, <2>2 DEF Sound
<1>4. inst[c].status # "none"
  BY <1>1, <1>2 DEF Sound
<1>5. QED BY <1>2, <1>3, <1>4 DEF Live, Generation

LEMMA ReachesKeeps ==
  ASSUME ClosingInv, NEW g \in Gen, NEW c \in Gen, reaches(g, c), all' = all
  PROVE  Closings /\ ClosingInv'
<1> DEFINE gen == [inst[c] EXCEPT !.scope = "closing", !.closer = "owner"]
<1>1. inst[c] \in Generation /\ Sound(inst[c]) /\ Kempt(inst[c])
  BY GenerationsAreSound
<1>2. /\ inst' = [inst EXCEPT ![c] = gen]
      /\ inst[g].scope = "closing" /\ inst[c].owner = g /\ inst[c].scope = "open"
  BY DEF reaches, children
<1>3. inst[c].status = "stopping" /\ inst[c] # Nobody
  BY <1>2, ReachedIsDraining DEF Nobody
<1>4. /\ gen \in Generation /\ gen.scope = "closing" /\ gen.closer = "owner"
      /\ gen.status = inst[c].status /\ gen.closing = inst[c].closing
      /\ gen.owner = inst[c].owner /\ gen.providers = inst[c].providers
      /\ gen.stopFiber = inst[c].stopFiber /\ gen.building = inst[c].building
  BY <1>1 DEF Generation
<1> HIDE DEF gen
<1>5. Sound(gen)
  BY <1>1, <1>2, <1>3, <1>4 DEF Sound
<1>6. Kempt(gen)
  BY <1>1, <1>2, <1>3, <1>4 DEF Kempt
<1>7. QED BY <1>2, <1>3, <1>4, <1>5, <1>6, OneCloses
-----------------------------------------------------------------------------
(***************************************************************************)
(* A Scope is released, or a generation forgotten; and with that those     *)
(* whom nothing remembers.                                                 *)
(***************************************************************************)
\* g becomes gen, and some who have no status are forgotten with that.
Tidies(g, gen) ==
  /\ all' \in Seq(Gen)
  /\ \A i, j \in DOMAIN all' : all'[i] = all'[j] => i = j
  /\ inst' = [h \in Gen |-> inst'[h]]
  /\ \A h \in Gen \ {g} :
       /\ inst[h].status # "none" <=> h \in Range(all')
       /\ inst'[h] # inst[h] => /\ inst'[h] = Nobody
                                /\ inst[h].status = "none" /\ inst[h].scope \in {"none", "closed"}
  /\ gen.status # "none" <=> g \in Range(all')
  /\ inst'[g] # gen => /\ inst'[g] = Nobody
                       /\ gen.status = "none" /\ gen.scope \in {"none", "closed"}

LEMMA TidyingTidies ==
  ASSUME ClosingInv, NEW g \in Gen, NEW gen, NEW mid, mid = [inst EXCEPT ![g] = gen],
         inst' = tidied(mid, Range(all')),
         all' \in Seq(Gen), \A i, j \in DOMAIN all' : all'[i] = all'[j] => i = j,
         \A h \in Gen : mid[h].status # "none" <=> h \in Range(all')
  PROVE  Tidies(g, gen)
<1>1. mid[g] = gen /\ \A h \in Gen \ {g} : mid[h] = inst[h]
  BY GenerationsAreSound DEF Insts
<1>2. \A h \in Gen : \/ inst'[h] = mid[h]
                     \/ /\ inst'[h] = Nobody
                        /\ h \notin Range(all') /\ mid[h].scope \in {"none", "closed"}
  <2>1. \A h \in Gen : \/ tidied(mid, Range(all'))[h] = mid[h]
                       \/ /\ tidied(mid, Range(all'))[h] = Nobody
                          /\ h \notin Range(all') /\ mid[h].scope \in {"none", "closed"}
    BY DEF tidied
  <2>2. QED BY <2>1
<1>3. inst' = [h \in Gen |-> inst'[h]]
  BY DEF tidied
<1>4. \A h \in Gen \ {g} :
        /\ inst[h].status # "none" <=> h \in Range(all')
        /\ inst'[h] # inst[h] => /\ inst'[h] = Nobody
                                 /\ inst[h].status = "none" /\ inst[h].scope \in {"none", "closed"}
  BY <1>1, <1>2
<1>5. /\ gen.status # "none" <=> g \in Range(all')
      /\ inst'[g] # gen => /\ inst'[g] = Nobody
                           /\ gen.status = "none" /\ gen.scope \in {"none", "closed"}
  BY <1>1, <1>2
<1>6. QED BY <1>3, <1>4, <1>5 DEF Tidies

\* What the invariant asks of that.
LEMMA TidyingKeeps ==
  ASSUME ClosingInv, NEW g \in Gen, NEW gen \in Generation, Tidies(g, gen),
         Sound(gen), Kempt(gen), gen.closer = inst[g].closer,
         gen.owner = inst[g].owner, gen.providers = inst[g].providers,
         \/ gen.scope = inst[g].scope
         \/ /\ gen.scope = "closed"
            /\ \A c \in Gen : inst[c].owner = g /\ inst[c].closer = "owner" =>
                 inst[c].scope = "closed",
         \/ all' = all /\ gen.status = inst[g].status
         \/ /\ inst[g].status = "stopping" /\ gen.status = "none"
            /\ \A p, h \in Gen \ {g} : Precedes(p, h) => Precedes(p, h)'
  PROVE  ClosingInv'
<1>1. inst \in Insts /\ \A h \in Gen : inst[h] \in Generation /\ Sound(inst[h]) /\ Kempt(inst[h])
  BY GenerationsAreSound
<1>2. ASSUME NEW h \in Gen
      PROVE  /\ inst'[h] \in Generation /\ Sound(inst'[h]) /\ Kempt(inst'[h])
             /\ inst'[h].status # "none" <=> h \in Range(all')
  <2>1. CASE h = g
    BY <2>1, NobodyIsSound DEF Tidies
  <2>2. CASE h # g
    BY <1>1, <2>2, NobodyIsSound DEF Tidies
  <2>3. QED BY <2>1, <2>2
<1>3. inst' \in Insts /\ AllSound' /\ AllKempt' /\ Remembers'
  BY <1>2 DEF Tidies, Insts, AllSound, AllKempt, Remembers
<1>4. ASSUME NEW h \in Live(inst')
      PROVE  /\ h \in Live(inst) /\ inst'[h].owner = inst[h].owner
             /\ inst'[h].providers = inst[h].providers
             /\ \A p \in standsOn(h) : inst'[p].status = "running" /\ Precedes(p, h)'
  <2>1. h \in Gen /\ inst'[h].status \in {"starting", "running", "failed"}
    BY DEF Live
  <2>2. /\ inst'[h].status = inst[h].status /\ inst'[h].owner = inst[h].owner
        /\ inst'[h].providers = inst[h].providers
    <3>1. CASE h = g
      BY <2>1, <3>1, NobodyIsSound DEF Tidies
    <3>2. CASE h # g
      BY <2>1, <3>2, NobodyIsSound DEF Tidies
    <3>3. QED BY <3>1, <3>2
  <2>3. h \in Live(inst)
    BY <2>1, <2>2 DEF Live
  <2>4. ASSUME NEW p \in standsOn(h) PROVE inst'[p].status = "running" /\ Precedes(p, h)'
    <3>1. p \in Gen /\ inst[p].status = "running" /\ Precedes(p, h)
      BY <2>3, StandsOnWhatRuns
    <3>2. CASE all' = all /\ gen.status = inst[g].status
      <4>1. inst'[p].status = "running"
        BY <3>1, <3>2 DEF Tidies
      <4>2. QED BY <3>1, <3>2, <4>1 DEF Precedes
    <3>3. CASE /\ inst[g].status = "stopping"
               /\ \A q, k \in Gen \ {g} : Precedes(q, k) => Precedes(q, k)'
      <4>1. p # g /\ h # g
        BY <2>1, <2>2, <3>1, <3>3
      <4>2. inst'[p].status = "running"
        BY <3>1, <4>1 DEF Tidies
      <4>3. QED BY <2>1, <3>1, <3>3, <4>1, <4>2
    <3>4. QED BY <3>2, <3>3
  <2>5. QED BY <2>2, <2>3, <2>4
<1>5. OwnersRun' /\ ProvidersRun'
  <2>1. \A h \in Live(inst) : NoGen \notin Range(inst[h].providers)
    BY GenerationsAreSound, ClosingAssumption DEF Live, Range
  <2>2. QED BY <1>4, <2>1 DEF OwnersRun, ProvidersRun, standsOn
<1>6. ClosesUnderOwner'
  <2> SUFFICES ASSUME NEW h \in Gen, inst'[h].closer = "owner", inst'[h].scope = "closing"
               PROVE  inst'[h].owner # NoGen /\ inst'[inst'[h].owner].scope = "closing"
    BY DEF ClosesUnderOwner
  <2>1. /\ inst'[h].owner = inst[h].owner
        /\ inst[h].closer = "owner" /\ inst[h].scope = "closing"
    <3>1. CASE h = g
      BY <3>1, NobodyIsSound DEF Tidies
    <3>2. CASE h # g
      BY <3>2, NobodyIsSound DEF Tidies
    <3>3. QED BY <3>1, <3>2
  <2> DEFINE o == inst[h].owner
  <2>2. o \in Gen /\ o # NoGen /\ inst[o].scope = "closing"
    <3>1. o # NoGen /\ inst[o].scope = "closing"
      BY <2>1 DEF ClosingInv, ClosesUnderOwner
    <3>2. QED BY <3>1, GenerationsAreSound
  <2>3. o = g => gen.scope = "closing"
    BY <2>1, <2>2
  <2> HIDE DEF o
  <2>4. inst'[o].scope = "closing"
    BY <2>2, <2>3 DEF Tidies
  <2>5. QED BY <2>1, <2>2, <2>4 DEF o
<1>7. QED BY <1>3, <1>5, <1>6 DEF ClosingInv, Tidies

LEMMA ReleasesKeeps ==
  ASSUME ClosingInv, NEW g \in Gen, releases(g), all' = all
  PROVE  Closings /\ ClosingInv'
<1> DEFINE released == [inst[g] EXCEPT !.scope = "closed", !.building = FALSE]
           gen == IF inst[g].closer = "self" THEN returned(released) ELSE released
           mid == [inst EXCEPT ![g] = gen]
<1>1. inst[g] \in Generation /\ Sound(inst[g]) /\ Kempt(inst[g]) /\ inst \in Insts
  BY GenerationsAreSound
<1>2. /\ inst' = tidied(mid, Range(all))
      /\ inst[g].scope = "closing"
      /\ \A c \in children(g) : inst[c].closer = "owner" => inst[c].scope = "closed"
  <2>1. inst' = tidied(mid, Range(all))
    BY Zenon DEF releases
  <2>2. QED BY <2>1 DEF releases
<1>3. /\ gen \in Generation /\ gen.scope = "closed" /\ gen.closer = inst[g].closer
      /\ gen.status = inst[g].status /\ gen.building = FALSE
      /\ gen.owner = inst[g].owner /\ gen.providers = inst[g].providers
      /\ gen.stopFiber = inst[g].stopFiber
      /\ gen.closing \in {"done", inst[g].closing}
      /\ gen.closing = inst[g].closing => gen.cleanup = inst[g].cleanup \/ gen.closing = "done"
  BY <1>1 DEF returned, Generation
<1>4. inst[g].status \in {"none", "failed", "stopping"}
  BY <1>1, <1>2 DEF Sound, Generation
<1>5. Sound(gen) /\ Kempt(gen)
  BY <1>1, <1>2, <1>3, <1>4 DEF Sound, Kempt
<1> HIDE DEF gen
<1>6. mid[g] = gen /\ \A h \in Gen : mid[h].status = inst[h].status
  BY <1>1, <1>3 DEF Insts
<1>7. Range(all') = Range(all)
  OBVIOUS
<1>8. mid = [inst EXCEPT ![g] = gen]
  OBVIOUS
<1> HIDE DEF mid
<1>9. Tidies(g, gen)
  <2>1. /\ all' \in Seq(Gen) /\ \A i, j \in DOMAIN all' : all'[i] = all'[j] => i = j
        /\ \A h \in Gen : mid[h].status # "none" <=> h \in Range(all')
    BY <1>6, <1>7 DEF ClosingInv, Remembers
  <2>2. inst' = tidied(mid, Range(all'))
    BY <1>2, <1>7
  <2>3. QED BY <1>8, <2>1, <2>2, TidyingTidies
<1>10. ClosingInv'
  BY <1>2, <1>3, <1>5, <1>9, TidyingKeeps DEF children
<1>11. ASSUME NEW h \in Gen
       PROVE  /\ inst'[h].status = inst[h].status
              /\ inst[h].status # "none" => /\ inst'[h].owner = inst[h].owner
                                            /\ inst'[h].providers = inst[h].providers
              /\ Held(h)' => Held(h)
              /\ inst[h].status \notin {"failed", "stopping"} => (Held(h)' <=> Held(h))
              /\ inst'[h].scope \in {"open", "closing"} =>
                   inst[h].scope \in {"open", "closing"} /\ inst'[h].owner = inst[h].owner
              /\ inst[h] = Nobody => inst'[h] = Nobody
  <2>1. CASE h = g
    <3>1. ~Held(g)'
      BY <1>3, <1>9, NobodyIsSound DEF Tidies, Held
    <3>2. inst[g].status = "none" => ~Held(g)
      BY WhoHolds
    <3>3. inst'[g].scope \notin {"open", "closing"}
      BY <1>3, <1>9, NobodyIsSound DEF Tidies
    <3>4. inst[g] # Nobody
      BY <1>2, NobodyIsSound
    <3>5. /\ inst'[g].status = inst[g].status
          /\ inst[g].status # "none" => /\ inst'[g].owner = inst[g].owner
                                        /\ inst'[g].providers = inst[g].providers
      BY <1>3, <1>9, NobodyIsSound DEF Tidies
    <3>6. QED BY <1>4, <2>1, <3>1, <3>2, <3>3, <3>4, <3>5
  <2>2. CASE h # g /\ inst'[h] = inst[h]
    BY <2>2 DEF Held
  <2>3. CASE h # g /\ inst'[h] = Nobody /\ inst[h].status = "none"
             /\ inst[h].scope \in {"none", "closed"}
    BY <2>3, NobodyIsSound DEF Held
  <2>4. QED BY <1>9, <2>1, <2>2, <2>3 DEF Tidies
<1>12. inst' \in Insts
  BY <1>10 DEF ClosingInv
<1>13. QED BY <1>10, <1>11, <1>12 DEF Closings
-----------------------------------------------------------------------------
(***************************************************************************)
(* The stop fiber forgets its generation.                                  *)
(***************************************************************************)
\* as is all, without g and in the same order.
Without(as, g) ==
  /\ as \in Seq(Gen)
  /\ \A i, j \in DOMAIN as : as[i] = as[j] => i = j
  /\ \A h \in Gen : h \in Range(as) <=> h \in Range(all) /\ h # g
  /\ \A i, j \in DOMAIN all : i < j /\ all[i] # g /\ all[j] # g =>
       \E k, l \in DOMAIN as : k < l /\ as[k] = all[i] /\ as[l] = all[j]

LEMMA AllButForgets ==
  ASSUME all \in Seq(Gen), Remembers, NEW g \in Gen, g \in Range(all)
  PROVE  Without(allBut(g), g)
<1> DEFINE n == CHOOSE i \in DOMAIN all : all[i] = g
           L == Len(all)
           as == allBut(g)
<1>1. L \in Nat /\ DOMAIN all = 1 .. L /\ \A i \in 1 .. L : all[i] \in Gen
  OBVIOUS
<1>2. n \in 1 .. L /\ all[n] = g
  BY <1>1 DEF Range
<1>3. \A i \in 1 .. L : all[i] = g => i = n
  BY <1>1, <1>2 DEF Remembers
<1>4. as = SubSeq(all, 1, n - 1) \o SubSeq(all, n + 1, L)
  BY DEF allBut, RemoveAt
<1> HIDE DEF n
<1> DEFINE left == SubSeq(all, 1, n - 1)
           right == SubSeq(all, n + 1, L)
<1>5. /\ left \in Seq(Gen) /\ Len(left) = n - 1
      /\ \A i \in 1 .. n - 1 : left[i] = all[i]
  <2>1. n - 1 \in Int /\ \A i \in 1 .. n - 1 : all[i] \in Gen
    BY <1>1, <1>2
  <2>2. /\ left \in Seq(Gen)
        /\ Len(left) = IF 1 <= n - 1 THEN (n - 1) - 1 + 1 ELSE 0
        /\ \A i \in 1 .. (n - 1) - 1 + 1 : left[i] = all[1 + i - 1]
    BY <2>1, SubSeqProperties
  <2> HIDE DEF left
  <2>3. Len(left) = n - 1 /\ (n - 1) - 1 + 1 = n - 1 /\ \A i \in Int : 1 + i - 1 = i
    BY <1>1, <1>2, <2>2
  <2>4. QED BY <2>2, <2>3
<1>6. /\ right \in Seq(Gen) /\ Len(right) = L - n
      /\ \A i \in 1 .. L - n : right[i] = all[n + i]
  <2>1. n + 1 \in Int /\ L \in Int /\ \A i \in n + 1 .. L : all[i] \in Gen
    BY <1>1, <1>2
  <2>2. /\ right \in Seq(Gen)
        /\ Len(right) = IF n + 1 <= L THEN L - (n + 1) + 1 ELSE 0
        /\ \A i \in 1 .. L - (n + 1) + 1 : right[i] = all[n + 1 + i - 1]
    <3> HIDE DEF L
    <3>1. QED BY <2>1, SubSeqProperties
  <2> HIDE DEF right, L
  <2>3. Len(right) = L - n /\ L - (n + 1) + 1 = L - n
    BY <1>1, <1>2, <2>2
  <2>4. ASSUME NEW i \in 1 .. L - n PROVE right[i] = all[n + i]
    <3>1. i \in 1 .. L - (n + 1) + 1 /\ n + 1 + i - 1 = n + i
      BY <1>1, <1>2
    <3>2. right[i] = all[n + 1 + i - 1]
      BY <2>2, <3>1
    <3>3. QED BY <3>1, <3>2
  <2>5. QED BY <2>2, <2>3, <2>4
<1> HIDE DEF left, right
<1>7. /\ as \in Seq(Gen) /\ DOMAIN as = 1 .. L - 1
      /\ \A i \in 1 .. n - 1 : as[i] = all[i]
      /\ \A i \in n .. L - 1 : as[i] = all[i + 1]
  <2>1. as = left \o right
    BY <1>4 DEF left, right
  <2> HIDE DEF as, L
  <2>2. /\ as \in Seq(Gen) /\ Len(as) = Len(left) + Len(right)
        /\ \A i \in 1 .. Len(left) + Len(right) :
             as[i] = IF i <= Len(left) THEN left[i] ELSE right[i - Len(left)]
    BY <1>5, <1>6, <2>1, ConcatProperties
  <2>3. Len(as) = L - 1 /\ Len(left) + Len(right) = L - 1
    BY <1>1, <1>2, <1>5, <1>6, <2>2
  <2>4. DOMAIN as = 1 .. L - 1
    BY <2>2, <2>3
  <2>5. ASSUME NEW i \in 1 .. n - 1 PROVE as[i] = all[i]
    <3>1. i \in 1 .. L - 1 /\ i <= Len(left)
      BY <1>1, <1>2, <1>5
    <3>2. QED BY <1>5, <2>2, <2>3, <3>1
  <2>6. ASSUME NEW i \in n .. L - 1 PROVE as[i] = all[i + 1]
    <3>1. i \in 1 .. L - 1 /\ ~(i <= Len(left)) /\ i - Len(left) \in 1 .. L - n
          /\ n + (i - Len(left)) = i + 1
      BY <1>1, <1>2, <1>5
    <3>2. as[i] = right[i - Len(left)]
      BY <2>2, <2>3, <3>1
    <3>3. QED BY <1>6, <3>1, <3>2
  <2>7. QED BY <2>2, <2>4, <2>5, <2>6
<1> HIDE DEF as, L
\* Where `as` has its i-th from, and where it has the i-th of `all`.
<1> DEFINE at == [i \in 1 .. L - 1 |-> IF i < n THEN i ELSE i + 1]
           to == [i \in 1 .. L |-> IF i < n THEN i ELSE i - 1]
<1>8. ASSUME NEW i \in 1 .. L - 1
      PROVE  at[i] \in 1 .. L /\ at[i] # n /\ as[i] = all[at[i]]
  <2>1. CASE i < n
    <3>1. i \in 1 .. n - 1 /\ at[i] = i /\ i \in 1 .. L /\ i # n
      BY <1>1, <1>2, <2>1
    <3> HIDE DEF at
    <3>2. QED BY <1>7, <3>1
  <2>2. CASE ~(i < n)
    <3>1. i \in n .. L - 1 /\ at[i] = i + 1 /\ i + 1 \in 1 .. L /\ i + 1 # n
      BY <1>1, <1>2, <2>2
    <3> HIDE DEF at
    <3>2. QED BY <1>7, <3>1
  <2>3. QED BY <2>1, <2>2
<1>9. ASSUME NEW i \in 1 .. L, i # n PROVE to[i] \in 1 .. L - 1 /\ as[to[i]] = all[i]
  <2>1. CASE i < n
    <3>1. i \in 1 .. n - 1 /\ to[i] = i /\ i \in 1 .. L - 1
      BY <1>1, <1>2, <2>1
    <3> HIDE DEF to
    <3>2. QED BY <1>7, <3>1
  <2>2. CASE ~(i < n)
    <3>1. i - 1 \in n .. L - 1 /\ to[i] = i - 1 /\ i - 1 \in 1 .. L - 1
      BY <1>1, <1>2, <1>9, <2>2
    <3>2. (i - 1) + 1 = i
      OBVIOUS
    <3>3. as[i - 1] = all[(i - 1) + 1]
      BY <1>7, <3>1
    <3> HIDE DEF to
    <3>4. QED BY <3>1, <3>2, <3>3
  <2>3. QED BY <2>1, <2>2
<1>10. \A i, j \in 1 .. L - 1 : at[i] = at[j] => i = j
  BY <1>1, <1>2
<1>11. \A i, j \in 1 .. L : i < j /\ i # n /\ j # n => to[i] < to[j]
  BY <1>1, <1>2
<1> HIDE DEF at, to
<1>12. ASSUME NEW i \in DOMAIN as, NEW j \in DOMAIN as, as[i] = as[j] PROVE i = j
  <2>1. i \in 1 .. L - 1 /\ j \in 1 .. L - 1
    BY <1>7
  <2>2. /\ at[i] \in DOMAIN all /\ as[i] = all[at[i]]
        /\ at[j] \in DOMAIN all /\ as[j] = all[at[j]]
    BY <1>1, <1>8, <2>1
  <2>3. at[i] = at[j]
    BY <1>12, <2>2 DEF Remembers
  <2>4. QED BY <1>10, <2>1, <2>3
<1>13. ASSUME NEW h \in Gen PROVE h \in Range(as) <=> h \in Range(all) /\ h # g
  <2>1. ASSUME h \in Range(as) PROVE h \in Range(all) /\ h # g
    <3>1. PICK i \in 1 .. L - 1 : as[i] = h
      BY <1>7, <2>1 DEF Range
    <3>2. at[i] \in 1 .. L /\ at[i] # n /\ h = all[at[i]]
      BY <1>8, <3>1
    <3>3. QED BY <1>1, <1>3, <3>2 DEF Range
  <2>2. ASSUME h \in Range(all), h # g PROVE h \in Range(as)
    <3>1. PICK i \in 1 .. L : all[i] = h
      BY <1>1, <2>2 DEF Range
    <3>2. to[i] \in DOMAIN as /\ as[to[i]] = h
      BY <1>2, <1>7, <1>9, <2>2, <3>1
    <3>3. QED BY <3>2 DEF Range
  <2>3. QED BY <2>1, <2>2
<1>14. ASSUME NEW i \in DOMAIN all, NEW j \in DOMAIN all, i < j, all[i] # g, all[j] # g
       PROVE  \E k, l \in DOMAIN as : k < l /\ as[k] = all[i] /\ as[l] = all[j]
  <2>1. i \in 1 .. L /\ j \in 1 .. L /\ i # n /\ j # n
    BY <1>1, <1>2, <1>14
  <2>2. /\ to[i] \in DOMAIN as /\ to[j] \in DOMAIN as /\ to[i] < to[j]
        /\ as[to[i]] = all[i] /\ as[to[j]] = all[j]
    BY <1>7, <1>9, <1>11, <1>14, <2>1
  <2>3. QED BY <2>2
<1>15. QED BY <1>7, <1>12, <1>13, <1>14 DEF Without, as

\* The stop fiber of g forgets it, and leaves the others as they are, but for some it
\* forgets whom nobody asks about any more.
Forgets(g) ==
  /\ Without(all', g)
  /\ inst[g].status = "stopping" /\ inst'[g].status = "none"
  /\ ~Held(g) /\ ~Held(g)'
  /\ inst'[g].scope \in {"open", "closing"} =>
       inst[g].scope \in {"open", "closing"} /\ inst'[g].owner = inst[g].owner
  /\ \A h \in Gen \ {g} :
       \/ inst'[h] = inst[h]
       \/ inst'[h] = Nobody /\ inst[h].status = "none" /\ inst[h].scope \in {"none", "closed"}

LEMMA StoppedKeeps ==
  ASSUME ClosingInv, NEW g \in Gen, stopped(g)
  PROVE  Forgets(g) /\ ClosingInv'
<1> DEFINE gen == [inst[g] EXCEPT !.status = "none", !.stopFiber = FALSE]
           mid == [inst EXCEPT ![g] = gen]
<1>1. inst[g] \in Generation /\ Sound(inst[g]) /\ Kempt(inst[g]) /\ inst \in Insts
  BY GenerationsAreSound
<1>2. /\ inst' = tidied(mid, Range(all')) /\ all' = allBut(g)
      /\ inst[g].stopFiber /\ inst[g].closing = "done"
  BY DEF stopped
<1>3. inst[g].status = "stopping" /\ (inst[g].scope = "closed" \/ inst[g].closer = "owner")
  BY <1>1, <1>2 DEF Sound
<1>4. Without(all', g)
  BY <1>2, <1>3, AllButForgets DEF ClosingInv, Remembers
<1>5. /\ gen \in Generation /\ gen.status = "none" /\ gen.stopFiber = FALSE
      /\ gen.owner = inst[g].owner /\ gen.providers = inst[g].providers
      /\ gen.scope = inst[g].scope /\ gen.closer = inst[g].closer
      /\ gen.closing = "done" /\ gen.building = inst[g].building
  BY <1>1, <1>2 DEF Generation
<1>6. Sound(gen) /\ Kempt(gen)
  BY <1>1, <1>2, <1>3, <1>5 DEF Sound, Kempt
<1> HIDE DEF gen
<1>7. mid[g] = gen /\ \A h \in Gen \ {g} : mid[h] = inst[h]
  BY <1>1 DEF Insts
<1>8. mid = [inst EXCEPT ![g] = gen]
  OBVIOUS
<1> HIDE DEF mid
<1>9. Tidies(g, gen)
  <2>1. /\ all' \in Seq(Gen) /\ \A i, j \in DOMAIN all' : all'[i] = all'[j] => i = j
        /\ \A h \in Gen : mid[h].status # "none" <=> h \in Range(all')
    BY <1>4, <1>5, <1>7 DEF ClosingInv, Remembers, Without
  <2>2. QED BY <1>2, <1>8, <2>1, TidyingTidies
<1>10. \A p, h \in Gen \ {g} : Precedes(p, h) => Precedes(p, h)'
  BY <1>4 DEF Without, Precedes
<1>11. ClosingInv'
  BY <1>3, <1>5, <1>6, <1>9, <1>10, TidyingKeeps
<1>12. inst'[g].status = "none" /\ ~Held(g) /\ ~Held(g)'
       /\ (inst'[g].scope \in {"open", "closing"} =>
             inst[g].scope \in {"open", "closing"} /\ inst'[g].owner = inst[g].owner)
  BY <1>3, <1>5, <1>9, NobodyIsSound DEF Tidies, Held
<1>13. QED BY <1>3, <1>4, <1>9, <1>11, <1>12 DEF Forgets, Tidies

-----------------------------------------------------------------------------
(***************************************************************************)
(* Startups end, and generations are retired.                              *)
(***************************************************************************)
\* Statuses turn; resources and owners stay.  Nobody gains authority, and what somebody
\* with authority stands on runs on.
Turns ==
  /\ all' = all
  /\ inst' \in Insts
  /\ \A g \in Gen :
       /\ Sound(inst'[g]) /\ Kempt(inst'[g])
       /\ \/ inst'[g] = inst[g]
          \/ inst[g].status = "starting" /\ inst'[g].status \in {"running", "failed"}
          \/ g \in Live(inst) /\ inst'[g].status = "stopping"
       /\ inst'[g].owner = inst[g].owner /\ inst'[g].providers = inst[g].providers
       /\ inst'[g].scope = inst[g].scope /\ inst'[g].closer = inst[g].closer
  /\ \A g \in Live(inst') : \A h \in standsOn(g) : inst'[h].status = "running"

LEMMA TurnsKeep ==
  ASSUME ClosingInv, Turns
  PROVE  ClosingInv'
<1>1. \A g \in Gen : inst'[g].status = "none" <=> inst[g].status = "none"
  BY DEF Turns, Live
<1>2. all' \in Seq(Gen) /\ inst' \in Insts /\ AllSound' /\ AllKempt' /\ Remembers'
  BY <1>1 DEF ClosingInv, Turns, AllSound, AllKempt, Remembers
<1>3. ASSUME NEW g \in Live(inst')
      PROVE  /\ g \in Live(inst)
             /\ inst'[g].owner = inst[g].owner /\ inst'[g].providers = inst[g].providers
             /\ \A h \in standsOn(g) : inst'[h].status = "running" /\ Precedes(h, g)'
  <2>1. g \in Live(inst)
    BY DEF Turns, Live
  <2>2. \A h \in standsOn(g) : Precedes(h, g)
    BY <2>1, StandsOnWhatRuns
  <2>3. \A h : Precedes(h, g) => Precedes(h, g)'
    BY DEF Turns, Precedes
  <2>4. QED BY <2>1, <2>2, <2>3 DEF Turns, Live
<1>4. OwnersRun' /\ ProvidersRun'
  <2>1. \A h \in Live(inst) : NoGen \notin Range(inst[h].providers)
    BY GenerationsAreSound, ClosingAssumption DEF Live, Range
  <2>2. QED BY <1>3, <2>1 DEF OwnersRun, ProvidersRun, standsOn
<1>5. ClosesUnderOwner'
  BY GenerationsAreSound DEF ClosingInv, ClosesUnderOwner, Turns
<1>6. QED BY <1>2, <1>4, <1>5 DEF ClosingInv

\* Some are retired, and all with authority that stand on them.
LEMMA RetiringTurns ==
  ASSUME ClosingInv, NEW gs \in SUBSET Live(inst), all' = all,
         inst' = [g \in Gen |-> IF g \in gs THEN Stopping(inst[g]) ELSE inst[g]],
         \A g \in Live(inst) : \A h \in standsOn(g) : h \in gs => g \in gs
  PROVE  Turns
<1>1. inst \in Insts /\ \A g \in Gen : inst[g] \in Generation /\ Sound(inst[g]) /\ Kempt(inst[g])
  BY GenerationsAreSound
<1>2. ASSUME NEW g \in gs
      PROVE  /\ g \in Gen /\ inst'[g] \in Generation /\ Sound(inst'[g]) /\ Kempt(inst'[g])
             /\ inst'[g].status = "stopping"
             /\ inst'[g].owner = inst[g].owner /\ inst'[g].providers = inst[g].providers
             /\ inst'[g].scope = inst[g].scope /\ inst'[g].closer = inst[g].closer
  <2>1. g \in Gen /\ inst[g].status \in {"starting", "running", "failed"}
    BY DEF Live
  <2>2. inst'[g] = Stopping(inst[g])
    BY <2>1
  <2>3. QED BY <1>1, <2>1, <2>2, StoppingIsSound
<1>3. \A g \in Gen \ gs : inst'[g] = inst[g]
  OBVIOUS
<1>4. inst' \in Insts
  BY <1>1, <1>2, <1>3 DEF Insts
<1>5. ASSUME NEW g \in Live(inst'), NEW h \in standsOn(g) PROVE inst'[h].status = "running"
  <2>1. g \in Gen /\ g \notin gs /\ inst'[g] = inst[g]
    BY <1>2, <1>3 DEF Live
  <2>2. g \in Live(inst)
    BY <2>1 DEF Live
  <2>3. h \in Gen /\ inst[h].status = "running"
    BY <2>2, StandsOnWhatRuns
  <2>4. QED BY <1>3, <2>1, <2>2, <2>3
<1>6. QED BY <1>1, <1>2, <1>3, <1>4, <1>5 DEF Turns

\* One that is starting turns: nobody stands on it yet.
LEMMA OneTurns ==
  ASSUME ClosingInv, NEW g \in Gen, NEW gen \in Generation, all' = all,
         inst' = [inst EXCEPT ![g] = gen], Sound(gen), Kempt(gen),
         inst[g].status = "starting", gen.status \in {"running", "failed", "stopping"},
         gen.owner = inst[g].owner, gen.providers = inst[g].providers,
         gen.scope = inst[g].scope, gen.closer = inst[g].closer
  PROVE  Turns
<1>1. inst \in Insts /\ \A h \in Gen : Sound(inst[h]) /\ Kempt(inst[h])
  BY GenerationsAreSound
<1>2. inst' \in Insts /\ inst'[g] = gen /\ \A h \in Gen \ {g} : inst'[h] = inst[h]
  BY <1>1 DEF Insts
<1>3. g \in Live(inst)
  BY DEF Live
<1>4. ASSUME NEW h \in Live(inst'), NEW p \in standsOn(h) PROVE inst'[p].status = "running"
  <2>1. h \in Live(inst)
    BY <1>2, <1>3 DEF Live
  <2>2. p \in Gen /\ inst[p].status = "running"
    BY <2>1, StandsOnWhatRuns
  <2>3. QED BY <1>2, <2>2
<1>5. QED BY <1>1, <1>2, <1>3, <1>4 DEF Turns

LEMMA EndsTurns ==
  ASSUME ClosingInv, NEW g \in Gen, NEW ok \in BOOLEAN, all' = all, inst[g].status = "starting",
         ends(g, ok)
  PROVE  Turns
<1> DEFINE now == [inst[g] EXCEPT !.building = FALSE,
                                  !.status = IF ok THEN "running" ELSE "failed",
                                  !.closing = IF ok THEN inst[g].closing ELSE "pending",
                                  !.cleanup = ~ok]
<1>1. inst[g] \in Generation /\ Sound(inst[g]) /\ inst \in Insts
  BY GenerationsAreSound
<1>2. inst' = [inst EXCEPT ![g] = now]
  BY <1>1 DEF ends, Insts
<1>3. /\ now \in Generation /\ now.status = (IF ok THEN "running" ELSE "failed")
      /\ now.closing = (IF ok THEN inst[g].closing ELSE "pending") /\ now.cleanup = ~ok
      /\ now.building = FALSE /\ now.stopFiber = inst[g].stopFiber
      /\ now.owner = inst[g].owner /\ now.providers = inst[g].providers
      /\ now.scope = inst[g].scope /\ now.closer = inst[g].closer
  BY <1>1 DEF Generation
<1> HIDE DEF now
<1>4. Sound(now) /\ Kempt(now)
  BY <1>1, <1>3 DEF Sound, Kempt
<1>5. now.status \in {"running", "failed"}
  BY <1>3
<1>6. QED BY <1>2, <1>3, <1>4, <1>5, OneTurns

LEMMA EndsOvertakenTurns ==
  ASSUME ClosingInv, NEW g \in Gen, all' = all, inst[g].status = "starting", endsOvertaken(g)
  PROVE  Turns
<1> DEFINE was == [inst[g] EXCEPT !.building = FALSE]
           gen == Stopping(was)
<1>1. inst[g] \in Generation /\ Sound(inst[g]) /\ Kempt(inst[g])
  BY GenerationsAreSound
<1>2. /\ was \in Generation /\ was.status = "starting" /\ was.building = FALSE
      /\ was.owner = inst[g].owner /\ was.providers = inst[g].providers
      /\ was.closing = inst[g].closing /\ was.stopFiber = inst[g].stopFiber
      /\ was.scope = inst[g].scope /\ was.closer = inst[g].closer
  BY <1>1 DEF Generation
<1>3. inst' = [inst EXCEPT ![g] = gen]
  BY DEF endsOvertaken
<1> HIDE DEF was
<1>4. Sound(was) /\ Kempt(was)
  BY <1>1, <1>2 DEF Sound, Kempt
<1>5. /\ gen \in Generation /\ Sound(gen) /\ Kempt(gen) /\ gen.status = "stopping"
      /\ gen.owner = inst[g].owner /\ gen.providers = inst[g].providers
      /\ gen.scope = inst[g].scope /\ gen.closer = inst[g].closer
  BY <1>2, <1>4, StoppingIsSound
<1> HIDE DEF gen
<1>6. QED BY <1>3, <1>5, OneTurns

\* A startup that ends late changes nothing that matters to anybody: as a close does.
LEMMA EndsLateKeeps ==
  ASSUME ClosingInv, NEW g \in Gen, all' = all, endsLate(g)
  PROVE  Closings /\ ClosingInv'
<1> DEFINE gen == [inst[g] EXCEPT !.building = FALSE]
<1>1. inst[g] \in Generation /\ Sound(inst[g]) /\ Kempt(inst[g])
  BY GenerationsAreSound
<1>2. inst' = [inst EXCEPT ![g] = gen] /\ inst[g].building
  BY DEF endsLate
<1>3. inst[g] # Nobody
  BY <1>2 DEF Nobody
<1>4. /\ gen \in Generation /\ gen.building = FALSE /\ gen.status = inst[g].status
      /\ gen.owner = inst[g].owner /\ gen.providers = inst[g].providers
      /\ gen.closing = inst[g].closing /\ gen.stopFiber = inst[g].stopFiber
      /\ gen.scope = inst[g].scope /\ gen.closer = inst[g].closer
      /\ gen.cleanup = inst[g].cleanup
  BY <1>1 DEF Generation
<1> HIDE DEF gen
<1>5. Sound(gen) /\ Kempt(gen)
  BY <1>1, <1>4 DEF Sound, Kempt
<1>6. QED BY <1>2, <1>3, <1>4, <1>5, OneCloses

-----------------------------------------------------------------------------
(***************************************************************************)
(* A pass starts generations.                                              *)
(***************************************************************************)
\* The first token of an identity that has one free.
LEMMA TokenIsFree ==
  ASSUME NEW r \in Ref, Free \cap ({r} \X Incarnation) # {}
  PROVE  token(r) \in Gen /\ inst[token(r)] = Nobody /\ refOf(token(r)) = r
<1> DEFINE T == {i \in Incarnation : <<r, i>> \in Free}
<1>1. T \in SUBSET Nat /\ T # {}
  <2>1. PICK t \in {r} \X Incarnation : t \in Free
    OBVIOUS
  <2>2. t = <<r, t[2]>> /\ t[2] \in Incarnation
    BY <2>1
  <2>3. t[2] \in T
    BY <2>1, <2>2
  <2>4. T \subseteq Incarnation
    OBVIOUS
  <2>5. QED BY <2>3, <2>4, ClosingAssumption
<1>2. \E n \in T : \A m \in T : n <= m
  BY <1>1, LeastNumber
<1>3. Min(T) \in T
  BY <1>2 DEF Min
<1>4. token(r) = <<r, Min(T)>>
  BY DEF token
<1> HIDE DEF T
<1> DEFINE i == Min(T)
<1>5. i \in Incarnation /\ <<r, i>> \in Free
  BY <1>3 DEF T
<1> HIDE DEF i
<1>6. <<r, i>> \in Gen /\ inst[<<r, i>>] = Nobody /\ refOf(<<r, i>>) = r
  BY <1>5 DEF Free, Gen, refOf
<1>7. QED BY <1>4, <1>6 DEF i

\* g is admitted on what runs.
Begins(g) ==
  \E o \in Gen \cup {NoGen}, ps \in Seq(Gen) :
    /\ inst'[g] = Admitted(o, ps)
    /\ \A h \in ({o} \cup Range(ps)) \ {NoGen} : inst[h].status = "running"

\* Those of ts begin, in this order, and nobody else moves.
Starts(ts) ==
  /\ ts \in Seq(Gen)
  /\ \A i, j \in DOMAIN ts : ts[i] = ts[j] => i = j
  /\ all' = all \o ts
  /\ inst' = [g \in Gen |-> inst'[g]]
  /\ \A g \in Gen \ Range(ts) : inst'[g] = inst[g]
  /\ \A g \in Range(ts) : inst[g] = Nobody /\ Begins(g)

LEMMA WhoBegins ==
  ASSUME ClosingInv, NEW g \in Gen, Begins(g)
  PROVE  /\ inst'[g] \in Generation /\ Sound(inst'[g]) /\ Kempt(inst'[g])
         /\ inst'[g].status = "starting" /\ inst'[g].scope = "open"
         /\ inst'[g].closer = "nobody"
         /\ \A h \in ({inst'[g].owner} \cup Range(inst'[g].providers)) \ {NoGen} :
              h \in Gen /\ inst[h].status = "running"
<1>1. PICK o \in Gen \cup {NoGen}, ps \in Seq(Gen) :
        /\ inst'[g] = Admitted(o, ps)
        /\ \A h \in ({o} \cup Range(ps)) \ {NoGen} : inst[h].status = "running"
  BY DEF Begins
<1>2. Range(ps) \subseteq Gen
  BY DEF Range
<1>3. QED BY <1>1, <1>2, AdmittedIsSound

\* What a pass appends: all that was remembered, in the order it was, and then ts.
LEMMA Appending ==
  ASSUME all \in Seq(Gen), NEW ts \in Seq(Gen), all' = all \o ts
  PROVE  /\ all' \in Seq(Gen)
         /\ \A i \in DOMAIN all : i \in DOMAIN all' /\ all'[i] = all[i]
         /\ \A i \in DOMAIN ts : /\ Len(all) + i \in DOMAIN all' /\ all'[Len(all) + i] = ts[i]
                                 /\ \A k \in DOMAIN all : k < Len(all) + i
         /\ \A k \in DOMAIN all' : \/ k \in DOMAIN all /\ all'[k] = all[k]
                                   \/ /\ k - Len(all) \in DOMAIN ts
                                      /\ all'[k] = ts[k - Len(all)]
         /\ DOMAIN all \subseteq Nat /\ DOMAIN all' \subseteq Nat
         /\ Range(all') = Range(all) \cup Range(ts)
<1> DEFINE L == Len(all)
           K == Len(ts)
<1>1. L \in Nat /\ K \in Nat /\ DOMAIN all = 1 .. L /\ DOMAIN ts = 1 .. K
  OBVIOUS
<1>2. /\ all' \in Seq(Gen) /\ Len(all') = L + K
      /\ \A i \in 1 .. L + K : all'[i] = IF i <= L THEN all[i] ELSE ts[i - L]
  BY ConcatProperties
<1>3. DOMAIN all' = 1 .. L + K
  BY <1>2
<1> HIDE DEF L, K
<1>4. \A i \in DOMAIN all : i \in DOMAIN all' /\ all'[i] = all[i]
  BY <1>1, <1>2, <1>3
<1>5. ASSUME NEW i \in DOMAIN ts
      PROVE  /\ L + i \in DOMAIN all' /\ all'[L + i] = ts[i]
             /\ \A k \in DOMAIN all : k < L + i
  <2> DEFINE k == L + i
  <2>1. k \in 1 .. L + K /\ ~(k <= L) /\ k - L = i /\ \A m \in DOMAIN all : m < k
    BY <1>1
  <2> HIDE DEF k
  <2>2. all'[k] = ts[i]
    BY <1>2, <2>1
  <2>3. QED BY <1>3, <2>1, <2>2 DEF k
<1>6. ASSUME NEW k \in DOMAIN all'
      PROVE  \/ k \in DOMAIN all /\ all'[k] = all[k]
             \/ k - L \in DOMAIN ts /\ all'[k] = ts[k - L]
  BY <1>1, <1>2, <1>3
<1>7. Range(all') = Range(all) \cup Range(ts)
  <2>1. ASSUME NEW h \in Range(all') PROVE h \in Range(all) \cup Range(ts)
    BY <1>6 DEF Range
  <2>2. ASSUME NEW h \in Range(all) PROVE h \in Range(all')
    BY <1>4 DEF Range
  <2>3. ASSUME NEW h \in Range(ts) PROVE h \in Range(all')
    <3>1. PICK i \in DOMAIN ts : ts[i] = h
      BY DEF Range
    <3>2. L + i \in DOMAIN all' /\ all'[L + i] = h
      BY <1>5, <3>1
    <3>3. QED BY <3>2 DEF Range
  <2>4. QED BY <2>1, <2>2, <2>3
<1>8. DOMAIN all \subseteq Nat /\ DOMAIN all' \subseteq Nat
  BY <1>1, <1>3
<1>9. QED BY <1>2, <1>4, <1>5, <1>6, <1>7, <1>8 DEF L

LEMMA StartsKeep ==
  ASSUME ClosingInv, NEW ts, Starts(ts)
  PROVE  ClosingInv'
<1>1. /\ all \in Seq(Gen) /\ inst \in Insts
      /\ \A h \in Gen : inst[h] \in Generation /\ Sound(inst[h]) /\ Kempt(inst[h])
  BY GenerationsAreSound DEF ClosingInv
<1>2. ts \in Seq(Gen) /\ all' = all \o ts /\ Range(ts) \subseteq Gen
  BY DEF Starts, Range
<1>3. /\ all' \in Seq(Gen)
      /\ \A i \in DOMAIN all : i \in DOMAIN all' /\ all'[i] = all[i]
      /\ \A i \in DOMAIN ts : /\ Len(all) + i \in DOMAIN all' /\ all'[Len(all) + i] = ts[i]
                              /\ \A k \in DOMAIN all : k < Len(all) + i
      /\ \A k \in DOMAIN all' : \/ k \in DOMAIN all /\ all'[k] = all[k]
                                \/ /\ k - Len(all) \in DOMAIN ts
                                   /\ all'[k] = ts[k - Len(all)]
      /\ DOMAIN all \subseteq Nat /\ DOMAIN all' \subseteq Nat
      /\ Range(all') = Range(all) \cup Range(ts)
  BY <1>1, <1>2, Appending
<1>4. ASSUME NEW g \in Range(ts)
      PROVE  /\ g \in Gen /\ inst[g] = Nobody
             /\ inst'[g] \in Generation /\ Sound(inst'[g]) /\ Kempt(inst'[g])
             /\ inst'[g].status = "starting" /\ inst'[g].closer = "nobody"
             /\ \A h \in ({inst'[g].owner} \cup Range(inst'[g].providers)) \ {NoGen} :
                  h \in Gen /\ inst[h].status = "running"
  <2>1. g \in Gen /\ inst[g] = Nobody /\ Begins(g)
    BY <1>2 DEF Starts
  <2>2. QED BY <2>1, WhoBegins
<1>5. \A g \in Gen : inst[g] # Nobody => g \notin Range(ts) /\ inst'[g] = inst[g]
  BY <1>4 DEF Starts
<1>6. \A g \in Gen \ Range(ts) : inst'[g] = inst[g]
  BY DEF Starts
<1>7. \A g \in Gen : inst[g].status # "none" => inst[g] # Nobody /\ inst'[g] = inst[g]
  BY <1>5, NobodyIsSound
<1>8. inst' \in Insts /\ AllSound' /\ AllKempt'
  <2>1. \A g \in Gen : inst'[g] \in Generation /\ Sound(inst'[g]) /\ Kempt(inst'[g])
    BY <1>1, <1>4, <1>6
  <2>2. inst' = [g \in Gen |-> inst'[g]]
    BY DEF Starts
  <2>3. QED BY <2>1, <2>2 DEF Insts, AllSound, AllKempt
<1>9. Remembers'
  <2>1. \A i \in DOMAIN all : all[i] \in Gen /\ inst[all[i]].status # "none"
    BY <1>1 DEF ClosingInv, Remembers, Range
  <2>2. \A i \in DOMAIN ts : ts[i] \in Range(ts) /\ inst[ts[i]].status = "none"
    BY <1>4, NobodyIsSound DEF Range
  <2>3. ASSUME NEW k \in DOMAIN all', NEW l \in DOMAIN all', all'[k] = all'[l] PROVE k = l
    <3>1. CASE k \in DOMAIN all /\ l \in DOMAIN all
      BY <1>3, <2>3, <3>1 DEF ClosingInv, Remembers
    <3>2. CASE k - Len(all) \in DOMAIN ts /\ l - Len(all) \in DOMAIN ts
               /\ all'[k] = ts[k - Len(all)] /\ all'[l] = ts[l - Len(all)]
      <4>1. k - Len(all) = l - Len(all)
        BY <2>3, <3>2 DEF Starts
      <4>2. k \in Nat /\ l \in Nat /\ Len(all) \in Nat
        BY <1>1, <1>3
      <4>3. QED BY <4>1, <4>2
    <3>3. CASE k \in DOMAIN all /\ l - Len(all) \in DOMAIN ts /\ all'[l] = ts[l - Len(all)]
      BY <1>3, <2>1, <2>2, <2>3, <3>3
    <3>4. CASE l \in DOMAIN all /\ k - Len(all) \in DOMAIN ts /\ all'[k] = ts[k - Len(all)]
      <4>1. all'[l] = all[l] /\ inst[all[l]].status # "none"
        BY <1>3, <2>1, <3>4
      <4>2. inst[all'[k]].status = "none"
        BY <2>2, <3>4
      <4>3. QED BY <2>3, <4>1, <4>2
    <3>5. QED BY <1>3, <3>1, <3>2, <3>3, <3>4
  <2>4. ASSUME NEW g \in Gen PROVE inst'[g].status # "none" <=> g \in Range(all')
    <3>1. CASE g \in Range(ts)
      BY <1>3, <1>4, <3>1
    <3>2. CASE g \notin Range(ts)
      BY <1>3, <1>6, <3>2 DEF ClosingInv, Remembers
    <3>3. QED BY <3>1, <3>2
  <2>5. QED BY <2>3, <2>4 DEF Remembers
<1>10. ASSUME NEW g \in Live(inst'),
              NEW h \in ({inst'[g].owner} \cup Range(inst'[g].providers)) \ {NoGen}
       PROVE  inst'[h].status = "running" /\ Precedes(h, g)'
  <2>1. g \in Gen
    BY DEF Live
  <2>2. CASE g \in Range(ts)
    <3>1. h \in Gen /\ inst[h].status = "running"
      BY <1>4, <2>2
    <3>2. inst'[h] = inst[h] /\ h \in Range(all)
      BY <1>7, <3>1 DEF ClosingInv, Remembers
    <3>3. PICK k \in DOMAIN all : all[k] = h
      BY <3>2 DEF Range
    <3>4. PICK i \in DOMAIN ts : ts[i] = g
      BY <2>2 DEF Range
    <3>5. k \in DOMAIN all' /\ Len(all) + i \in DOMAIN all' /\ k < Len(all) + i
          /\ all'[k] = h /\ all'[Len(all) + i] = g
      BY <1>3, <3>3, <3>4
    <3>6. QED BY <3>1, <3>2, <3>5 DEF Precedes
  <2>3. CASE g \notin Range(ts)
    <3>1. inst'[g] = inst[g] /\ g \in Live(inst)
      BY <1>6, <2>1, <2>3 DEF Live
    <3>2. h \in standsOn(g)
      BY <3>1 DEF standsOn
    <3>3. h \in Gen /\ inst[h].status = "running" /\ Precedes(h, g)
      BY <3>1, <3>2, StandsOnWhatRuns
    <3>4. Precedes(h, g)'
      BY <1>3, <3>3 DEF Precedes
    <3>5. QED BY <1>7, <3>3, <3>4
  <2>4. QED BY <2>2, <2>3
<1>11. OwnersRun' /\ ProvidersRun'
  <2>1. ASSUME NEW g \in Live(inst') PROVE NoGen \notin Range(inst'[g].providers)
    <3>1. g \in Gen
      BY DEF Live
    <3>2. inst'[g].providers \in Seq(Gen)
      BY <1>8, <3>1 DEF Insts, Generation
    <3>3. QED BY <3>2, ClosingAssumption DEF Range
  <2>2. QED BY <1>10, <2>1 DEF OwnersRun, ProvidersRun
<1>12. ClosesUnderOwner'
  <2> SUFFICES ASSUME NEW h \in Gen, inst'[h].closer = "owner", inst'[h].scope = "closing"
               PROVE  inst'[h].owner # NoGen /\ inst'[inst'[h].owner].scope = "closing"
    BY DEF ClosesUnderOwner
  <2>1. inst'[h] = inst[h]
    BY <1>4, <1>6
  <2>2. inst[h].owner # NoGen /\ inst[inst[h].owner].scope = "closing"
    BY <2>1 DEF ClosingInv, ClosesUnderOwner
  <2>3. inst[h].owner \in Gen
    BY <1>1, <2>2, GenerationsAreSound
  <2>4. inst[inst[h].owner] # Nobody
    BY <2>2, NobodyIsSound
  <2>5. QED BY <1>5, <2>1, <2>2, <2>3, <2>4
<1>13. QED BY <1>3, <1>8, <1>9, <1>11, <1>12 DEF ClosingInv

-----------------------------------------------------------------------------
(***************************************************************************)
(* What Lifetimes promises, but for rivals: that is for each kernel's      *)
(* slots to show.                                                          *)
(***************************************************************************)
Lifetime == INSTANCE Lifetimes WITH
  Rivals <- {},
  status <- [g \in Gen |-> inst[g].status],
  stands <- [g \in Gen |-> IF inst[g].status = "none" THEN {} ELSE standsOn(g)],
  held <- [g \in Gen |-> inst[g].scope \in {"open", "closing"} /\ inst[g].closer # "owner"]

\* A generation nothing happened to.
LEMMA NothingHappens ==
  ASSUME NEW g \in Gen, inst'[g].status = inst[g].status, Held(g)' <=> Held(g),
         inst[g].status # "none" => /\ inst'[g].owner = inst[g].owner
                                    /\ inst'[g].providers = inst[g].providers
  PROVE  Lifetime!Stays(g)
BY DEF Held, standsOn, Lifetime!Stays

LEMMA ClosingsPromised ==
  ASSUME ClosingInv, Closings
  PROVE  Lifetime!Next
<1> SUFFICES ASSUME NEW g \in Gen PROVE Lifetime!Stays(g) \/ Lifetime!Drains(g)
  BY DEF Lifetime!Next
<1>1. /\ inst'[g].status = inst[g].status
      /\ inst[g].status # "none" => /\ inst'[g].owner = inst[g].owner
                                    /\ inst'[g].providers = inst[g].providers
      /\ Held(g)' => Held(g)
      /\ inst[g].status \notin {"failed", "stopping"} => (Held(g)' <=> Held(g))
  BY DEF Closings
<1>2. CASE inst[g].status \in {"failed", "stopping"}
  BY <1>1, <1>2 DEF Lifetime!Drains, Held, standsOn
<1>3. CASE inst[g].status \notin {"failed", "stopping"}
  BY <1>1, <1>3, NothingHappens
<1>4. QED BY <1>2, <1>3

LEMMA TurnsPromised ==
  ASSUME ClosingInv, Turns
  PROVE  Lifetime!Next
<1> SUFFICES ASSUME NEW g \in Gen
             PROVE  Lifetime!Stays(g) \/ Lifetime!Concludes(g) \/ Lifetime!Retired(g)
  BY DEF Lifetime!Next
<1>1. /\ inst'[g].owner = inst[g].owner /\ inst'[g].providers = inst[g].providers
      /\ Held(g)' <=> Held(g)
  BY DEF Turns, Held
<1>2. CASE inst'[g] = inst[g]
  BY <1>1, <1>2, NothingHappens
<1>3. CASE inst[g].status = "starting" /\ inst'[g].status \in {"running", "failed"}
  <2>1. Held(g)
    BY <1>3, WhoHolds
  <2>2. QED BY <1>1, <1>3, <2>1 DEF Lifetime!Concludes, Held, standsOn
<1>4. CASE g \in Live(inst) /\ inst'[g].status = "stopping"
  <2>1. ASSUME NEW d \in Live(inst), g \in standsOn(d) PROVE inst'[d].status = "stopping"
    <3>1. d \in Gen /\ inst'[d].owner = inst[d].owner /\ inst'[d].providers = inst[d].providers
      BY DEF Turns, Live
    <3>2. d \notin Live(inst')
      BY <1>4, <2>1 DEF Turns
    <3>3. QED BY <3>1, <3>2 DEF Turns, Live
  <2>2. QED BY <1>1, <1>4, <2>1 DEF Lifetime!Retired, Lifetime!Live, Live, Held, standsOn
<1>5. QED BY <1>2, <1>3, <1>4 DEF Turns

LEMMA ForgetsPromised ==
  ASSUME ClosingInv, NEW g \in Gen, Forgets(g)
  PROVE  Lifetime!Next
<1>1. Lifetime!Forgotten(g)
  BY DEF Lifetime!Forgotten, Forgets, Held
<1>2. ASSUME NEW h \in Gen, h # g PROVE Lifetime!Stays(h)
  <2>1. CASE inst'[h] = inst[h]
    BY <2>1, NothingHappens DEF Held
  <2>2. CASE inst'[h] = Nobody /\ inst[h].status = "none" /\ inst[h].scope \in {"none", "closed"}
    BY <2>2, NobodyIsSound, NothingHappens DEF Held
  <2>3. QED BY <1>2, <2>1, <2>2 DEF Forgets
<1>3. QED BY <1>1, <1>2 DEF Lifetime!Next

LEMMA StartsPromised ==
  ASSUME ClosingInv, NEW ts, Starts(ts)
  PROVE  Lifetime!Next
<1>1. ASSUME NEW g \in Gen, g \notin Range(ts) PROVE Lifetime!Stays(g)
  <2>1. inst'[g] = inst[g]
    BY <1>1 DEF Starts
  <2>2. QED BY <2>1, NothingHappens DEF Held
<1>2. ASSUME NEW g \in Gen, g \in Range(ts) PROVE Lifetime!Admitted(g)
  <2>1. inst[g] = Nobody /\ Begins(g)
    BY <1>2 DEF Starts
  <2>2. /\ inst[g].status = "none" /\ inst'[g].status = "starting"
        /\ inst'[g].scope = "open" /\ inst'[g].closer = "nobody"
    BY <2>1, NobodyIsSound, WhoBegins
  <2>3. ASSUME NEW h \in standsOn(g)'
        PROVE  h \in Gen /\ inst[h].status = "running" /\ inst'[h].status = "running"
    <3>1. h \in Gen /\ inst[h].status = "running"
      BY <2>1, <2>3, WhoBegins DEF standsOn
    <3>2. inst[h] # Nobody
      BY <3>1, NobodyIsSound
    <3>3. QED BY <3>1, <3>2 DEF Starts
  <2>4. QED BY <2>2, <2>3 DEF Lifetime!Admitted, standsOn
<1>3. QED BY <1>1, <1>2 DEF Lifetime!Next

\* Nor does anything when desire is written or the loop wakes.
LEMMA NobodyPromised ==
  ASSUME UNCHANGED inst
  PROVE  Lifetime!Next
BY NothingHappens DEF Lifetime!Next, Held
=============================================================================
