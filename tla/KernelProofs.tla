----------------------------- MODULE KernelProofs -----------------------------
(***************************************************************************)
(* Sequential replacement in the rebase kernel, what its `idle` waits for, *)
(* and that it implements Lifetimes, for every tree of identities and every*)
(* desired list.                                                           *)
(*                                                                         *)
(* A slot waits for what is remembered, but a child may be forgotten while *)
(* its owner's close still releases it.  What saves the slot then is that  *)
(* nothing is admitted beneath that owner again: the sweep that retires an *)
(* owner retires everything it carries, because owners come first.         *)
(***************************************************************************)
EXTENDS Kernel, SequenceTheorems, WellFoundedInduction, TLAPS

-----------------------------------------------------------------------------
(***************************************************************************)
(* The inductive invariant.                                                *)
(***************************************************************************)
KernelTyped ==
  /\ desired \in Desire
  /\ all \in Seq(Gen)
  /\ inst \in [Gen -> Generation]

\* A generation's own fields agree about where it stands.
Sound(gen) ==
  /\ gen.status \in {"starting", "running"} => gen.scope = "open" /\ gen.closing = "none"
  /\ gen.status = "none" => /\ gen.scope # "open" /\ gen.closing # "pending"
                            /\ gen.scope = "closing" => gen.closer = "owner"
  /\ gen.scope = "none" => gen.status = "none"
  /\ gen.stopFiber => gen.status = "stopping"
  /\ gen.closing = "done" => gen.scope = "closed" \/ gen.closer = "owner"
  /\ gen.closer = "nobody" <=> gen.scope \in {"none", "open"}

AllSound == \A g \in Gen : Sound(inst[g])

\* `all` names each generation that has a status, once.
Remembers ==
  /\ \A i, j \in DOMAIN all : all[i] = all[j] => i = j
  /\ \A g \in Gen : inst[g].status # "none" <=> g \in Range(all)

\* Who has authority stands on an owner that runs and was admitted before it.
OwnersRun ==
  \A g \in Live(inst) : inst[g].owner # NoGen =>
    /\ inst[inst[g].owner].status = "running"
    /\ \E i, j \in DOMAIN all : i < j /\ all[i] = inst[g].owner /\ all[j] = g

\* A Scope its owner's close has reached closes before the owner's does.
ClosesUnderOwner ==
  \A g \in Gen : inst[g].closer = "owner" /\ inst[g].scope = "closing" =>
    inst[g].owner # NoGen /\ inst[inst[g].owner].scope = "closing"

\* There are tokens for what the pass under way may start.
HasRoom == loop = "admitting" => room(inst, desired)

KernelInv ==
  /\ KernelTyped /\ AllSound /\ Remembers /\ OwnersRun /\ ClosesUnderOwner /\ HasRoom
  /\ SequentialUnderOneOwner

-----------------------------------------------------------------------------
(***************************************************************************)
(* Loops.  A pass goes through a sequence; what it has when it is through  *)
(* is the last value of a function of how far it got.                      *)
(***************************************************************************)
LEMMA LeastNumber ==
  ASSUME NEW T \in SUBSET Nat, T # {}
  PROVE  \E n \in T : \A m \in T : n <= m
<1> DEFINE R == {ss \in Nat \X Nat : ss[1] < ss[2]}
<1>1. IsWellFoundedOn(R, Nat)
  BY NatLessThanWellFounded DEF OpToRel
<1> HIDE DEF R
<1>2. \E n \in T : \A m \in T : <<m, n>> \notin R
  BY <1>1, WFMin, Zenon
<1>3. ASSUME NEW m \in Nat, NEW n \in Nat, <<m, n>> \notin R PROVE n <= m
  BY <1>3 DEF R
<1>4. QED BY <1>2, <1>3

\* What holds before a loop and is kept by each of its steps holds all along.
LEMMA AllAlong ==
  ASSUME NEW L \in Nat, NEW T, 0 \in T, \A i \in 1 .. L : i - 1 \in T => i \in T
  PROVE  \A i \in 0 .. L : i \in T
<1> SUFFICES ASSUME NEW k \in 0 .. L, k \notin T PROVE FALSE
  OBVIOUS
<1> DEFINE U == {i \in 0 .. L : i \notin T}
<1>1. PICK n \in U : \A m \in U : n <= m
  <2>1. U \in SUBSET Nat /\ U # {}
    OBVIOUS
  <2>2. QED BY <2>1, LeastNumber
<1>2. n \in 1 .. L /\ n - 1 \in 0 .. L
  BY <1>1
<1>3. n - 1 \in T
  BY <1>1, <1>2
<1>4. QED BY <1>1, <1>2, <1>3

\* f tells, for each of L steps, what they have made of `base`.
Loop(f, L, base, step) ==
  /\ f[0] = base
  /\ \A i \in 1 .. L : f[i] = step[i][f[i - 1]]

LEMMA LoopRuns ==
  ASSUME NEW L \in Nat, NEW S, NEW base \in S, NEW step \in [1 .. L -> [S -> S]]
  PROVE  \E f \in [0 .. L -> S] : Loop(f, L, base, step)
<1> DEFINE T == {n \in 0 .. L : \E f \in [0 .. n -> S] : Loop(f, n, base, step)}
<1>1. 0 \in T
  <2> DEFINE f == [i \in 0 .. 0 |-> base]
  <2>1. f \in [0 .. 0 -> S] /\ Loop(f, 0, base, step)
    BY DEF Loop
  <2> HIDE DEF f
  <2>2. 0 \in 0 .. L /\ \E h \in [0 .. 0 -> S] : Loop(h, 0, base, step)
    BY <2>1
  <2>3. QED BY <2>2
<1>2. ASSUME NEW n \in 1 .. L, n - 1 \in T PROVE n \in T
  <2>1. PICK f \in [0 .. n - 1 -> S] : Loop(f, n - 1, base, step)
    BY <1>2
  <2> DEFINE g == [i \in 0 .. n |-> IF i < n THEN f[i] ELSE step[n][f[n - 1]]]
  <2>2. n - 1 \in 0 .. n - 1 /\ \A i \in 0 .. n : i < n => i \in 0 .. n - 1
    OBVIOUS
  <2>3. g \in [0 .. n -> S]
    BY <2>1, <2>2
  <2>4. ASSUME NEW i \in 1 .. n PROVE g[i] = step[i][g[i - 1]]
    <3>1. CASE i < n
      <4>1. i \in 1 .. n - 1 /\ i - 1 \in 0 .. n /\ i - 1 < n
        BY <3>1
      <4>2. f[i] = step[i][f[i - 1]] /\ g[i] = f[i] /\ g[i - 1] = f[i - 1]
        BY <2>1, <3>1, <4>1 DEF Loop
      <4>3. QED BY <4>2
    <3>2. CASE i = n
      <4>1. n - 1 \in 0 .. n /\ n - 1 < n /\ n \in 0 .. n
        OBVIOUS
      <4>2. g[n - 1] = f[n - 1] /\ g[n] = step[n][f[n - 1]]
        BY <4>1
      <4>3. QED BY <3>2, <4>2
    <3>3. QED BY <3>1, <3>2
  <2>5. Loop(g, n, base, step)
    <3>1. g[0] = f[0]
      OBVIOUS
    <3>2. QED BY <2>1, <2>4, <3>1 DEF Loop
  <2> HIDE DEF g
  <2>6. n \in 0 .. L /\ \E h \in [0 .. n -> S] : Loop(h, n, base, step)
    BY <2>3, <2>5
  <2>7. QED BY <2>6
<1>3. L \in T
  <2>1. \A i \in 0 .. L : i \in T
    BY <1>1, <1>2, AllAlong
  <2>2. QED BY <2>1
<1>4. QED BY <1>3

-----------------------------------------------------------------------------
(***************************************************************************)
(* The sweep of a pass.                                                    *)
(***************************************************************************)
Insts == [Gen -> Generation]

\* f is what the sweep makes of the generations, step by step.
Sweeps(f) ==
  f = [i \in 0 .. Len(all) |-> IF i = 0 THEN inst ELSE sweep(f[i - 1], all[i])]

LEMMA SweepTyped ==
  ASSUME NEW is \in Insts, NEW g \in Gen
  PROVE  sweep(is, g) \in Insts
BY DEF sweep, Insts, Generation

LEMMA SurvivorsAreSwept ==
  ASSUME KernelTyped
  PROVE  \E f \in [0 .. Len(all) -> Insts] : Sweeps(f) /\ survivors = f[Len(all)]
<1> DEFINE L == Len(all)
           Step == [i \in 1 .. L |-> [v \in Insts |-> sweep(v, all[i])]]
           F == CHOOSE f : Sweeps(f)
<1>1. L \in Nat /\ inst \in Insts /\ \A i \in 1 .. L : all[i] \in Gen
  BY DEF KernelTyped, Insts
<1>2. \A i \in 1 .. L, v \in Insts :
        Step[i][v] = sweep(v, all[i])
  OBVIOUS
<1>3. Step \in [1 .. L -> [Insts -> Insts]]
  BY <1>1, SweepTyped
<1> HIDE DEF Step
<1>4. \E f : Sweeps(f)
  <2>1. PICK f \in [0 .. L -> Insts] : Loop(f, L, inst, Step)
    <3> HIDE DEF L
    <3>1. QED BY <1>1, <1>3, LoopRuns
  <2>2. ASSUME NEW i \in 0 .. L PROVE f[i] = IF i = 0 THEN inst ELSE sweep(f[i - 1], all[i])
    <3>1. CASE i = 0
      BY <2>1, <3>1 DEF Loop
    <3>2. CASE i # 0
      <4>1. i \in 1 .. L /\ i - 1 \in 0 .. L
        BY <1>1, <3>2
      <4>2. f[i - 1] \in Insts
        BY <2>1, <4>1
      <4>3. QED BY <1>2, <2>1, <3>2, <4>1, <4>2 DEF Loop
    <3>3. QED BY <3>1, <3>2
  <2>3. f = [i \in 0 .. L |-> IF i = 0 THEN inst ELSE sweep(f[i - 1], all[i])]
    BY <2>1, <2>2
  <2>4. QED BY <2>3 DEF Sweeps
<1>5. Sweeps(F)
  BY <1>4
<1>6. survivors = F[L]
  BY DEF survivors, Sweeps
<1> HIDE DEF F
<1>7. \A i \in 0 .. L : F[i] = IF i = 0 THEN inst ELSE sweep(F[i - 1], all[i])
  BY <1>5 DEF Sweeps
<1>8. \A i \in 0 .. L : F[i] \in Insts
  <2> DEFINE T == {i \in 0 .. L : F[i] \in Insts}
  <2>1. 0 \in T
    BY <1>1, <1>7
  <2>2. ASSUME NEW i \in 1 .. L, i - 1 \in T PROVE i \in T
    <3>1. i \in 0 .. L /\ i # 0 /\ F[i - 1] \in Insts
      BY <1>1, <2>2
    <3>2. QED BY <1>1, <1>7, <3>1, SweepTyped
  <2> HIDE DEF L
  <2>3. \A i \in 0 .. L : i \in T
    BY <1>1, <2>1, <2>2, AllAlong
  <2>4. QED BY <2>3
<1>9. F \in [0 .. L -> Insts]
  BY <1>5, <1>8 DEF Sweeps
<1>10. QED BY <1>5, <1>6, <1>9

LEMMA CurrentIsLive ==
  ASSUME NEW is, NEW r
  PROVE  current(is, r) # NoGen =>
           current(is, r) \in Live(is) /\ refOf(current(is, r)) = r
BY DEF current

LEMMA OwnerIsLive ==
  ASSUME NEW is, NEW r
  PROVE  ownerOf(is, r) # NoGen => ownerOf(is, r) \in Live(is)
BY CurrentIsLive DEF ownerOf

\* A generation is decided upon at its turn, and at no other.
LEMMA SweepDecidesOnce ==
  ASSUME KernelTyped, Remembers, NEW f \in [0 .. Len(all) -> Insts], Sweeps(f)
  PROVE  \A k \in 0 .. Len(all) : \A g \in Gen :
           /\ (\A i \in 1 .. k : all[i] # g) => f[k][g] = inst[g]
           /\ \A i \in 1 .. k : all[i] = g => f[k][g] = f[i][g]
<1> DEFINE L == Len(all)
           Decided(k) == \A g \in Gen :
                           /\ (\A i \in 1 .. k : all[i] # g) => f[k][g] = inst[g]
                           /\ \A i \in 1 .. k : all[i] = g => f[k][g] = f[i][g]
           T == {k \in 0 .. L : Decided(k)}
<1>1. /\ L \in Nat /\ DOMAIN all = 1 .. L /\ \A i \in 1 .. L : all[i] \in Gen
      /\ f[0] = inst
      /\ \A k \in 1 .. L : f[k] = sweep(f[k - 1], all[k]) /\ f[k - 1] \in Insts
  <2>1. L \in Nat /\ DOMAIN all = 1 .. L /\ \A i \in 1 .. L : all[i] \in Gen
    BY DEF KernelTyped
  <2>2. \A i \in 0 .. L : f[i] = IF i = 0 THEN inst ELSE sweep(f[i - 1], all[i])
    BY DEF Sweeps
  <2>3. \A k \in 1 .. L : k \in 0 .. L /\ k # 0 /\ k - 1 \in 0 .. L
    BY <2>1
  <2>4. QED BY <2>1, <2>2, <2>3
<1>2. \A i, j \in 1 .. L : all[i] = all[j] => i = j
  BY <1>1 DEF Remembers
<1> HIDE DEF L
<1>3. 0 \in T
  BY <1>1
<1>4. ASSUME NEW k \in 1 .. L, k - 1 \in T PROVE k \in T
  <2>1. \A g \in Gen : g # all[k] => f[k][g] = f[k - 1][g]
    BY <1>1 DEF sweep, Insts
  <2>2. \A i \in 1 .. k : i \in 1 .. k - 1 \/ i = k
    BY <1>1
  <2>3. \A i \in 1 .. k - 1 : i \in 1 .. k /\ i \in 1 .. L /\ i # k
    BY <1>1
  <2>4. ASSUME NEW g \in Gen, \A i \in 1 .. k : all[i] # g PROVE f[k][g] = inst[g]
    BY <1>1, <1>4, <2>1, <2>3, <2>4
  <2>5. ASSUME NEW g \in Gen, NEW i \in 1 .. k, all[i] = g PROVE f[k][g] = f[i][g]
    <3>1. CASE i = k
      BY <3>1
    <3>2. CASE i \in 1 .. k - 1
      <4>1. g # all[k]
        BY <1>1, <1>2, <2>3, <2>5, <3>2
      <4>2. f[k - 1][g] = f[i][g]
        BY <1>4, <2>5, <3>2
      <4>3. QED BY <2>1, <4>1, <4>2
    <3>3. QED BY <2>2, <3>1, <3>2
  <2>6. Decided(k)
    BY <2>4, <2>5
  <2> HIDE DEF Decided
  <2>7. QED BY <1>1, <2>6
<1>5. \A k \in 0 .. L : k \in T
  <2> HIDE DEF Decided, T
  <2>1. QED BY <1>1, <1>3, <1>4, AllAlong
<1>6. QED BY <1>5 DEF L

\* f tells what each generation is compared with at its turn: what comes before it
\* is as it will be in the end, what comes after as it was.
Stages(f) ==
  /\ \A g \in Gen : g \notin Range(all) => survivors[g] = inst[g]
  /\ \A j \in DOMAIN all :
       /\ survivors[all[j]] =
            IF inst[all[j]].status # "stopping" /\ ~matches(f[j - 1], all[j])
              THEN [inst[all[j]] EXCEPT !.status = "stopping"] ELSE inst[all[j]]
       /\ \A i \in DOMAIN all : i < j => f[j - 1][all[i]] = survivors[all[i]]
       /\ \A h \in Gen : f[j - 1][h] \in {inst[h], survivors[h]}

LEMMA SweepHasStages ==
  ASSUME KernelTyped, Remembers
  PROVE  survivors \in Insts /\ \E f : Stages(f)
<1> DEFINE L == Len(all)
<1>1. PICK f \in [0 .. L -> Insts] : Sweeps(f) /\ survivors = f[L]
  BY SurvivorsAreSwept
<1>2. L \in Nat /\ DOMAIN all = 1 .. L /\ \A i \in 1 .. L : all[i] \in Gen
  BY DEF KernelTyped
<1>3. \A k \in 0 .. L : \A g \in Gen :
        /\ (\A i \in 1 .. k : all[i] # g) => f[k][g] = inst[g]
        /\ \A i \in 1 .. k : all[i] = g => f[k][g] = f[i][g]
  BY <1>1, SweepDecidesOnce
<1>4. \A j \in 1 .. L : f[j] = sweep(f[j - 1], all[j]) /\ f[j - 1] \in Insts
  <2>1. \A i \in 0 .. L : f[i] = IF i = 0 THEN inst ELSE sweep(f[i - 1], all[i])
    BY <1>1 DEF Sweeps
  <2>2. \A k \in 1 .. L : k \in 0 .. L /\ k # 0 /\ k - 1 \in 0 .. L
    BY <1>2
  <2>3. QED BY <1>1, <2>1, <2>2
<1> HIDE DEF L
<1>5. L \in 0 .. L
  BY <1>2
<1>6. ASSUME NEW j \in 1 .. L
      PROVE  survivors[all[j]] =
               IF inst[all[j]].status # "stopping" /\ ~matches(f[j - 1], all[j])
                 THEN [inst[all[j]] EXCEPT !.status = "stopping"] ELSE inst[all[j]]
  <2>1. all[j] \in Gen /\ j - 1 \in 0 .. L /\ j \in 1 .. L
    BY <1>2
  <2>2. survivors[all[j]] = f[j][all[j]]
    BY <1>1, <1>3, <1>5, <2>1
  <2>3. \A i \in 1 .. j - 1 : all[i] # all[j]
    <3>1. \A i \in 1 .. j - 1 : i \in 1 .. L /\ i # j
      BY <1>2
    <3>2. QED BY <1>2, <3>1 DEF Remembers
  <2>4. f[j - 1][all[j]] = inst[all[j]]
    BY <1>3, <2>1, <2>3
  <2>5. QED BY <1>4, <2>1, <2>2, <2>4 DEF sweep, Insts
<1>7. ASSUME NEW g \in Gen, g \notin Range(all) PROVE survivors[g] = inst[g]
  BY <1>1, <1>2, <1>3, <1>5, <1>7 DEF Range
<1>8. ASSUME NEW j \in 1 .. L, NEW i \in 1 .. L, i <= j - 1
      PROVE  f[j - 1][all[i]] = survivors[all[i]]
  <2>1. all[i] \in Gen /\ j - 1 \in 0 .. L /\ i \in 1 .. j - 1
    BY <1>2, <1>8
  <2>2. f[j - 1][all[i]] = f[i][all[i]]
    BY <1>3, <2>1
  <2>3. survivors[all[i]] = f[i][all[i]]
    BY <1>1, <1>3, <1>5, <2>1
  <2>4. QED BY <2>2, <2>3
<1>9. ASSUME NEW j \in 1 .. L, NEW h \in Gen PROVE f[j - 1][h] \in {inst[h], survivors[h]}
  <2>1. j - 1 \in 0 .. L /\ \A i \in 1 .. j - 1 : i \in 1 .. L /\ i <= j - 1
    BY <1>2
  <2>2. CASE \A i \in 1 .. j - 1 : all[i] # h
    BY <1>3, <2>1, <2>2
  <2>3. ASSUME NEW i \in 1 .. j - 1, all[i] = h PROVE f[j - 1][h] = survivors[h]
    BY <1>8, <2>1, <2>3
  <2>4. QED BY <2>2, <2>3
<1>10. ASSUME NEW j \in 1 .. L, NEW i \in 1 .. L, i < j PROVE i <= j - 1
  BY <1>2, <1>10
<1>11. Stages(f)
  BY <1>2, <1>6, <1>7, <1>8, <1>9, <1>10 DEF Stages
<1>12. QED BY <1>1, <1>5, <1>11

\* Whom a pass retires: some with authority, and with each all that stood on it.
LEMMA SweepTakesWhatItCarried ==
  ASSUME KernelTyped, Remembers, OwnersRun
  PROVE  /\ survivors \in Insts
         /\ invalid \subseteq Live(inst)
         /\ \A g \in Gen : survivors[g] = IF g \in invalid
                                            THEN [inst[g] EXCEPT !.status = "stopping"]
                                            ELSE inst[g]
         /\ \A g \in Live(inst) :
              inst[g].owner # NoGen /\ inst[g].owner \in invalid => g \in invalid
<1> DEFINE L == Len(all)
<1>1. PICK f : Stages(f)
  BY SweepHasStages
<1>2. L \in Nat /\ DOMAIN all = 1 .. L /\ \A i \in 1 .. L : all[i] \in Gen
  BY DEF KernelTyped
<1> HIDE DEF L
<1>3. ASSUME NEW j \in 1 .. L
      PROVE  survivors[all[j]] =
               IF inst[all[j]].status # "stopping" /\ ~matches(f[j - 1], all[j])
                 THEN [inst[all[j]] EXCEPT !.status = "stopping"] ELSE inst[all[j]]
  BY <1>1, <1>2 DEF Stages
<1>4. ASSUME NEW g \in Gen, g \notin Range(all) PROVE survivors[g] = inst[g]
  BY <1>1, <1>4 DEF Stages
<1>5. \A g \in Gen : g \in Range(all) => \E j \in 1 .. L : g = all[j]
  BY <1>2 DEF Range
<1>6. survivors \in Insts
  BY SweepHasStages
<1>7. inst \in Insts /\ \A g \in Gen : inst[g].status \in
         {"none", "starting", "running", "failed", "stopping"}
  BY DEF KernelTyped, Insts, Generation
<1>8. invalid \subseteq Live(inst)
  <2> SUFFICES ASSUME NEW g \in Gen, survivors[g] # inst[g] PROVE g \in Live(inst)
    BY DEF invalid
  <2>1. g \in Range(all)
    BY <1>4
  <2>2. PICK j \in 1 .. L : g = all[j]
    BY <1>5, <2>1
  <2>3. inst[g].status # "none" /\ inst[g].status # "stopping"
    BY <1>3, <2>1, <2>2 DEF Remembers
  <2>4. QED BY <1>7, <2>3 DEF Live
<1>9. ASSUME NEW g \in Gen
       PROVE survivors[g] = IF g \in invalid THEN [inst[g] EXCEPT !.status = "stopping"]
                                             ELSE inst[g]
  BY <1>3, <1>4, <1>5 DEF invalid
<1>10. ASSUME NEW g \in Live(inst), inst[g].owner # NoGen, inst[g].owner \in invalid
       PROVE  g \in invalid
  <2> DEFINE o == inst[g].owner
  <2>1. PICK i, j \in DOMAIN all : i < j /\ all[i] = o /\ all[j] = g
    BY <1>10 DEF OwnersRun
  <2>2. j \in 1 .. L
    BY <1>2, <2>1
  <2>3. o \in Gen /\ g \in Gen /\ o # NoGen
    BY <1>10 DEF invalid, Live
  <2>4. survivors[o].status = "stopping"
    <3>1. survivors[o] = [inst[o] EXCEPT !.status = "stopping"]
      BY <1>9, <1>10, <2>3
    <3>2. inst[o] \in Generation
      BY <1>7, <2>3 DEF Insts
    <3>3. QED BY <3>1, <3>2 DEF Generation
  <2>5. f[j - 1][o] = survivors[o]
    BY <1>1, <2>1 DEF Stages
  <2>6. o \notin Live(f[j - 1])
    BY <2>4, <2>5 DEF Live
  <2>7. ownerOf(f[j - 1], refOf(g)) # o
    BY <2>3, <2>6, OwnerIsLive
  <2>8. ~matches(f[j - 1], g)
    BY <2>7 DEF matches
  <2>9. inst[g].status # "stopping"
    BY DEF Live
  <2>10. survivors[g] = [inst[g] EXCEPT !.status = "stopping"]
    BY <1>3, <2>1, <2>2, <2>8, <2>9
  <2>11. survivors[g] # inst[g]
    BY <1>7, <2>3, <2>9, <2>10 DEF Insts, Generation
  <2>12. QED BY <2>3, <2>11 DEF invalid
<1>11. QED BY <1>6, <1>8, <1>9, <1>10

-----------------------------------------------------------------------------
(***************************************************************************)
(* The admissions of a pass.                                               *)
(***************************************************************************)
Node == [ref : Ref, providers : Seq(Ref)]

\* What a pass may admit of d: nodes that may start, one to a slot.
Admissions(is, d) ==
  {ns \in Seq(Node) :
     /\ \A i \in DOMAIN ns : ns[i] \in Range(d) /\ admissible(is, ns[i])
     /\ \A i, j \in DOMAIN ns : slotFor(ns[i].ref) = slotFor(ns[j].ref) => i = j}

LEMMA AdmitAdmits ==
  ASSUME NEW is, NEW d, NEW ns \in Admissions(is, d), NEW n \in Node, n \in Range(d)
  PROVE  admit(is, ns, n) \in Admissions(is, d)
<1>1. CASE ~(admissible(is, n) /\ \A m \in Range(ns) : slotFor(m.ref) # slotFor(n.ref))
  BY <1>1 DEF admit
<1>2. CASE admissible(is, n) /\ \A m \in Range(ns) : slotFor(m.ref) # slotFor(n.ref)
  <2> DEFINE ms == Append(ns, n)
             L == Len(ns)
  <2>1. ns \in Seq(Node) /\ L \in Nat /\ DOMAIN ns = 1 .. L
    BY DEF Admissions
  <2>2. /\ ms \in Seq(Node) /\ DOMAIN ms = 1 .. L + 1
        /\ \A i \in 1 .. L : ms[i] = ns[i]
        /\ ms[L + 1] = n
    BY <2>1, AppendProperties, LenProperties
  <2>3. \A i \in 1 .. L + 1 : i \in 1 .. L \/ i = L + 1
    BY <2>1
  <2>4. \A i \in 1 .. L : ns[i] \in Range(ns)
    BY <2>1 DEF Range
  <2> HIDE DEF ms, L
  <2>5. \A i \in 1 .. L + 1 : ms[i] \in Range(d) /\ admissible(is, ms[i])
    BY <1>2, <2>1, <2>2, <2>3 DEF Admissions
  <2>6. ASSUME NEW i \in 1 .. L + 1, NEW j \in 1 .. L + 1,
               slotFor(ms[i].ref) = slotFor(ms[j].ref)
        PROVE  i = j
    <3>1. CASE i \in 1 .. L /\ j \in 1 .. L
      BY <2>1, <2>2, <2>6, <3>1 DEF Admissions
    <3>2. CASE i \in 1 .. L /\ j = L + 1
      BY <1>2, <2>2, <2>4, <2>6, <3>2
    <3>3. CASE i = L + 1 /\ j \in 1 .. L
      BY <1>2, <2>2, <2>4, <2>6, <3>3
    <3>4. QED BY <2>3, <3>1, <3>2, <3>3
  <2>7. ms \in Admissions(is, d)
    BY <2>2, <2>5, <2>6 DEF Admissions
  <2>8. QED BY <1>2, <2>7 DEF admit, ms
<1>3. QED BY <1>1, <1>2

\* f is what a pass has admitted of d, node by node.
Admits(f, is, d) ==
  f = [i \in 0 .. Len(d) |-> IF i = 0 THEN << >> ELSE admit(is, f[i - 1], d[i])]

LEMMA PassAdmitsSome ==
  ASSUME NEW is, NEW d \in Seq(Node)
  PROVE  admitted(is, d) \in Admissions(is, d)
<1> DEFINE L == Len(d)
           S == Admissions(is, d)
           Step == [i \in 1 .. L |-> [ns \in S |-> admit(is, ns, d[i])]]
           F == CHOOSE f : Admits(f, is, d)
<1>1. L \in Nat /\ \A i \in 1 .. L : d[i] \in Node /\ d[i] \in Range(d)
  BY DEF Range
<1>2. << >> \in S
  BY DEF Admissions
<1>3. \A i \in 1 .. L, ns \in S : Step[i][ns] = admit(is, ns, d[i])
  OBVIOUS
<1>4. \A i \in 1 .. L, ns \in S : admit(is, ns, d[i]) \in S
  BY <1>1, AdmitAdmits
<1>5. Step \in [1 .. L -> [S -> S]]
  BY <1>4
<1> HIDE DEF Step, S
<1>6. \E f : Admits(f, is, d)
  <2>1. PICK f \in [0 .. L -> S] : Loop(f, L, << >>, Step)
    <3> HIDE DEF L
    <3>1. QED BY <1>1, <1>2, <1>5, LoopRuns
  <2>2. ASSUME NEW i \in 0 .. L PROVE f[i] = IF i = 0 THEN << >> ELSE admit(is, f[i - 1], d[i])
    <3>1. CASE i = 0
      BY <2>1, <3>1 DEF Loop
    <3>2. CASE i # 0
      <4>1. i \in 1 .. L /\ i - 1 \in 0 .. L
        BY <1>1, <3>2
      <4>2. f[i - 1] \in S
        BY <2>1, <4>1
      <4>3. QED BY <1>3, <2>1, <3>2, <4>1, <4>2 DEF Loop
    <3>3. QED BY <3>1, <3>2
  <2>3. f = [i \in 0 .. L |-> IF i = 0 THEN << >> ELSE admit(is, f[i - 1], d[i])]
    BY <2>1, <2>2
  <2>4. QED BY <2>3 DEF Admits
<1>7. Admits(F, is, d)
  BY <1>6
<1>8. admitted(is, d) = F[L]
  BY DEF admitted, Admits
<1> HIDE DEF F
<1>9. \A i \in 0 .. L : F[i] = IF i = 0 THEN << >> ELSE admit(is, F[i - 1], d[i])
  BY <1>7 DEF Admits
<1>10. \A i \in 0 .. L : F[i] \in S
  <2> DEFINE T == {i \in 0 .. L : F[i] \in S}
  <2>1. 0 \in T
    BY <1>1, <1>2, <1>9
  <2>2. ASSUME NEW i \in 1 .. L, i - 1 \in T PROVE i \in T
    <3>1. i \in 0 .. L /\ i # 0 /\ F[i - 1] \in S
      BY <1>1, <2>2
    <3>2. QED BY <1>4, <1>9, <3>1
  <2> HIDE DEF L
  <2>3. \A i \in 0 .. L : i \in T
    BY <1>1, <2>1, <2>2, AllAlong
  <2>4. QED BY <2>3
<1>11. QED BY <1>1, <1>8, <1>10 DEF S

-----------------------------------------------------------------------------
(***************************************************************************)
(* One generation.                                                         *)
(***************************************************************************)
LEMMA NobodyIsSound == Nobody \in Generation /\ Sound(Nobody)
BY EmptySeq DEF Nobody, Generation, Sound

LEMMA AdmittedIsSound ==
  ASSUME NEW o \in Gen \cup {NoGen}, NEW ps \in Seq(Gen)
  PROVE  /\ Admitted(o, ps) \in Generation /\ Sound(Admitted(o, ps))
         /\ Admitted(o, ps).owner = o /\ Admitted(o, ps).status = "starting"
         /\ Admitted(o, ps).scope = "open" /\ Admitted(o, ps).closer = "nobody"
BY DEF Admitted, Nobody, Generation, Sound

LEMMA StoppingIsSound ==
  ASSUME NEW gen \in Generation, Sound(gen),
         gen.status \in {"starting", "running", "failed"}
  PROVE  /\ Stopping(gen) \in Generation /\ Sound(Stopping(gen))
         /\ Stopping(gen).status = "stopping" /\ Stopping(gen).owner = gen.owner
         /\ Stopping(gen).scope = gen.scope /\ Stopping(gen).closer = gen.closer
BY DEF Stopping, Generation, Sound

LEMMA ReturnedIsSound ==
  ASSUME NEW gen \in Generation, Sound(gen), gen.closing = "pending",
         gen.scope = "closed" \/ gen.closer = "owner"
  PROVE  /\ returned(gen) \in Generation /\ Sound(returned(gen))
         /\ returned(gen).status = gen.status /\ returned(gen).owner = gen.owner
         /\ returned(gen).scope = gen.scope /\ returned(gen).closer = gen.closer
BY DEF returned, Generation, Sound

-----------------------------------------------------------------------------
(***************************************************************************)
(* Steps that admit nobody.                                                *)
(***************************************************************************)
\* Nobody comes to hold resources.
LEMMA StaysSequential ==
  ASSUME SequentialUnderOneOwner,
         \A g \in Gen : Holds(g)' => Holds(g) /\ inst'[g].owner = inst[g].owner
  PROVE  SequentialUnderOneOwner'
BY DEF SequentialUnderOneOwner

\* What may start, and that there are tokens for it, is a matter of who has which
\* status.
LEMMA RoomGoesOn ==
  ASSUME NEW is, NEW d, room(is, d), desired' = d, all' = all, Range(all) \subseteq Gen,
         \A g \in Gen : inst'[g].status = is[g].status,
         \A g \in Live(is) : inst[g].status = is[g].status,
         Free \subseteq Free'
  PROVE  room(inst, desired)'
<1>1. Live(inst') = Live(is)
  BY DEF Live
<1>2. ASSUME NEW r PROVE current(inst', r) = current(is, r)
  BY <1>1 DEF current
<1>3. ASSUME NEW r PROVE ownerOf(inst', r) = ownerOf(is, r)
  BY <1>2 DEF ownerOf
<1>4. ASSUME NEW g, g # NoGen => g \in Live(is) PROVE runs(g)' <=> runs(g)
  BY <1>4 DEF runs, Live
<1>5. ASSUME NEW r PROVE retiring(inst, r)' = retiring(is, r)
  BY DEF retiring
<1>6. ASSUME NEW n, admissible(inst, n)' PROVE admissible(is, n)
  <2>1. \A p : runs(current(is, p))' <=> runs(current(is, p))
    BY <1>4, CurrentIsLive
  <2>2. runs(ownerOf(is, n.ref))' <=> runs(ownerOf(is, n.ref))
    BY <1>4, OwnerIsLive
  <2>3. QED BY <1>1, <1>2, <1>3, <1>5, <1>6, <2>1, <2>2 DEF admissible
<1>7. QED BY <1>6 DEF room

\* What the close of a Scope does leaves every status, and the owners of those who
\* are not forgotten; it frees tokens and never takes one.
Closings ==
  /\ UNCHANGED <<desired, all, loop>>
  /\ inst' \in Insts
  /\ \A g \in Gen :
       /\ Sound(inst'[g])
       /\ inst'[g].status = inst[g].status
       /\ inst'[g].status # "none" => inst'[g].owner = inst[g].owner
       /\ Holds(g)' => Holds(g) /\ inst'[g].owner = inst[g].owner
       /\ inst[g] = Nobody => inst'[g] = Nobody

LEMMA ClosingsKeep ==
  ASSUME KernelInv, Closings, ClosesUnderOwner'
  PROVE  KernelInv'
<1>1. KernelTyped' /\ AllSound' /\ Remembers'
  BY DEF KernelInv, Closings, KernelTyped, Insts, AllSound, Remembers
<1>2. Range(all) \subseteq Gen
  BY DEF KernelInv, KernelTyped, Range
<1>3. Free \subseteq Free'
  BY DEF Closings, Free
<1>4. HasRoom'
  <2> SUFFICES ASSUME loop' = "admitting" PROVE room(inst, desired)'
    BY DEF HasRoom
  <2>1. room(inst, desired)
    BY DEF Closings, KernelInv, HasRoom
  <2>2. QED BY <1>2, <1>3, <2>1, RoomGoesOn DEF Closings
<1>5. OwnersRun'
  <2>1. Live(inst') = Live(inst) /\ \A g \in Live(inst) : inst'[g].owner = inst[g].owner
    BY DEF Closings, Live
  <2>2. ASSUME NEW g \in Live(inst) PROVE inst[g].owner \in Gen \cup {NoGen}
    BY DEF KernelInv, KernelTyped, Generation, Live
  <2>3. QED BY <2>1, <2>2 DEF KernelInv, OwnersRun, Closings
<1>6. SequentialUnderOneOwner'
  BY StaysSequential DEF KernelInv, Closings
<1>7. QED BY <1>1, <1>4, <1>5, <1>6 DEF KernelInv

LEMMA TidiedForgets ==
  ASSUME NEW is, NEW remembered, NEW g \in Gen
  PROVE  \/ tidied(is, remembered)[g] = is[g]
         \/ /\ tidied(is, remembered)[g] = Nobody
            /\ g \notin remembered /\ is[g].scope \in {"none", "closed"}
BY DEF tidied

LEMMA ClosesKeeps ==
  ASSUME KernelInv, NEW g \in Gen, closes(g), UNCHANGED <<desired, all, loop>>
  PROVE  KernelInv'
<1>1. inst[g] \in Generation /\ Sound(inst[g]) /\ inst \in Insts
  BY DEF KernelInv, KernelTyped, AllSound, Insts
<1>2. /\ inst' = [inst EXCEPT ![g] = [inst[g] EXCEPT !.scope = "closing", !.closer = "self"]]
      /\ inst[g].closing = "pending" /\ inst[g].closer = "nobody"
  BY DEF closes
<1>3. /\ inst'[g] = [inst[g] EXCEPT !.scope = "closing", !.closer = "self"]
      /\ \A h \in Gen : h # g => inst'[h] = inst[h]
  BY <1>1, <1>2 DEF Insts
<1>4. /\ inst'[g] \in Generation /\ inst'[g].scope = "closing" /\ inst'[g].closer = "self"
      /\ inst'[g].status = inst[g].status /\ inst'[g].owner = inst[g].owner
      /\ inst'[g].stopFiber = inst[g].stopFiber /\ inst'[g].closing = inst[g].closing
  BY <1>1, <1>3 DEF Generation
<1>5. Sound(inst'[g]) /\ inst[g].scope = "open"
  BY <1>1, <1>2, <1>4 DEF Sound, Generation
<1>6. inst' \in Insts
  BY <1>1, <1>2, <1>3, <1>4 DEF Insts
<1>7. inst[g] # Nobody
  BY <1>2 DEF Nobody
<1>8. Closings
  BY <1>3, <1>4, <1>5, <1>6, <1>7 DEF Closings, Holds, KernelInv, AllSound
<1>9. ClosesUnderOwner'
  <2> SUFFICES ASSUME NEW h \in Gen, inst'[h].closer = "owner", inst'[h].scope = "closing"
               PROVE  inst'[h].owner # NoGen /\ inst'[inst'[h].owner].scope = "closing"
    BY DEF ClosesUnderOwner
  <2>1. inst'[h] = inst[h] /\ inst[h].owner \in Gen \cup {NoGen}
    BY <1>1, <1>3, <1>4 DEF Insts, Generation
  <2>2. inst[h].owner # NoGen /\ inst[inst[h].owner].scope = "closing"
    BY <2>1 DEF KernelInv, ClosesUnderOwner
  <2>3. inst[h].owner \in Gen
    BY <2>1, <2>2
  <2>4. inst'[inst[h].owner].scope = "closing"
    BY <1>3, <1>4, <2>2, <2>3
  <2>5. QED BY <2>1, <2>2, <2>4
<1>10. QED BY <1>8, <1>9, ClosingsKeep

LEMMA FindsClosedKeeps ==
  ASSUME KernelInv, NEW g \in Gen, findsClosed(g), UNCHANGED <<desired, all, loop>>
  PROVE  KernelInv'
<1>1. inst[g] \in Generation /\ Sound(inst[g]) /\ inst \in Insts
  BY DEF KernelInv, KernelTyped, AllSound, Insts
<1>2. /\ inst' = [inst EXCEPT ![g] = returned(inst[g])]
      /\ inst[g].closing = "pending" /\ inst[g].closer = "owner"
  BY DEF findsClosed
<1>3. /\ inst'[g] = returned(inst[g])
      /\ \A h \in Gen : h # g => inst'[h] = inst[h]
  BY <1>1, <1>2 DEF Insts
<1>4. /\ inst'[g] \in Generation /\ Sound(inst'[g])
      /\ inst'[g].status = inst[g].status /\ inst'[g].owner = inst[g].owner
      /\ inst'[g].scope = inst[g].scope /\ inst'[g].closer = inst[g].closer
  BY <1>1, <1>2, <1>3, ReturnedIsSound
<1>5. inst' \in Insts
  BY <1>1, <1>2, <1>3, <1>4 DEF Insts
<1>6. inst[g] # Nobody
  BY <1>2 DEF Nobody
<1>7. Closings
  BY <1>3, <1>4, <1>5, <1>6 DEF Closings, Holds, KernelInv, AllSound
<1>8. ClosesUnderOwner'
  <2> SUFFICES ASSUME NEW h \in Gen, inst'[h].closer = "owner", inst'[h].scope = "closing"
               PROVE  inst'[h].owner # NoGen /\ inst'[inst'[h].owner].scope = "closing"
    BY DEF ClosesUnderOwner
  <2>1. /\ inst'[h].owner = inst[h].owner /\ inst[h].owner \in Gen \cup {NoGen}
        /\ inst[h].closer = "owner" /\ inst[h].scope = "closing"
    BY <1>1, <1>3, <1>4 DEF Insts, Generation
  <2>2. inst[h].owner # NoGen /\ inst[inst[h].owner].scope = "closing"
    BY <2>1 DEF KernelInv, ClosesUnderOwner
  <2>3. QED BY <1>3, <1>4, <2>1, <2>2
<1>9. QED BY <1>7, <1>8, ClosingsKeep

\* Whoever has authority is not reached: its owner still runs, with its Scope open.
LEMMA ReachesKeeps ==
  ASSUME KernelInv, NEW g \in Gen, NEW c \in Gen, reaches(g, c), UNCHANGED <<desired, all, loop>>
  PROVE  KernelInv'
<1>1. inst[c] \in Generation /\ Sound(inst[c]) /\ inst \in Insts /\ Sound(inst[g])
  BY DEF KernelInv, KernelTyped, AllSound, Insts
<1>2. /\ inst' = [inst EXCEPT ![c] = [inst[c] EXCEPT !.scope = "closing", !.closer = "owner"]]
      /\ inst[g].scope = "closing" /\ inst[c].owner = g /\ inst[c].scope = "open"
  BY DEF reaches, children
<1>3. /\ inst'[c] = [inst[c] EXCEPT !.scope = "closing", !.closer = "owner"]
      /\ \A h \in Gen : h # c => inst'[h] = inst[h]
  BY <1>1, <1>2 DEF Insts
<1>4. /\ inst'[c] \in Generation /\ inst'[c].scope = "closing" /\ inst'[c].closer = "owner"
      /\ inst'[c].status = inst[c].status /\ inst'[c].owner = inst[c].owner
      /\ inst'[c].stopFiber = inst[c].stopFiber /\ inst'[c].closing = inst[c].closing
  BY <1>1, <1>3 DEF Generation
<1>5. inst[c].status \notin {"starting", "running"}
  <2>1. ASSUME c \in Live(inst) PROVE FALSE
    <3>1. g # NoGen
      BY ClosingAssumption
    <3>2. inst[g].status = "running"
      BY <1>2, <2>1, <3>1 DEF KernelInv, OwnersRun
    <3>3. QED BY <1>1, <1>2, <3>2 DEF Sound
  <2>2. QED BY <2>1 DEF Live
<1>6. Sound(inst'[c])
  BY <1>1, <1>2, <1>4, <1>5 DEF Sound
<1>7. inst' \in Insts
  BY <1>1, <1>2, <1>3, <1>4 DEF Insts
<1>8. inst[c] # Nobody
  BY <1>2 DEF Nobody
<1>9. Closings
  BY <1>2, <1>3, <1>4, <1>6, <1>7, <1>8 DEF Closings, Holds, KernelInv, AllSound
<1>10. ClosesUnderOwner'
  <2> SUFFICES ASSUME NEW h \in Gen, inst'[h].closer = "owner", inst'[h].scope = "closing"
               PROVE  inst'[h].owner # NoGen /\ inst'[inst'[h].owner].scope = "closing"
    BY DEF ClosesUnderOwner
  <2>1. inst'[h].owner = inst[h].owner /\ inst[h].owner \in Gen \cup {NoGen}
    BY <1>1, <1>3, <1>4 DEF Insts, Generation
  <2>2. CASE h = c
    BY <1>2, <1>3, <1>4, <2>1, <2>2, ClosingAssumption
  <2>3. CASE h # c
    <3>1. inst[h].owner # NoGen /\ inst[inst[h].owner].scope = "closing"
      BY <1>3, <2>1, <2>3 DEF KernelInv, ClosesUnderOwner
    <3>2. inst'[inst[h].owner].scope = "closing"
      <4>1. inst[h].owner \in Gen
        BY <2>1, <3>1
      <4>2. QED BY <1>3, <1>4, <3>1, <4>1
    <3>3. QED BY <2>1, <3>1, <3>2
  <2>4. QED BY <2>2, <2>3
<1>11. QED BY <1>9, <1>10, ClosingsKeep

LEMMA ReleasesKeeps ==
  ASSUME KernelInv, NEW g \in Gen, releases(g), UNCHANGED <<desired, all, loop>>
  PROVE  KernelInv'
<1> DEFINE released == [inst[g] EXCEPT !.scope = "closed", !.building = FALSE]
           gen == IF inst[g].closer = "self" THEN returned(released) ELSE released
           mid == [inst EXCEPT ![g] = gen]
<1>1. inst[g] \in Generation /\ Sound(inst[g]) /\ inst \in Insts
  BY DEF KernelInv, KernelTyped, AllSound, Insts
<1>2. /\ inst' = tidied(mid, Range(all))
      /\ inst[g].scope = "closing"
      /\ \A c \in children(g) : inst[c].closer = "owner" => inst[c].scope = "closed"
  <2>1. inst' = tidied(mid, Range(all))
    BY Zenon DEF releases
  <2>2. QED BY <2>1 DEF releases
<1>3. /\ gen \in Generation /\ gen.scope = "closed" /\ gen.closer = inst[g].closer
      /\ gen.status = inst[g].status /\ gen.owner = inst[g].owner
      /\ gen.stopFiber = inst[g].stopFiber
  BY <1>1 DEF returned, Generation
<1>4. Sound(gen)
  BY <1>1, <1>2, <1>3 DEF Sound
<1> HIDE DEF gen
<1>5. mid[g] = gen /\ mid \in Insts /\ \A h \in Gen : h # g => mid[h] = inst[h]
  BY <1>1, <1>3 DEF Insts
<1> HIDE DEF mid
<1>6. \A h \in Gen : \/ inst'[h] = mid[h]
                     \/ /\ inst'[h] = Nobody
                        /\ inst[h].status = "none" /\ mid[h].scope \in {"none", "closed"}
  BY <1>2, TidiedForgets DEF KernelInv, Remembers
<1>7. inst' \in Insts
  <2>1. inst' = [h \in Gen |-> inst'[h]]
    BY <1>2 DEF tidied
  <2>2. QED BY <1>5, <1>6, <2>1, NobodyIsSound DEF Insts
<1>8. ASSUME NEW h \in Gen
      PROVE  /\ Sound(inst'[h])
             /\ inst'[h].status = inst[h].status
             /\ inst'[h].status # "none" => inst'[h].owner = inst[h].owner
             /\ Holds(h)' => Holds(h) /\ inst'[h].owner = inst[h].owner
             /\ inst[h] = Nobody => inst'[h] = Nobody
  <2>1. Nobody.status = "none" /\ Nobody.scope = "none"
    BY DEF Nobody
  <2>2. Sound(inst[h])
    BY DEF KernelInv, AllSound
  <2>3. CASE h = g
    BY <1>2, <1>3, <1>4, <1>5, <1>6, <2>1, <2>3, NobodyIsSound DEF Holds
  <2>4. CASE h # g
    BY <1>5, <1>6, <2>1, <2>2, <2>4, NobodyIsSound DEF Holds
  <2>5. QED BY <2>3, <2>4
<1>9. Closings
  BY <1>7, <1>8 DEF Closings
<1>10. ClosesUnderOwner'
  <2> SUFFICES ASSUME NEW h \in Gen, inst'[h].closer = "owner", inst'[h].scope = "closing"
               PROVE  inst'[h].owner # NoGen /\ inst'[inst'[h].owner].scope = "closing"
    BY DEF ClosesUnderOwner
  <2>1. inst'[h] = inst[h] /\ h # g
    BY <1>3, <1>5, <1>6 DEF Nobody
  <2>2. inst[h].owner # NoGen /\ inst[inst[h].owner].scope = "closing"
    BY <2>1 DEF KernelInv, ClosesUnderOwner
  <2>3. inst[h].owner \in Gen
    BY <1>1, <2>2 DEF Insts, Generation
  <2>4. inst[h].owner # g
    BY <1>2, <2>1 DEF children
  <2>5. mid[inst[h].owner].scope = "closing"
    BY <1>5, <2>2, <2>3, <2>4
  <2>6. inst'[inst[h].owner].scope = "closing"
    BY <1>6, <2>3, <2>5
  <2>7. QED BY <2>1, <2>2, <2>6
<1>11. QED BY <1>9, <1>10, ClosingsKeep

LEMMA ScopesKeep ==
  ASSUME KernelInv, NEW g \in Gen, closeInstance(g) \/ ScopeCloses(g)
  PROVE  KernelInv'
<1>1. CASE closeInstance(g)
  BY <1>1, ClosesKeeps, FindsClosedKeeps DEF closeInstance
<1>2. CASE ScopeCloses(g)
  BY <1>2, ReleasesKeeps, ReachesKeeps DEF ScopeCloses
<1>3. QED BY <1>1, <1>2

-----------------------------------------------------------------------------
\* A generation turns: its status changes, its resources and its owner do not.
\* Nobody gains authority, and who keeps it keeps an owner that runs.
Turns ==
  /\ all' = all
  /\ desired' \in Desire
  /\ inst' \in Insts
  /\ \A g \in Gen :
       /\ Sound(inst'[g])
       /\ inst'[g].status = "none" <=> inst[g].status = "none"
       /\ inst'[g].owner = inst[g].owner
       /\ inst'[g].scope = inst[g].scope
       /\ inst'[g].closer = inst[g].closer
  /\ \A g \in Live(inst') :
       /\ g \in Live(inst)
       /\ inst[g].owner # NoGen => inst'[inst[g].owner].status = "running"

LEMMA TurnsKeep ==
  ASSUME KernelInv, Turns, HasRoom'
  PROVE  KernelInv'
<1>1. KernelTyped' /\ AllSound' /\ Remembers'
  BY DEF KernelInv, Turns, KernelTyped, Insts, AllSound, Remembers
<1>2. OwnersRun'
  BY DEF KernelInv, OwnersRun, Turns, Live
<1>3. ASSUME NEW g \in Gen PROVE inst[g].owner \in Gen \cup {NoGen}
  BY DEF KernelInv, KernelTyped, Generation
<1>4. ClosesUnderOwner'
  BY <1>3 DEF KernelInv, ClosesUnderOwner, Turns
<1>5. SequentialUnderOneOwner'
  BY StaysSequential DEF KernelInv, Turns, Holds
<1>6. QED BY <1>1, <1>2, <1>4, <1>5 DEF KernelInv

\* `retire`: those with authority, and all that stands on them.
LEMMA RetireKeeps ==
  ASSUME KernelInv, NEW gs \in SUBSET Live(inst), retire(gs), desired' \in Desire, HasRoom',
         \A g \in Live(inst) : inst[g].owner # NoGen /\ inst[g].owner \in gs => g \in gs
  PROVE  KernelInv'
<1>1. /\ inst' = [g \in Gen |-> IF g \in gs THEN Stopping(inst[g]) ELSE inst[g]]
      /\ all' = all
  BY DEF retire
<1>2. inst \in Insts /\ \A g \in Gen : inst[g] \in Generation /\ Sound(inst[g])
  BY DEF KernelInv, KernelTyped, AllSound, Insts
<1>3. ASSUME NEW g \in gs
      PROVE  /\ Stopping(inst[g]) \in Generation /\ Sound(Stopping(inst[g]))
             /\ Stopping(inst[g]).status = "stopping" /\ inst[g].status # "none"
             /\ Stopping(inst[g]).owner = inst[g].owner
             /\ Stopping(inst[g]).scope = inst[g].scope
             /\ Stopping(inst[g]).closer = inst[g].closer
  <2>1. g \in Gen /\ inst[g].status \in {"starting", "running", "failed"}
    BY DEF Live
  <2>2. QED BY <1>2, <2>1, StoppingIsSound
<1>4. inst' \in Insts
  BY <1>1, <1>2, <1>3 DEF Insts
<1>5. ASSUME NEW g \in Gen
      PROVE  /\ Sound(inst'[g])
             /\ inst'[g].status = "none" <=> inst[g].status = "none"
             /\ inst'[g].owner = inst[g].owner
             /\ inst'[g].scope = inst[g].scope
             /\ inst'[g].closer = inst[g].closer
  BY <1>1, <1>2, <1>3
<1>6. ASSUME NEW g \in Live(inst')
      PROVE  /\ g \in Live(inst)
             /\ inst[g].owner # NoGen => inst'[inst[g].owner].status = "running"
  <2>1. g \in Gen /\ g \notin gs /\ inst'[g] = inst[g]
    BY <1>1, <1>3, <1>6 DEF Live
  <2>2. g \in Live(inst)
    BY <1>6, <2>1 DEF Live
  <2>3. ASSUME inst[g].owner # NoGen PROVE inst'[inst[g].owner].status = "running"
    <3>1. inst[g].owner \in Gen
      BY <1>2, <2>1, <2>3 DEF Generation
    <3>2. inst[inst[g].owner].status = "running"
      BY <2>2, <2>3 DEF KernelInv, OwnersRun
    <3>3. inst[g].owner \notin gs
      BY <2>1, <2>2, <2>3
    <3>4. QED BY <1>1, <3>1, <3>2, <3>3
  <2>4. QED BY <2>2, <2>3
<1>7. Turns
  BY <1>1, <1>4, <1>5, <1>6 DEF Turns
<1>8. QED BY <1>7, TurnsKeep

\* The end of one startup.
LEMMA StartupEndsKeep ==
  ASSUME KernelInv, NEW g \in Gen, NEW gen, inst' = [inst EXCEPT ![g] = gen],
         gen \in Generation, Sound(gen), gen.status # "none",
         gen.owner = inst[g].owner, gen.scope = inst[g].scope, gen.closer = inst[g].closer,
         inst[g].status = "starting", UNCHANGED <<desired, all, loop>>, mutex
  PROVE  KernelInv'
<1>1. inst \in Insts /\ \A h \in Gen : inst[h] \in Generation /\ Sound(inst[h])
  BY DEF KernelInv, KernelTyped, AllSound, Insts
<1>2. inst' \in Insts /\ inst'[g] = gen /\ \A h \in Gen : h # g => inst'[h] = inst[h]
  BY <1>1 DEF Insts
<1>3. ASSUME NEW h \in Gen
      PROVE  /\ Sound(inst'[h])
             /\ inst'[h].status = "none" <=> inst[h].status = "none"
             /\ inst'[h].owner = inst[h].owner
             /\ inst'[h].scope = inst[h].scope
             /\ inst'[h].closer = inst[h].closer
  BY <1>1, <1>2
<1>4. ASSUME NEW h \in Live(inst')
      PROVE  /\ h \in Live(inst)
             /\ inst[h].owner # NoGen => inst'[inst[h].owner].status = "running"
  <2>1. h \in Live(inst)
    BY <1>2, <1>4 DEF Live
  <2>2. ASSUME inst[h].owner # NoGen PROVE inst'[inst[h].owner].status = "running"
    <3>1. inst[h].owner \in Gen
      BY <1>1, <2>1, <2>2 DEF Generation, Live
    <3>2. inst[inst[h].owner].status = "running"
      BY <2>1, <2>2 DEF KernelInv, OwnersRun
    <3>3. QED BY <1>2, <3>1, <3>2
  <2>3. QED BY <2>1, <2>2
<1>5. Turns
  BY <1>2, <1>3, <1>4 DEF Turns, KernelInv, KernelTyped
<1>6. HasRoom'
  BY DEF HasRoom, mutex
<1>7. QED BY <1>5, <1>6, TurnsKeep

LEMMA CompletedKeeps ==
  ASSUME KernelInv, NEW g \in Gen, NEW ok \in BOOLEAN, Completed(g, ok)
  PROVE  KernelInv'
<1>1. inst[g] \in Generation /\ Sound(inst[g]) /\ inst[g].status = "starting"
  BY DEF KernelInv, KernelTyped, AllSound, Completed
<1>2. mutex /\ UNCHANGED <<desired, all, loop>>
  BY DEF Completed
<1>3. CASE endsOvertaken(g)
  <2> DEFINE was == [inst[g] EXCEPT !.building = FALSE]
  <2>1. was \in Generation /\ Sound(was) /\ was.status = "starting" /\ was.owner = inst[g].owner
        /\ was.scope = inst[g].scope /\ was.closer = inst[g].closer
    BY <1>1 DEF Generation, Sound
  <2>2. inst' = [inst EXCEPT ![g] = Stopping(was)]
    BY <1>3 DEF endsOvertaken
  <2> HIDE DEF was
  <2>3. QED BY <1>1, <1>2, <2>1, <2>2, StoppingIsSound, StartupEndsKeep
<1>4. CASE ends(g, ok)
  <2> DEFINE now == [inst[g] EXCEPT !.building = FALSE,
                                    !.status = IF ok THEN "running" ELSE "failed",
                                    !.closing = IF ok THEN inst[g].closing ELSE "pending",
                                    !.cleanup = ~ok]
  <2>1. inst' = [inst EXCEPT ![g] = now]
    BY <1>4 DEF ends, KernelInv, KernelTyped
  <2>2. /\ now \in Generation /\ now.status = (IF ok THEN "running" ELSE "failed")
        /\ now.closing = (IF ok THEN inst[g].closing ELSE "pending")
        /\ now.owner = inst[g].owner /\ now.scope = inst[g].scope
        /\ now.closer = inst[g].closer /\ now.stopFiber = inst[g].stopFiber
    BY <1>1 DEF Generation
  <2>3. Sound(now)
    BY <1>1, <2>2 DEF Sound
  <2> HIDE DEF now
  <2>4. now.status # "none"
    BY <2>2
  <2>5. QED BY <1>1, <1>2, <2>1, <2>2, <2>3, <2>4, StartupEndsKeep
<1>5. QED BY <1>3, <1>4 DEF Completed

LEMMA CompletedLateKeeps ==
  ASSUME KernelInv, NEW g \in Gen, CompletedLate(g)
  PROVE  KernelInv'
<1>1. inst \in Insts /\ \A h \in Gen : inst[h] \in Generation /\ Sound(inst[h])
  BY DEF KernelInv, KernelTyped, AllSound, Insts
<1>2. inst' = [inst EXCEPT ![g] = [inst[g] EXCEPT !.building = FALSE]] /\ inst[g].building
  BY DEF CompletedLate, endsLate
<1>3. inst'[g] = [inst[g] EXCEPT !.building = FALSE]
      /\ \A h \in Gen : h # g => inst'[h] = inst[h]
  BY <1>1, <1>2 DEF Insts
<1>4. /\ inst'[g] \in Generation
      /\ inst'[g].status = inst[g].status /\ inst'[g].owner = inst[g].owner
      /\ inst'[g].scope = inst[g].scope /\ inst'[g].closer = inst[g].closer
      /\ inst'[g].stopFiber = inst[g].stopFiber /\ inst'[g].closing = inst[g].closing
  BY <1>1, <1>3 DEF Generation
<1>5. Sound(inst'[g])
  BY <1>1, <1>4 DEF Sound
<1>6. inst' \in Insts
  BY <1>1, <1>2, <1>3, <1>4 DEF Insts
<1>7. inst[g] # Nobody
  BY <1>2 DEF Nobody
<1>8. Closings
  BY <1>1, <1>3, <1>4, <1>5, <1>6, <1>7 DEF Closings, Holds, CompletedLate
<1>9. ClosesUnderOwner'
  <2> SUFFICES ASSUME NEW h \in Gen, inst'[h].closer = "owner", inst'[h].scope = "closing"
               PROVE  inst'[h].owner # NoGen /\ inst'[inst'[h].owner].scope = "closing"
    BY DEF ClosesUnderOwner
  <2>1. /\ inst'[h].owner = inst[h].owner /\ inst[h].owner \in Gen \cup {NoGen}
        /\ inst[h].closer = "owner" /\ inst[h].scope = "closing"
    BY <1>1, <1>3, <1>4 DEF Generation
  <2>2. inst[h].owner # NoGen /\ inst[inst[h].owner].scope = "closing"
    BY <2>1 DEF KernelInv, ClosesUnderOwner
  <2>3. inst'[inst[h].owner].scope = inst[inst[h].owner].scope
    BY <1>3, <1>4, <2>1, <2>2
  <2>4. QED BY <2>1, <2>2, <2>3
<1>10. QED BY <1>8, <1>9, ClosingsKeep

-----------------------------------------------------------------------------
(***************************************************************************)
(* The stop fiber forgets its generation.                                  *)
(***************************************************************************)
\* as is all, without g and in the same order.
Without(as, g) ==
  /\ as \in Seq(Gen)
  /\ \A i, j \in DOMAIN as : as[i] = as[j] => i = j
  /\ \A h \in Gen : h \in Range(as) <=> h \in Range(all) /\ h # g
  /\ \A i, j \in DOMAIN all : i < j /\ all[i] # g /\ all[j] # g =>
       \E k, l \in DOMAIN as : k < l /\ as[k] = all[i] /\ as[l] = all[j]

LEMMA AllButForgets ==
  ASSUME KernelTyped, Remembers, NEW g \in Gen, g \in Range(all)
  PROVE  Without(allBut(g), g)
<1> DEFINE n == CHOOSE i \in DOMAIN all : all[i] = g
           L == Len(all)
           as == allBut(g)
<1>1. L \in Nat /\ DOMAIN all = 1 .. L /\ \A i \in 1 .. L : all[i] \in Gen
  BY DEF KernelTyped
<1>2. n \in 1 .. L /\ all[n] = g
  BY <1>1 DEF Range
<1>3. \A i \in 1 .. L : all[i] = g => i = n
  BY <1>1, <1>2 DEF Remembers
<1>4. as = SubSeq(all, 1, n - 1) \o SubSeq(all, n + 1, L)
  BY DEF allBut, RemoveAt
<1> HIDE DEF n
<1> DEFINE left == SubSeq(all, 1, n - 1)
           right == SubSeq(all, n + 1, L)
<1>5. /\ left \in Seq(Gen) /\ Len(left) = n - 1
      /\ \A i \in 1 .. n - 1 : left[i] = all[i]
  <2>1. n - 1 \in Int /\ \A i \in 1 .. n - 1 : all[i] \in Gen
    BY <1>1, <1>2
  <2>2. /\ left \in Seq(Gen)
        /\ Len(left) = IF 1 <= n - 1 THEN (n - 1) - 1 + 1 ELSE 0
        /\ \A i \in 1 .. (n - 1) - 1 + 1 : left[i] = all[1 + i - 1]
    BY <2>1, SubSeqProperties
  <2> HIDE DEF left
  <2>3. Len(left) = n - 1 /\ (n - 1) - 1 + 1 = n - 1 /\ \A i \in Int : 1 + i - 1 = i
    BY <1>1, <1>2, <2>2
  <2>4. QED BY <2>2, <2>3
<1>6. /\ right \in Seq(Gen) /\ Len(right) = L - n
      /\ \A i \in 1 .. L - n : right[i] = all[n + i]
  <2>1. n + 1 \in Int /\ L \in Int /\ \A i \in n + 1 .. L : all[i] \in Gen
    BY <1>1, <1>2
  <2>2. /\ right \in Seq(Gen)
        /\ Len(right) = IF n + 1 <= L THEN L - (n + 1) + 1 ELSE 0
        /\ \A i \in 1 .. L - (n + 1) + 1 : right[i] = all[n + 1 + i - 1]
    <3> HIDE DEF L
    <3>1. QED BY <2>1, SubSeqProperties
  <2> HIDE DEF right, L
  <2>3. Len(right) = L - n /\ L - (n + 1) + 1 = L - n
    BY <1>1, <1>2, <2>2
  <2>4. ASSUME NEW i \in 1 .. L - n PROVE right[i] = all[n + i]
    <3>1. i \in 1 .. L - (n + 1) + 1 /\ n + 1 + i - 1 = n + i
      BY <1>1, <1>2
    <3>2. right[i] = all[n + 1 + i - 1]
      BY <2>2, <3>1
    <3>3. QED BY <3>1, <3>2
  <2>5. QED BY <2>2, <2>3, <2>4
<1> HIDE DEF left, right
<1>7. /\ as \in Seq(Gen) /\ DOMAIN as = 1 .. L - 1
      /\ \A i \in 1 .. n - 1 : as[i] = all[i]
      /\ \A i \in n .. L - 1 : as[i] = all[i + 1]
  <2>1. as = left \o right
    BY <1>4 DEF left, right
  <2> HIDE DEF as, L
  <2>2. /\ as \in Seq(Gen) /\ Len(as) = Len(left) + Len(right)
        /\ \A i \in 1 .. Len(left) + Len(right) :
             as[i] = IF i <= Len(left) THEN left[i] ELSE right[i - Len(left)]
    BY <1>5, <1>6, <2>1, ConcatProperties
  <2>3. Len(as) = L - 1 /\ Len(left) + Len(right) = L - 1
    BY <1>1, <1>2, <1>5, <1>6, <2>2
  <2>4. DOMAIN as = 1 .. L - 1
    BY <2>2, <2>3
  <2>5. ASSUME NEW i \in 1 .. n - 1 PROVE as[i] = all[i]
    <3>1. i \in 1 .. L - 1 /\ i <= Len(left)
      BY <1>1, <1>2, <1>5
    <3>2. QED BY <1>5, <2>2, <2>3, <3>1
  <2>6. ASSUME NEW i \in n .. L - 1 PROVE as[i] = all[i + 1]
    <3>1. i \in 1 .. L - 1 /\ ~(i <= Len(left)) /\ i - Len(left) \in 1 .. L - n
          /\ n + (i - Len(left)) = i + 1
      BY <1>1, <1>2, <1>5
    <3>2. as[i] = right[i - Len(left)]
      BY <2>2, <2>3, <3>1
    <3>3. QED BY <1>6, <3>1, <3>2
  <2>7. QED BY <2>2, <2>4, <2>5, <2>6
<1> HIDE DEF as, L
\* Where `as` has its i-th from, and where it has the i-th of `all`.
<1> DEFINE at == [i \in 1 .. L - 1 |-> IF i < n THEN i ELSE i + 1]
           to == [i \in 1 .. L |-> IF i < n THEN i ELSE i - 1]
<1>8. ASSUME NEW i \in 1 .. L - 1
      PROVE  at[i] \in 1 .. L /\ at[i] # n /\ as[i] = all[at[i]]
  <2>1. CASE i < n
    <3>1. i \in 1 .. n - 1 /\ at[i] = i /\ i \in 1 .. L /\ i # n
      BY <1>1, <1>2, <2>1
    <3> HIDE DEF at
    <3>2. QED BY <1>7, <3>1
  <2>2. CASE ~(i < n)
    <3>1. i \in n .. L - 1 /\ at[i] = i + 1 /\ i + 1 \in 1 .. L /\ i + 1 # n
      BY <1>1, <1>2, <2>2
    <3> HIDE DEF at
    <3>2. QED BY <1>7, <3>1
  <2>3. QED BY <2>1, <2>2
<1>9. ASSUME NEW i \in 1 .. L, i # n PROVE to[i] \in 1 .. L - 1 /\ as[to[i]] = all[i]
  <2>1. CASE i < n
    <3>1. i \in 1 .. n - 1 /\ to[i] = i /\ i \in 1 .. L - 1
      BY <1>1, <1>2, <2>1
    <3> HIDE DEF to
    <3>2. QED BY <1>7, <3>1
  <2>2. CASE ~(i < n)
    <3>1. i - 1 \in n .. L - 1 /\ to[i] = i - 1 /\ i - 1 \in 1 .. L - 1
      BY <1>1, <1>2, <1>9, <2>2
    <3>2. (i - 1) + 1 = i
      OBVIOUS
    <3>3. as[i - 1] = all[(i - 1) + 1]
      BY <1>7, <3>1
    <3> HIDE DEF to
    <3>4. QED BY <3>1, <3>2, <3>3
  <2>3. QED BY <2>1, <2>2
<1>10. \A i, j \in 1 .. L - 1 : at[i] = at[j] => i = j
  BY <1>1, <1>2
<1>11. \A i, j \in 1 .. L : i < j /\ i # n /\ j # n => to[i] < to[j]
  BY <1>1, <1>2
<1> HIDE DEF at, to
<1>12. ASSUME NEW i \in DOMAIN as, NEW j \in DOMAIN as, as[i] = as[j] PROVE i = j
  <2>1. i \in 1 .. L - 1 /\ j \in 1 .. L - 1
    BY <1>7
  <2>2. /\ at[i] \in DOMAIN all /\ as[i] = all[at[i]]
        /\ at[j] \in DOMAIN all /\ as[j] = all[at[j]]
    BY <1>1, <1>8, <2>1
  <2>3. at[i] = at[j]
    BY <1>12, <2>2 DEF Remembers
  <2>4. QED BY <1>10, <2>1, <2>3
<1>13. ASSUME NEW h \in Gen PROVE h \in Range(as) <=> h \in Range(all) /\ h # g
  <2>1. ASSUME h \in Range(as) PROVE h \in Range(all) /\ h # g
    <3>1. PICK i \in 1 .. L - 1 : as[i] = h
      BY <1>7, <2>1 DEF Range
    <3>2. at[i] \in 1 .. L /\ at[i] # n /\ h = all[at[i]]
      BY <1>8, <3>1
    <3>3. QED BY <1>1, <1>3, <3>2 DEF Range
  <2>2. ASSUME h \in Range(all), h # g PROVE h \in Range(as)
    <3>1. PICK i \in 1 .. L : all[i] = h
      BY <1>1, <2>2 DEF Range
    <3>2. to[i] \in DOMAIN as /\ as[to[i]] = h
      BY <1>2, <1>7, <1>9, <2>2, <3>1
    <3>3. QED BY <3>2 DEF Range
  <2>3. QED BY <2>1, <2>2
<1>14. ASSUME NEW i \in DOMAIN all, NEW j \in DOMAIN all, i < j, all[i] # g, all[j] # g
       PROVE  \E k, l \in DOMAIN as : k < l /\ as[k] = all[i] /\ as[l] = all[j]
  <2>1. i \in 1 .. L /\ j \in 1 .. L /\ i # n /\ j # n
    BY <1>1, <1>2, <1>14
  <2>2. /\ to[i] \in DOMAIN as /\ to[j] \in DOMAIN as /\ to[i] < to[j]
        /\ as[to[i]] = all[i] /\ as[to[j]] = all[j]
    BY <1>7, <1>9, <1>11, <1>14, <2>1
  <2>3. QED BY <2>2
<1>15. QED BY <1>7, <1>12, <1>13, <1>14 DEF Without, as

LEMMA StopEndsKeeps ==
  ASSUME KernelInv, NEW g \in Gen, StopEnds(g)
  PROVE  KernelInv'
<1> DEFINE gen == [inst[g] EXCEPT !.status = "none", !.stopFiber = FALSE]
           mid == [inst EXCEPT ![g] = gen]
<1>1. inst \in Insts /\ \A h \in Gen : inst[h] \in Generation /\ Sound(inst[h])
  BY DEF KernelInv, KernelTyped, AllSound, Insts
<1>2. /\ inst' = tidied(mid, Range(all'))
      /\ inst[g].stopFiber /\ inst[g].closing = "done" /\ all' = allBut(g)
      /\ mutex /\ UNCHANGED <<desired, loop>>
  BY DEF StopEnds, stopped
<1>3. inst[g].status = "stopping"
  BY <1>1, <1>2 DEF Sound
<1>4. Without(all', g)
  BY <1>2, <1>3, AllButForgets DEF KernelInv, Remembers
<1>5. /\ gen \in Generation /\ gen.status = "none" /\ gen.stopFiber = FALSE
      /\ gen.owner = inst[g].owner /\ gen.scope = inst[g].scope
      /\ gen.closer = inst[g].closer /\ gen.closing = "done"
  BY <1>1, <1>2 DEF Generation
<1>6. Sound(gen)
  BY <1>1, <1>2, <1>5 DEF Sound
<1> HIDE DEF gen
<1>7. mid[g] = gen /\ mid \in Insts /\ \A h \in Gen : h # g => mid[h] = inst[h]
  BY <1>1, <1>5 DEF Insts
<1> HIDE DEF mid
<1>8. ASSUME NEW h \in Gen
      PROVE  /\ Sound(mid[h]) /\ mid[h].owner = inst[h].owner
             /\ mid[h].scope = inst[h].scope /\ mid[h].closer = inst[h].closer
             /\ mid[h].status # "none" <=> h \in Range(all')
             /\ h # g => mid[h].status = inst[h].status
  <2>1. h \in Range(all') <=> inst[h].status # "none" /\ h # g
    BY <1>4 DEF Without, KernelInv, Remembers
  <2>2. CASE h = g
    BY <1>5, <1>6, <1>7, <2>1, <2>2
  <2>3. CASE h # g
    BY <1>1, <1>7, <2>1, <2>3
  <2>4. QED BY <2>2, <2>3
<1>9. ASSUME NEW h \in Gen
      PROVE  \/ inst'[h] = mid[h]
             \/ /\ inst'[h] = Nobody
                /\ h \notin Range(all') /\ mid[h].scope \in {"none", "closed"}
  BY <1>2, TidiedForgets
<1>10. Nobody.status = "none" /\ Nobody.scope = "none"
  BY DEF Nobody
<1>11. KernelTyped'
  <2>1. inst' = [h \in Gen |-> inst'[h]]
    BY <1>2 DEF tidied
  <2>2. \A h \in Gen : inst'[h] \in Generation
    BY <1>7, <1>9, NobodyIsSound DEF Insts
  <2>3. QED BY <1>2, <1>4, <2>1, <2>2 DEF KernelTyped, KernelInv, Without
<1>12. AllSound'
  BY <1>8, <1>9, NobodyIsSound DEF AllSound
<1>13. \A h \in Gen : inst'[h].status # "none" <=> h \in Range(all')
  BY <1>8, <1>9, <1>10
<1>14. Remembers'
  BY <1>4, <1>13 DEF Remembers, Without
<1>15. OwnersRun'
  <2> SUFFICES ASSUME NEW h \in Live(inst'), inst'[h].owner # NoGen
               PROVE  /\ inst'[inst'[h].owner].status = "running"
                      /\ \E i, j \in DOMAIN all' :
                           i < j /\ all'[i] = inst'[h].owner /\ all'[j] = h
    BY DEF OwnersRun
  <2>1. h \in Gen /\ inst'[h] = mid[h]
    BY <1>9, <1>10 DEF Live
  <2>2. h # g
    BY <1>5, <1>7, <2>1 DEF Live
  <2>3. h \in Live(inst) /\ inst'[h] = inst[h]
    BY <1>7, <2>1, <2>2 DEF Live
  <2> DEFINE o == inst[h].owner
  <2>4. o \in Gen /\ inst[o].status = "running"
    BY <1>1, <2>1, <2>3 DEF KernelInv, OwnersRun, Generation
  <2>5. o # g
    BY <1>3, <2>4
  <2>6. mid[o] = inst[o] /\ o \in Range(all')
    BY <1>7, <1>8, <2>4, <2>5
  <2>7. inst'[o] = inst[o]
    BY <1>9, <2>4, <2>6
  <2>8. PICK i, j \in DOMAIN all : i < j /\ all[i] = o /\ all[j] = h
    BY <2>3 DEF KernelInv, OwnersRun
  <2>9. \E k, l \in DOMAIN all' : k < l /\ all'[k] = o /\ all'[l] = h
    BY <1>4, <2>2, <2>5, <2>8 DEF Without
  <2>10. QED BY <2>3, <2>4, <2>7, <2>9
<1>16. ClosesUnderOwner'
  <2> SUFFICES ASSUME NEW h \in Gen, inst'[h].closer = "owner", inst'[h].scope = "closing"
               PROVE  inst'[h].owner # NoGen /\ inst'[inst'[h].owner].scope = "closing"
    BY DEF ClosesUnderOwner
  <2>1. /\ inst'[h].owner = inst[h].owner /\ inst[h].closer = "owner"
        /\ inst[h].scope = "closing"
    BY <1>8, <1>9, <1>10
  <2>2. inst[h].owner # NoGen /\ inst[inst[h].owner].scope = "closing"
    BY <2>1 DEF KernelInv, ClosesUnderOwner
  <2>3. inst[h].owner \in Gen
    BY <1>1, <2>2 DEF Generation
  <2>4. inst'[inst[h].owner].scope = "closing"
    BY <1>8, <1>9, <2>2, <2>3
  <2>5. QED BY <2>1, <2>2, <2>4
<1>17. HasRoom'
  BY <1>2 DEF HasRoom, mutex
<1>18. \A h \in Gen : Holds(h)' => Holds(h) /\ inst'[h].owner = inst[h].owner
  BY <1>8, <1>9, <1>10 DEF Holds
<1>19. SequentialUnderOneOwner'
  BY <1>18, StaysSequential DEF KernelInv
<1>20. QED BY <1>11, <1>12, <1>14, <1>15, <1>16, <1>17, <1>19 DEF KernelInv

-----------------------------------------------------------------------------
(***************************************************************************)
(* A pass admits.                                                          *)
(***************************************************************************)
LEMMA TokenIsFree ==
  ASSUME NEW r \in Ref, Free \cap ({r} \X Incarnation) # {}
  PROVE  token(r) \in Gen /\ inst[token(r)] = Nobody /\ refOf(token(r)) = r
<1> DEFINE T == {i \in Incarnation : <<r, i>> \in Free}
<1>1. T \in SUBSET Nat /\ T # {}
  <2>1. PICK t \in {r} \X Incarnation : t \in Free
    OBVIOUS
  <2>2. t = <<r, t[2]>> /\ t[2] \in Incarnation
    BY <2>1
  <2>3. t[2] \in T
    BY <2>1, <2>2
  <2>4. T \subseteq Incarnation
    OBVIOUS
  <2>5. QED BY <2>3, <2>4, ClosingAssumption
<1>2. \E n \in T : \A m \in T : n <= m
  BY <1>1, LeastNumber
<1>3. Min(T) \in T
  BY <1>2 DEF Min
<1>4. token(r) = <<r, Min(T)>>
  BY DEF token
<1> HIDE DEF T
<1> DEFINE i == Min(T)
<1>5. i \in Incarnation /\ <<r, i>> \in Free
  BY <1>3 DEF T
<1> HIDE DEF i
<1>6. <<r, i>> \in Gen /\ inst[<<r, i>>] = Nobody /\ refOf(<<r, i>>) = r
  BY <1>5 DEF Free, Gen, refOf
<1>7. QED BY <1>4, <1>6 DEF i

\* What may start stands on generations that run.
LEMMA AdmissibleStands ==
  ASSUME KernelInv, NEW n \in Range(desired), admissible(inst, n)
  PROVE  /\ n \in Node /\ node(n.ref) = n
         /\ ownerOf(inst, n.ref) # NoGen =>
              ownerOf(inst, n.ref) \in Gen /\ inst[ownerOf(inst, n.ref)].status = "running"
         /\ bound(inst, n.providers) \in Seq(Gen)
<1>1. /\ desired \in Seq(Node)
      /\ \A i, j \in DOMAIN desired : desired[i].ref = desired[j].ref => i = j
  BY KernelAssumption DEF KernelInv, KernelTyped, Node
<1>2. n \in Node
  BY <1>1 DEF Range
<1>3. node(n.ref) = n
  <2>1. \A m \in Range(desired) : m.ref = n.ref => m = n
    BY <1>1 DEF Range
  <2>2. QED BY <2>1 DEF node
<1>4. ASSUME ownerOf(inst, n.ref) # NoGen
      PROVE  ownerOf(inst, n.ref) \in Gen /\ inst[ownerOf(inst, n.ref)].status = "running"
  <2>1. ownerOf(inst, n.ref) \in Gen
    BY <1>4, OwnerIsLive DEF Live
  <2>2. Parent[n.ref] # NoRef
    BY <1>4 DEF ownerOf
  <2>3. QED BY <2>1, <2>2 DEF admissible, runs
<1>5. bound(inst, n.providers) \in Seq(Gen)
  <2> DEFINE ps == n.providers
  <2>1. ps \in Seq(Ref) /\ DOMAIN ps = 1 .. Len(ps) /\ Len(ps) \in Nat
    BY <1>2 DEF Node
  <2>2. ASSUME NEW i \in DOMAIN ps PROVE current(inst, ps[i]) \in Gen
    <3>1. ps[i] \in Range(ps)
      BY DEF Range
    <3>2. current(inst, ps[i]) # NoGen
      BY <3>1 DEF admissible, runs
    <3>3. QED BY <3>2, CurrentIsLive DEF Live
  <2> HIDE DEF ps
  <2>3. [i \in DOMAIN ps |-> current(inst, ps[i])] \in [1 .. Len(ps) -> Gen]
    BY <2>1, <2>2
  <2>4. [i \in DOMAIN ps |-> current(inst, ps[i])] \in Seq(Gen)
    BY <2>1, <2>3
  <2>5. QED BY <2>4 DEF bound, ps
<1>6. QED BY <1>2, <1>3, <1>4, <1>5

LEMMA SlotKeepsFamily ==
  ASSUME NEW q \in Ref, NEW r \in Ref, slotFor(q) = slotFor(r)
  PROVE  Family[q] = Family[r]
<1>1. CASE Family[q] \in Many /\ Family[r] \in Many
  BY <1>1 DEF slotFor
<1>2. CASE Family[q] \notin Many /\ Family[r] \notin Many
  BY <1>2 DEF slotFor
<1>3. CASE Family[q] \in Many /\ Family[r] \notin Many
  <2>1. Len(slotFor(q)) = 1 /\ Len(slotFor(r)) = 2
    BY <1>3 DEF slotFor
  <2>2. QED BY <2>1
<1>4. CASE Family[q] \notin Many /\ Family[r] \in Many
  <2>1. Len(slotFor(q)) = 2 /\ Len(slotFor(r)) = 1
    BY <1>4 DEF slotFor
  <2>2. QED BY <2>1
<1>5. QED BY <1>1, <1>2, <1>3, <1>4

\* Beneath the owner that what may start would have, nobody holds resources in its
\* slot: not with authority, not draining, and not forgotten while its owner closes,
\* since that owner runs.
LEMMA SlotIsEmpty ==
  ASSUME KernelInv, NEW n \in Range(desired), admissible(inst, n), NEW h \in Gen, Holds(h),
         slotFor(refOf(h)) = slotFor(n.ref), inst[h].owner = ownerOf(inst, n.ref)
  PROVE  Family[n.ref] \in Overlap
<1>1. inst[h] \in Generation /\ Sound(inst[h])
  BY DEF KernelInv, KernelTyped, AllSound
<1>2. CASE inst[h].status = "none"
  <2>1. inst[h].scope = "closing" /\ inst[h].closer = "owner"
    BY <1>1, <1>2 DEF Sound, Holds
  <2> DEFINE o == inst[h].owner
  <2>2. o # NoGen /\ inst[o].scope = "closing"
    BY <2>1 DEF KernelInv, ClosesUnderOwner
  <2>3. o \in Gen /\ inst[o].status = "running"
    BY <2>2, AdmissibleStands
  <2>4. QED BY <2>2, <2>3 DEF KernelInv, AllSound, Sound
<1>3. CASE inst[h].status = "stopping"
  <2>1. h \in Range(all)
    BY <1>3 DEF KernelInv, Remembers
  <2>2. h \in retiring(inst, n.ref)
    BY <1>3, <2>1 DEF retiring
  <2>3. QED BY <2>2 DEF admissible
<1>4. CASE inst[h].status \in {"starting", "running", "failed"}
  BY <1>4 DEF admissible, Live
<1>5. QED BY <1>1, <1>2, <1>3, <1>4 DEF Generation

\* The tokens of a pass: free, one to a slot.
LEMMA TokensOfAPass ==
  ASSUME KernelInv, HasRoom, loop = "admitting",
         NEW ns \in Admissions(inst, desired), NEW i \in DOMAIN ns
  PROVE  /\ ns[i] \in Range(desired) /\ admissible(inst, ns[i])
         /\ token(ns[i].ref) \in Gen /\ inst[token(ns[i].ref)] = Nobody
         /\ refOf(token(ns[i].ref)) = ns[i].ref
         /\ \A j \in DOMAIN ns : slotFor(ns[i].ref) = slotFor(ns[j].ref) => i = j
<1>1. /\ ns[i] \in Range(desired) /\ admissible(inst, ns[i]) /\ ns[i] \in Node
      /\ \A j \in DOMAIN ns : slotFor(ns[i].ref) = slotFor(ns[j].ref) => i = j
  BY DEF Admissions
<1>2. ns[i].ref \in Ref /\ Free \cap ({ns[i].ref} \X Incarnation) # {}
  BY <1>1 DEF HasRoom, room, Node
<1>3. QED BY <1>1, <1>2, TokenIsFree

LEMMA PassAdmitsKeeps ==
  ASSUME KernelInv, PassAdmits
  PROVE  KernelInv'
<1> DEFINE nodes == admitted(inst, desired)
           toks == [i \in DOMAIN nodes |-> token(nodes[i].ref)]
           new == {token(n.ref) : n \in Range(nodes)}
           L == Len(all)
           K == Len(nodes)
<1>1. inst \in Insts /\ \A h \in Gen : inst[h] \in Generation /\ Sound(inst[h])
  BY DEF KernelInv, KernelTyped, AllSound, Insts
<1>2. /\ loop = "admitting" /\ loop' = "waiting" /\ desired' = desired
      /\ all' = all \o toks
      /\ inst' = [g \in Gen |->
           IF g \in new
             THEN Admitted(ownerOf(inst, refOf(g)), bound(inst, node(refOf(g)).providers))
             ELSE inst[g]]
  BY DEF PassAdmits
<1>3. nodes \in Admissions(inst, desired)
  <2>1. desired \in Seq(Node)
    BY KernelAssumption DEF KernelInv, KernelTyped, Node
  <2>2. QED BY <2>1, PassAdmitsSome
<1> HIDE DEF nodes
<1>4. K \in Nat /\ DOMAIN nodes = 1 .. K /\ nodes \in Seq(Node)
  BY <1>3 DEF Admissions
<1>5. ASSUME NEW i \in 1 .. K
      PROVE  /\ nodes[i] \in Range(desired) /\ admissible(inst, nodes[i])
             /\ toks[i] \in Gen /\ inst[toks[i]] = Nobody /\ refOf(toks[i]) = nodes[i].ref
             /\ \A j \in 1 .. K : slotFor(nodes[i].ref) = slotFor(nodes[j].ref) => i = j
  BY <1>2, <1>3, <1>4, TokensOfAPass DEF KernelInv
<1>6. new = {toks[i] : i \in 1 .. K}
  BY <1>4 DEF Range
<1>7. DOMAIN toks = 1 .. K
  BY <1>4
<1> HIDE DEF toks, new
<1>8. toks \in Seq(Gen) /\ Len(toks) = K
  <2>1. \A i \in 1 .. K : toks[i] \in Gen
    BY <1>5
  <2>2. toks \in [1 .. K -> Gen]
    BY <1>7, <2>1 DEF toks
  <2>3. QED BY <1>4, <1>7, <2>2
<1>9. /\ L \in Nat /\ DOMAIN all = 1 .. L
      /\ all' \in Seq(Gen) /\ Len(all') = L + K /\ DOMAIN all' = 1 .. L + K
      /\ \A i \in 1 .. L + K : all'[i] = IF i <= L THEN all[i] ELSE toks[i - L]
  <2>1. all \in Seq(Gen) /\ L \in Nat /\ DOMAIN all = 1 .. L
    BY DEF KernelInv, KernelTyped
  <2> HIDE DEF L, K
  <2>2. /\ all' \in Seq(Gen) /\ Len(all') = Len(all) + Len(toks)
        /\ \A i \in 1 .. Len(all) + Len(toks) :
             all'[i] = IF i <= Len(all) THEN all[i] ELSE toks[i - Len(all)]
    BY <1>2, <1>8, <2>1, ConcatProperties
  <2>3. Len(all) = L /\ Len(toks) = K
    BY <1>8 DEF L
  <2>4. /\ all' \in Seq(Gen) /\ Len(all') = L + K
        /\ \A i \in 1 .. L + K : all'[i] = IF i <= L THEN all[i] ELSE toks[i - L]
    BY <2>2, <2>3
  <2>5. DOMAIN all' = 1 .. L + K
    BY <2>4
  <2>6. QED BY <2>1, <2>4, <2>5
<1> HIDE DEF L, K
<1>10. \A i \in 1 .. L : i \in 1 .. L + K /\ all'[i] = all[i]
  BY <1>4, <1>9
<1>11. ASSUME NEW i \in 1 .. K PROVE L + i \in 1 .. L + K /\ L + i > L /\ all'[L + i] = toks[i]
  <2> DEFINE k == L + i
  <2>1. k \in 1 .. L + K /\ k > L /\ ~(k <= L) /\ k - L = i
    BY <1>4, <1>9
  <2> HIDE DEF k
  <2>2. all'[k] = toks[i]
    BY <1>9, <2>1
  <2>3. QED BY <2>1, <2>2 DEF k
<1>12. ASSUME NEW k \in 1 .. L + K
       PROVE  \/ k \in 1 .. L /\ all'[k] = all[k]
              \/ k - L \in 1 .. K /\ all'[k] = toks[k - L]
  BY <1>4, <1>9
\* Who is new.
<1>13. ASSUME NEW g \in Gen, g \in new
       PROVE  \E i \in 1 .. K :
                /\ g = toks[i]
                /\ inst'[g] = Admitted(ownerOf(inst, nodes[i].ref),
                                       bound(inst, nodes[i].providers))
  <2>1. PICK i \in 1 .. K : g = toks[i]
    BY <1>6, <1>13
  <2>2. refOf(g) = nodes[i].ref /\ node(refOf(g)) = nodes[i]
    BY <1>5, <2>1, AdmissibleStands
  <2>3. QED BY <1>2, <1>13, <2>1, <2>2
<1>14. ASSUME NEW i \in 1 .. K
       PROVE  /\ inst'[toks[i]] \in Generation /\ Sound(inst'[toks[i]])
              /\ inst'[toks[i]].owner = ownerOf(inst, nodes[i].ref)
              /\ inst'[toks[i]].status = "starting" /\ inst'[toks[i]].scope = "open"
              /\ inst'[toks[i]].closer = "nobody"
  <2>1. toks[i] \in Gen /\ toks[i] \in new /\ refOf(toks[i]) = nodes[i].ref
        /\ node(nodes[i].ref) = nodes[i]
    BY <1>5, <1>6, AdmissibleStands
  <2>2. inst'[toks[i]] = Admitted(ownerOf(inst, nodes[i].ref), bound(inst, nodes[i].providers))
    BY <1>2, <2>1
  <2>3. /\ ownerOf(inst, nodes[i].ref) \in Gen \cup {NoGen}
        /\ bound(inst, nodes[i].providers) \in Seq(Gen)
    BY <1>5, AdmissibleStands
  <2>4. QED BY <2>2, <2>3, AdmittedIsSound
<1>15. ASSUME NEW g \in Gen PROVE \/ g \notin new /\ inst'[g] = inst[g]
                                  \/ \E i \in 1 .. K : g = toks[i]
  BY <1>2, <1>6
<1>16. \A g \in Gen : inst[g] # Nobody => inst'[g] = inst[g]
  BY <1>5, <1>15
<1>17. Nobody.status = "none" /\ Nobody.scope = "none"
  BY DEF Nobody
<1>18. KernelTyped'
  <2>1. \A g \in Gen : inst'[g] \in Generation
    BY <1>1, <1>14, <1>15
  <2>2. inst' \in [Gen -> Generation]
    BY <1>2, <2>1
  <2>3. QED BY <1>2, <1>9, <2>2 DEF KernelTyped, KernelInv
<1>19. AllSound'
  BY <1>1, <1>14, <1>15 DEF AllSound
<1>20. Remembers'
  <2>1. \A i \in 1 .. L : all[i] \in Gen /\ inst[all[i]].status # "none"
    BY <1>9 DEF KernelInv, KernelTyped, Remembers, Range
  <2>2. ASSUME NEW k \in 1 .. L + K, NEW l \in 1 .. L + K, all'[k] = all'[l] PROVE k = l
    <3>1. CASE k \in 1 .. L /\ l \in 1 .. L
      <4>1. all[k] = all[l]
        BY <1>10, <2>2, <3>1
      <4>2. QED BY <1>9, <3>1, <4>1 DEF KernelInv, Remembers
    <3>2. CASE k - L \in 1 .. K /\ l - L \in 1 .. K /\ all'[k] = toks[k - L] /\ all'[l] = toks[l - L]
      <4>1. refOf(toks[k - L]) = nodes[k - L].ref /\ refOf(toks[l - L]) = nodes[l - L].ref
        BY <1>5, <3>2
      <4>2. nodes[k - L].ref = nodes[l - L].ref
        BY <2>2, <3>2, <4>1
      <4>3. k - L = l - L
        BY <1>5, <3>2, <4>2
      <4>4. QED BY <1>9, <4>3
    <3>3. CASE k \in 1 .. L /\ all'[k] = all[k] /\ l - L \in 1 .. K /\ all'[l] = toks[l - L]
      <4>1. inst[all[k]].status # "none"
        BY <2>1, <3>3
      <4>2. inst[toks[l - L]] = Nobody
        BY <1>5, <3>3
      <4>3. QED BY <1>17, <2>2, <3>3, <4>1, <4>2
    <3>4. CASE l \in 1 .. L /\ all'[l] = all[l] /\ k - L \in 1 .. K /\ all'[k] = toks[k - L]
      <4>1. inst[all[l]].status # "none"
        BY <2>1, <3>4
      <4>2. inst[toks[k - L]] = Nobody
        BY <1>5, <3>4
      <4>3. QED BY <1>17, <2>2, <3>4, <4>1, <4>2
    <3>5. QED BY <1>12, <3>1, <3>2, <3>3, <3>4
  <2>3. ASSUME NEW g \in Gen, inst'[g].status # "none" PROVE g \in Range(all')
    <3>1. CASE inst'[g] = inst[g]
      <4>1. g \in Range(all)
        BY <2>3, <3>1 DEF KernelInv, Remembers
      <4>2. PICK i \in 1 .. L : all[i] = g
        BY <1>9, <4>1 DEF Range
      <4>3. i \in DOMAIN all' /\ all'[i] = g
        BY <1>9, <1>10, <4>2
      <4>4. QED BY <4>3 DEF Range
    <3>2. ASSUME NEW i \in 1 .. K, g = toks[i] PROVE g \in Range(all')
      <4>1. L + i \in DOMAIN all' /\ all'[L + i] = g
        BY <1>9, <1>11, <3>2
      <4>2. QED BY <4>1 DEF Range
    <3>3. QED BY <1>15, <3>1, <3>2
  <2>4. ASSUME NEW g \in Gen, g \in Range(all') PROVE inst'[g].status # "none"
    <3>1. PICK k \in 1 .. L + K : all'[k] = g
      BY <1>9, <2>4 DEF Range
    <3>2. CASE k \in 1 .. L /\ all'[k] = all[k]
      <4>1. inst[g].status # "none"
        BY <2>1, <3>1, <3>2
      <4>2. QED BY <1>16, <1>17, <4>1
    <3>3. CASE k - L \in 1 .. K /\ all'[k] = toks[k - L]
      BY <1>14, <3>1, <3>3
    <3>4. QED BY <1>12, <3>2, <3>3
  <2>5. \A k, l \in DOMAIN all' : all'[k] = all'[l] => k = l
    BY <1>9, <2>2
  <2>6. QED BY <2>3, <2>4, <2>5 DEF Remembers
<1>21. OwnersRun'
  <2> SUFFICES ASSUME NEW g \in Live(inst'), inst'[g].owner # NoGen
               PROVE  /\ inst'[inst'[g].owner].status = "running"
                      /\ \E i, j \in DOMAIN all' :
                           i < j /\ all'[i] = inst'[g].owner /\ all'[j] = g
    BY DEF OwnersRun
  <2>1. g \in Gen
    BY DEF Live
  <2>2. CASE inst'[g] = inst[g]
    <3> DEFINE o == inst[g].owner
    <3>1. g \in Live(inst) /\ o # NoGen /\ o \in Gen
      BY <1>1, <2>1, <2>2 DEF Live, Generation
    <3>2. inst[o].status = "running"
      BY <3>1 DEF KernelInv, OwnersRun
    <3>3. inst'[o] = inst[o]
      BY <1>16, <1>17, <3>1, <3>2
    <3>4. PICK i, j \in DOMAIN all : i < j /\ all[i] = o /\ all[j] = g
      BY <3>1 DEF KernelInv, OwnersRun
    <3>5. i \in DOMAIN all' /\ j \in DOMAIN all' /\ all'[i] = o /\ all'[j] = g
      BY <1>9, <1>10, <3>4
    <3>6. QED BY <2>2, <3>2, <3>3, <3>4, <3>5
  <2>3. ASSUME NEW i \in 1 .. K, g = toks[i]
        PROVE  /\ inst'[inst'[g].owner].status = "running"
               /\ \E k, l \in DOMAIN all' :
                    k < l /\ all'[k] = inst'[g].owner /\ all'[l] = g
    <3> DEFINE o == inst'[g].owner
    <3>1. o = ownerOf(inst, nodes[i].ref) /\ o # NoGen
      BY <1>14, <2>3
    <3>2. o \in Gen /\ inst[o].status = "running"
      BY <1>5, <3>1, AdmissibleStands
    <3>3. inst'[o] = inst[o]
      BY <1>16, <1>17, <3>2
    <3>4. o \in Range(all)
      BY <3>2 DEF KernelInv, Remembers
    <3>5. PICK k \in 1 .. L : all[k] = o
      BY <1>9, <3>4 DEF Range
    <3>6. /\ k \in DOMAIN all' /\ L + i \in DOMAIN all' /\ k < L + i
          /\ all'[k] = o /\ all'[L + i] = g
      BY <1>4, <1>9, <1>10, <1>11, <2>3, <3>5
    <3>7. QED BY <3>2, <3>3, <3>6
  <2>4. QED BY <1>15, <2>1, <2>2, <2>3
<1>22. ClosesUnderOwner'
  <2> SUFFICES ASSUME NEW h \in Gen, inst'[h].closer = "owner", inst'[h].scope = "closing"
               PROVE  inst'[h].owner # NoGen /\ inst'[inst'[h].owner].scope = "closing"
    BY DEF ClosesUnderOwner
  <2>1. inst'[h] = inst[h]
    BY <1>14, <1>15
  <2>2. inst[h].owner # NoGen /\ inst[inst[h].owner].scope = "closing"
    BY <2>1 DEF KernelInv, ClosesUnderOwner
  <2>3. inst[h].owner \in Gen
    BY <1>1, <2>2 DEF Generation
  <2>4. inst'[inst[h].owner] = inst[inst[h].owner]
    BY <1>16, <1>17, <2>2, <2>3
  <2>5. QED BY <2>1, <2>2, <2>4
<1>23. HasRoom'
  BY <1>2 DEF HasRoom
<1>24. SequentialUnderOneOwner'
  <2> SUFFICES ASSUME NEW g \in Gen, NEW h \in Gen, g # h, Holds(g)', Holds(h)',
                      slotFor(refOf(g)) = slotFor(refOf(h)), inst'[g].owner = inst'[h].owner
               PROVE  Family[refOf(g)] \in Overlap
    BY DEF SequentialUnderOneOwner
  <2>1. refOf(g) \in Ref /\ refOf(h) \in Ref
    BY DEF Gen, refOf
  <2>2. CASE inst'[g] = inst[g] /\ inst'[h] = inst[h]
    BY <2>2 DEF KernelInv, SequentialUnderOneOwner, Holds
  <2>3. ASSUME NEW i \in 1 .. K, g = toks[i], inst'[h] = inst[h]
        PROVE  Family[refOf(g)] \in Overlap
    <3>1. Holds(h) /\ inst[h].owner = ownerOf(inst, nodes[i].ref)
      BY <1>14, <2>3 DEF Holds
    <3>2. slotFor(refOf(h)) = slotFor(nodes[i].ref)
      BY <1>5, <2>3
    <3>3. Family[nodes[i].ref] \in Overlap
      BY <1>5, <3>1, <3>2, SlotIsEmpty
    <3>4. QED BY <1>5, <2>3, <3>3
  <2>4. ASSUME NEW i \in 1 .. K, h = toks[i], inst'[g] = inst[g]
        PROVE  Family[refOf(g)] \in Overlap
    <3>1. Holds(g) /\ inst[g].owner = ownerOf(inst, nodes[i].ref)
      BY <1>14, <2>4 DEF Holds
    <3>2. slotFor(refOf(g)) = slotFor(nodes[i].ref) /\ refOf(h) = nodes[i].ref
      BY <1>5, <2>4
    <3>3. Family[nodes[i].ref] \in Overlap
      BY <1>5, <3>1, <3>2, SlotIsEmpty
    <3>4. Family[refOf(g)] = Family[refOf(h)]
      BY <2>1, SlotKeepsFamily
    <3>5. QED BY <3>2, <3>3, <3>4
  <2>5. ASSUME NEW i \in 1 .. K, g = toks[i], NEW j \in 1 .. K, h = toks[j] PROVE FALSE
    BY <1>5, <2>5
  <2>6. QED BY <1>15, <2>2, <2>3, <2>4, <2>5
<1>25. QED BY <1>18, <1>19, <1>20, <1>21, <1>22, <1>23, <1>24 DEF KernelInv

-----------------------------------------------------------------------------
(***************************************************************************)
(* The other steps, and the invariant of the kernel.                       *)
(***************************************************************************)
LEMMA GenerationsAreSound ==
  ASSUME KernelInv
  PROVE  Range(all) \subseteq Gen /\ inst \in Insts /\ \A g \in Gen : Sound(inst[g])
BY DEF KernelInv, KernelTyped, AllSound, Insts, Range

\* The generations stay as they are.
LEMMA LeavesGenerations ==
  ASSUME KernelInv, UNCHANGED <<all, inst>>, desired' \in Desire,
         loop' = "admitting" => room(inst, desired')
  PROVE  KernelInv'
<1>1. Range(all) \subseteq Gen /\ inst \in Insts /\ \A g \in Gen : Sound(inst[g])
  BY GenerationsAreSound
<1>2. HasRoom'
  <2> SUFFICES ASSUME loop' = "admitting" PROVE room(inst, desired)'
    BY DEF HasRoom
  <2>1. Free \subseteq Free'
    BY DEF Free
  <2>2. QED BY <1>1, <2>1, RoomGoesOn
<1>3. ASSUME NEW g \in Live(inst), inst[g].owner # NoGen
      PROVE  inst[inst[g].owner].status = "running"
  BY <1>3 DEF KernelInv, OwnersRun
<1>4. Turns
  BY <1>1, <1>3 DEF Turns
<1>5. QED BY <1>2, <1>4, TurnsKeep

LEMMA PassInvalidatesKeeps ==
  ASSUME KernelInv, PassInvalidates
  PROVE  KernelInv'
<1>1. /\ invalid \subseteq Live(inst)
      /\ \A g \in Gen : survivors[g] = IF g \in invalid
                                         THEN [inst[g] EXCEPT !.status = "stopping"]
                                         ELSE inst[g]
      /\ \A g \in Live(inst) :
           inst[g].owner # NoGen /\ inst[g].owner \in invalid => g \in invalid
  BY SweepTakesWhatItCarried DEF KernelInv
<1>2. /\ retire(invalid) /\ room(survivors, desired) /\ desired' = desired
      /\ all' = all
      /\ \A g \in Gen : inst'[g] = IF g \in invalid THEN Stopping(inst[g]) ELSE inst[g]
  BY DEF PassInvalidates, retire
<1>3. Range(all) \subseteq Gen /\ inst \in Insts /\ \A g \in Gen : Sound(inst[g])
  BY GenerationsAreSound
<1>4. ASSUME NEW g \in invalid
      PROVE  survivors[g].status = "stopping" /\ inst'[g].status = "stopping"
  <2>1. g \in Gen /\ inst[g] \in Generation
    BY <1>1, <1>3 DEF Live, Insts
  <2>2. [inst[g] EXCEPT !.status = "stopping"].status = "stopping"
        /\ Stopping(inst[g]).status = "stopping"
    BY <2>1 DEF Generation, Stopping
  <2>3. QED BY <1>1, <1>2, <2>1, <2>2
<1>5. \A g \in Gen : inst'[g].status = survivors[g].status
  BY <1>1, <1>2, <1>4
<1>6. \A g \in Live(survivors) : inst[g].status = survivors[g].status
  BY <1>1, <1>4 DEF Live
<1>7. Free \subseteq Free'
  <2>1. Nobody.status = "none"
    BY DEF Nobody
  <2>2. QED BY <1>1, <1>2, <2>1 DEF Free, Live
<1> HIDE DEF survivors, invalid
<1>8. room(inst, desired)'
  BY <1>2, <1>3, <1>5, <1>6, <1>7, RoomGoesOn
<1>9. HasRoom' /\ desired' \in Desire
  BY <1>2, <1>8 DEF HasRoom, KernelInv, KernelTyped
<1>10. QED BY <1>1, <1>2, <1>9, RetireKeeps

LEMMA RetryKeeps ==
  ASSUME KernelInv, NEW r \in Ref, retry(r)
  PROVE  KernelInv'
<1> DEFINE g == current(inst, r)
<1>1. /\ mutex /\ g # NoGen /\ inst[g].status = "failed" /\ retire({g})
      /\ UNCHANGED <<desired, loop>>
  BY DEF retry
<1>2. g \in Live(inst)
  BY <1>1, CurrentIsLive
<1> HIDE DEF g
<1>3. \A h \in Live(inst) : inst[h].owner # NoGen => inst[h].owner \notin {g}
  BY <1>1 DEF KernelInv, OwnersRun
<1>4. HasRoom' /\ desired' \in Desire
  BY <1>1 DEF HasRoom, mutex, KernelInv, KernelTyped
<1>5. {g} \in SUBSET Live(inst)
  BY <1>2
<1>6. QED BY <1>1, <1>3, <1>4, <1>5, RetireKeeps

LEMMA ShutdownKeeps ==
  ASSUME KernelInv, Shutdown
  PROVE  KernelInv'
<1>1. mutex /\ retire(Live(inst)) /\ UNCHANGED <<desired, loop>>
  BY DEF Shutdown
<1>2. HasRoom' /\ desired' \in Desire
  BY <1>1 DEF HasRoom, mutex, KernelInv, KernelTyped
<1>3. QED BY <1>1, <1>2, RetireKeeps

LEMMA KernelStarts ==
  ASSUME Init
  PROVE  KernelInv
<1>1. /\ desired \in Desire /\ all = << >> /\ loop = "waiting"
      /\ inst \in [Gen -> Generation] /\ \A g \in Gen : inst[g] = Nobody
  BY NobodyIsSound DEF Init
<1>2. Nobody.status = "none" /\ Nobody.scope = "none"
  BY DEF Nobody
<1>3. KernelTyped
  BY <1>1, EmptySeq DEF KernelTyped
<1>4. AllSound
  BY <1>1, NobodyIsSound DEF AllSound
<1>5. Remembers
  <2>1. Range(all) = {} /\ DOMAIN all = {}
    BY <1>1 DEF Range
  <2>2. QED BY <1>1, <1>2, <2>1 DEF Remembers
<1>6. OwnersRun
  BY <1>1, <1>2 DEF OwnersRun, Live
<1>7. ClosesUnderOwner
  BY <1>1, <1>2 DEF ClosesUnderOwner
<1>8. HasRoom
  BY <1>1 DEF HasRoom
<1>9. SequentialUnderOneOwner
  BY <1>1, <1>2 DEF SequentialUnderOneOwner, Holds
<1>10. QED BY <1>3, <1>4, <1>5, <1>6, <1>7, <1>8, <1>9 DEF KernelInv

LEMMA KernelSteps ==
  ASSUME KernelInv, [Next]_vars
  PROVE  KernelInv'
<1>1. desired \in Desire /\ (loop = "admitting" => room(inst, desired))
  BY DEF KernelInv, KernelTyped, HasRoom
<1>2. CASE UNCHANGED vars
  BY <1>1, <1>2, LeavesGenerations DEF vars, generations
<1>3. ASSUME NEW d \in Desire, publishDesired(d) PROVE KernelInv'
  BY <1>3, LeavesGenerations DEF publishDesired, generations
<1>4. ASSUME NEW r \in Ref, retry(r) PROVE KernelInv'
  BY <1>4, RetryKeeps
<1>5. CASE Shutdown
  BY <1>5, ShutdownKeeps
<1>6. CASE TimerFires
  BY <1>1, <1>6, LeavesGenerations DEF TimerFires, generations
<1>7. CASE LoopTakes
  BY <1>1, <1>7, LeavesGenerations DEF LoopTakes, generations
<1>8. CASE PassInvalidates
  BY <1>8, PassInvalidatesKeeps
<1>9. CASE PassIsLate
  BY <1>1, <1>9, LeavesGenerations DEF PassIsLate, generations
<1>10. CASE PassAdmits
  BY <1>10, PassAdmitsKeeps
<1>11. CASE ShutdownEnds
  BY <1>1, <1>11, LeavesGenerations DEF ShutdownEnds, generations
<1>12. ASSUME NEW g \in Gen, Closes(g) PROVE KernelInv'
  BY <1>12, ScopesKeep, StopEndsKeeps DEF Closes
<1>13. ASSUME NEW g \in Gen, CompletedLate(g) PROVE KernelInv'
  BY <1>13, CompletedLateKeeps
<1>14. ASSUME NEW g \in Gen, NEW ok \in BOOLEAN, Completed(g, ok) PROVE KernelInv'
  BY <1>14, CompletedKeeps
<1>15. QED BY <1>2, <1>3, <1>4, <1>5, <1>6, <1>7, <1>8, <1>9, <1>10, <1>11, <1>12, <1>13, <1>14
          DEF Next, Application, Runtime

THEOREM KernelInvariant == Spec => []KernelInv
BY KernelStarts, KernelSteps, PTL DEF Spec

\* In one slot of one physical owner the resources of two generations never exist at
\* once, unless the family overlaps on replacement: whatever the tree of identities,
\* the lists desire goes through, and the order in which startups and closes end.
THEOREM ReplacementIsSequential == Spec => []SequentialUnderOneOwner
<1>1. KernelInv => SequentialUnderOneOwner
  BY DEF KernelInv
<1>2. QED BY <1>1, KernelInvariant, PTL

-----------------------------------------------------------------------------
(***************************************************************************)
(* The rest of the state.                                                  *)
(***************************************************************************)
Statuses == {"none", "starting", "running", "failed", "stopping"}

LEMMA StatusAtomsAreTyped ==
  ASSUME KernelInv', atom \in [Ref -> Statuses], NEW rs, publishStatus(rs)
  PROVE  atom' \in [Ref -> Statuses]
<1>1. inst' \in Insts
  BY DEF KernelInv, KernelTyped, Insts
<1>2. ASSUME NEW r PROVE readStatus(inst', Range(all'), r) \in Statuses
  <2>1. current(inst', r) # NoGen => inst'[current(inst', r)].status \in Statuses
    BY CurrentIsLive DEF Live, Statuses
  <2>2. QED BY <2>1 DEF readStatus, Statuses
<1>3. QED BY <1>2 DEF publishStatus

\* Every variable of the kernel keeps its type: the status Atoms among them, which
\* are recomputed from whatever generations there are.
THEOREM KernelTypeCorrect == Spec => []TypeOK
<1> DEFINE Rest == /\ atom \in [Ref -> Statuses]
                   /\ loop \in {"waiting", "due", "admitting"}
                   /\ {wake, owed, scheduled, converged} \subseteq BOOLEAN
                   /\ phase \in {"open", "closing", "closed"}
<1>1. Init => Rest
  BY DEF Init, Statuses
<1>2. ASSUME KernelInv', Rest, [Next]_vars PROVE Rest'
  <2>1. atom' \in [Ref -> Statuses]
    <3>1. ASSUME NEW rs, publishStatus(rs) PROVE atom' \in [Ref -> Statuses]
      BY <1>2, <3>1, StatusAtomsAreTyped
    <3>2. CASE UNCHANGED atom
      BY <1>2, <3>2
    <3>3. ASSUME NEW d, publishDesired(d) PROVE UNCHANGED atom
      BY <3>3 DEF publishDesired, generations
    <3>4. ASSUME NEW r, retry(r) PROVE \E rs : publishStatus(rs)
      BY <3>4 DEF retry, retire
    <3>5. ASSUME NEW g, closeInstance(g) \/ ScopeCloses(g) \/ CompletedLate(g)
          PROVE  UNCHANGED atom
      BY <3>5 DEF closeInstance, ScopeCloses, CompletedLate
    <3>6. ASSUME NEW g, NEW ok, StopEnds(g) \/ Completed(g, ok) PROVE \E rs : publishStatus(rs)
      BY <3>6 DEF StopEnds, Completed
    <3>7. ASSUME Shutdown \/ PassInvalidates \/ PassAdmits PROVE \E rs : publishStatus(rs)
      BY <3>7 DEF Shutdown, PassInvalidates, PassAdmits, retire
    <3>8. ASSUME TimerFires \/ LoopTakes \/ PassIsLate \/ ShutdownEnds PROVE UNCHANGED atom
      BY <3>8 DEF TimerFires, LoopTakes, PassIsLate, ShutdownEnds, generations
    <3>9. CASE UNCHANGED vars
      BY <3>2, <3>9 DEF vars, generations
    <3>10. QED BY <1>2, <3>1, <3>2, <3>3, <3>4, <3>5, <3>6, <3>7, <3>8, <3>9
              DEF Next, Application, Runtime, Closes
  <2>2. loop' \in {"waiting", "due", "admitting"} /\ phase' \in {"open", "closing", "closed"}
    BY <1>2 DEF Next, Application, Runtime, Closes, vars, publishDesired, retry, Shutdown,
      TimerFires, LoopTakes, PassInvalidates, PassIsLate, PassAdmits, ShutdownEnds,
      closeInstance, ScopeCloses, StopEnds, CompletedLate, Completed
  <2>3. {wake, owed, scheduled, converged}' \subseteq BOOLEAN
    BY <1>2 DEF Next, Application, Runtime, Closes, vars, wakes, publishDesired, retry,
      Shutdown, TimerFires, LoopTakes, PassInvalidates, PassIsLate, PassAdmits, ShutdownEnds,
      closeInstance, ScopeCloses, StopEnds, CompletedLate, Completed, wakeUp,
      scheduleAsyncWake, asksForPass, settledWith
  <2>4. QED BY <2>1, <2>2, <2>3
<1>3. KernelInv /\ Rest => TypeOK
  <2>1. KernelInv => Range(all) \subseteq Gen
    BY GenerationsAreSound
  <2>2. QED BY <2>1 DEF KernelInv, KernelTyped, TypeOK, Statuses
<1>4. QED BY <1>1, <1>2, <1>3, KernelInvariant, PTL DEF Spec

-----------------------------------------------------------------------------
(***************************************************************************)
(* What `idle` waits for.                                                  *)
(*                                                                         *)
(* More of the invariant: whoever has authority is the only one of its     *)
(* identity, on providers that run and came before it.  So one sweep in    *)
(* order of admission leaves only what matches desire, and nobody is left  *)
(* whose providers it took.                                                *)
(***************************************************************************)
\* A startup runs in a Scope that is not closed, and a failed one is released by a
\* close of its own.
Kempt(gen) ==
  /\ gen.building => gen.scope \in {"open", "closing"} /\ gen.status \notin {"running", "failed"}
  /\ gen.status = "failed" =>
       gen.closer # "owner" /\ (gen.closing = "pending" \/ gen.scope = "closed")

AllKempt == \A g \in Gen : Kempt(inst[g])

OneAuthority == \A g, h \in Live(inst) : refOf(g) = refOf(h) => g = h

Precedes(g, h) == \E i, j \in DOMAIN all : i < j /\ all[i] = g /\ all[j] = h

\* Who has authority stands on providers that run and were admitted before it.
ProvidersRun ==
  \A g \in Live(inst) : \A p \in Range(inst[g].providers) :
    inst[p].status = "running" /\ Precedes(p, g)

OwnersAreParents ==
  \A g \in Gen : inst[g].owner # NoGen => refOf(inst[g].owner) = Parent[refOf(g)]

Tidy == AllKempt /\ OneAuthority /\ ProvidersRun /\ OwnersAreParents

\* A step that admits nobody: who has authority after it had it, and what that stands
\* on still runs, in the same order.
Proceeds ==
  /\ \A g \in Gen :
       /\ Kempt(inst'[g])
       /\ inst'[g].owner \in {inst[g].owner, NoGen}
  /\ \A g \in Live(inst') :
       /\ g \in Live(inst) /\ inst'[g].providers = inst[g].providers
       /\ \A p \in Range(inst[g].providers) :
            inst'[p].status = "running" /\ (Precedes(p, g) => Precedes(p, g)')

LEMMA ProceedingKeepsTidy ==
  ASSUME Tidy, Proceeds
  PROVE  Tidy'
<1>1. AllKempt' /\ OneAuthority'
  BY DEF Tidy, AllKempt, OneAuthority, Proceeds
<1>2. ProvidersRun'
  BY DEF Tidy, ProvidersRun, Proceeds
<1>3. OwnersAreParents'
  BY DEF Tidy, OwnersAreParents, Proceeds
<1>4. QED BY <1>1, <1>2, <1>3 DEF Tidy

\* One generation moves on: no authority gained, and a running one goes on running.
LEMMA OneProceeds ==
  ASSUME KernelInv, Tidy, NEW g \in Gen, NEW gen, inst' = [inst EXCEPT ![g] = gen], all' = all,
         Kempt(gen), gen.owner = inst[g].owner, gen.providers = inst[g].providers,
         gen.status \in {"starting", "running", "failed"} =>
           inst[g].status \in {"starting", "running", "failed"},
         inst[g].status = "running" => gen.status = "running"
  PROVE  Tidy'
<1>1. inst \in Insts /\ \A h \in Gen : Kempt(inst[h])
  BY GenerationsAreSound DEF Tidy, AllKempt
<1>2. inst'[g] = gen /\ \A h \in Gen : h # g => inst'[h] = inst[h]
  BY <1>1 DEF Insts
<1>3. ASSUME NEW h \in Gen PROVE Kempt(inst'[h]) /\ inst'[h].owner \in {inst[h].owner, NoGen}
  BY <1>1, <1>2
<1>4. ASSUME NEW h \in Live(inst')
      PROVE  h \in Live(inst) /\ inst'[h].providers = inst[h].providers
  BY <1>2, <1>4 DEF Live
<1>5. ASSUME NEW h \in Live(inst), NEW p \in Range(inst[h].providers)
      PROVE  inst'[p].status = "running"
  <2>1. p \in Gen
    <3>1. inst[h].providers \in Seq(Gen)
      BY <1>1 DEF Insts, Generation, Live
    <3>2. QED BY <3>1 DEF Range
  <2>2. inst[p].status = "running"
    BY DEF Tidy, ProvidersRun
  <2>3. QED BY <1>2, <2>1, <2>2
<1>6. \A p, h : Precedes(p, h) => Precedes(p, h)'
  BY DEF Precedes
<1>7. Proceeds
  BY <1>3, <1>4, <1>5, <1>6 DEF Proceeds
<1>8. QED BY <1>7, ProceedingKeepsTidy

\* ... or one closes, and some who have no status are forgotten with that.
LEMMA TidyingKeeps ==
  ASSUME KernelInv, Tidy, NEW g \in Gen, NEW gen, NEW mid,
         mid = [inst EXCEPT ![g] = gen], inst' = tidied(mid, Range(all')),
         Kempt(gen), gen.owner = inst[g].owner, gen.providers = inst[g].providers,
         gen.status = inst[g].status \/ (inst[g].status = "stopping" /\ gen.status = "none"),
         \A h \in Gen : mid[h].status # "none" => h \in Range(all'),
         \A p, h \in Gen : Precedes(p, h) /\ p # g /\ h # g => Precedes(p, h)',
         all' = all \/ inst[g].status = "stopping"
  PROVE  Tidy'
<1>1. inst \in Insts /\ \A h \in Gen : Kempt(inst[h])
  BY GenerationsAreSound DEF Tidy, AllKempt
<1>2. mid[g] = gen /\ \A h \in Gen : h # g => mid[h] = inst[h]
  BY <1>1 DEF Insts
<1> HIDE DEF Precedes
<1>3. ASSUME NEW h \in Gen
      PROVE  inst'[h] = mid[h] \/ (inst'[h] = Nobody /\ mid[h].status = "none")
  <2>1. inst'[h] = mid[h] \/ (inst'[h] = Nobody /\ h \notin Range(all'))
    BY DEF tidied
  <2>2. QED BY <2>1
<1>4. Kempt(Nobody) /\ Nobody.owner = NoGen /\ Nobody.status = "none"
  BY DEF Kempt, Nobody
<1>5. ASSUME NEW h \in Gen PROVE Kempt(inst'[h]) /\ inst'[h].owner \in {inst[h].owner, NoGen}
  <2>1. Kempt(mid[h]) /\ mid[h].owner = inst[h].owner
    BY <1>1, <1>2
  <2>2. QED BY <1>3, <1>4, <2>1
<1>6. ASSUME NEW h \in Live(inst')
      PROVE  h \in Live(inst) /\ inst'[h].providers = inst[h].providers
  <2>1. h \in Gen /\ inst'[h] = mid[h] /\ mid[h].status \in {"starting", "running", "failed"}
    BY <1>3, <1>4, <1>6 DEF Live
  <2>2. mid[h].status = inst[h].status /\ mid[h].providers = inst[h].providers
    BY <1>2, <2>1
  <2>3. QED BY <2>1, <2>2 DEF Live
<1>7. ASSUME NEW h \in Live(inst'), NEW p \in Range(inst[h].providers)
      PROVE  inst'[p].status = "running" /\ (Precedes(p, h) => Precedes(p, h)')
  <2>1. h \in Live(inst) /\ h \in Gen
    BY <1>6 DEF Live
  <2>2. p \in Gen
    <3>1. inst[h].providers \in Seq(Gen)
      BY <1>1, <2>1 DEF Insts, Generation
    <3>2. QED BY <3>1 DEF Range
  <2>3. inst[p].status = "running"
    BY <2>1 DEF Tidy, ProvidersRun
  <2>4. mid[p].status = "running"
    BY <1>2, <2>2, <2>3
  <2>5. inst'[p].status = "running"
    BY <1>3, <2>2, <2>4
  <2>6. CASE all' = all
    BY <2>5, <2>6 DEF Precedes
  <2>7. CASE inst[g].status = "stopping"
    <3>1. p # g /\ h # g
      BY <2>1, <2>3, <2>7 DEF Live
    <3>2. QED BY <2>1, <2>2, <2>5, <3>1
  <2>8. QED BY <2>6, <2>7
<1>8. Proceeds
  BY <1>5, <1>6, <1>7 DEF Proceeds
<1>9. QED BY <1>8, ProceedingKeepsTidy

LEMMA ScopesTidy ==
  ASSUME KernelInv, Tidy, NEW g \in Gen, closeInstance(g) \/ ScopeCloses(g)
  PROVE  Tidy'
<1>1. all' = all
  BY DEF closeInstance, ScopeCloses
<1>2. inst \in Insts /\ \A h \in Gen : inst[h] \in Generation /\ Sound(inst[h]) /\ Kempt(inst[h])
  BY GenerationsAreSound DEF Tidy, AllKempt, Insts
<1>3. CASE closes(g)
  <2> DEFINE gen == [inst[g] EXCEPT !.scope = "closing", !.closer = "self"]
  <2>1. inst' = [inst EXCEPT ![g] = gen] /\ inst[g].closing = "pending"
    BY <1>3 DEF closes
  <2>2. /\ gen.scope = "closing" /\ gen.closer = "self" /\ gen.status = inst[g].status
        /\ gen.owner = inst[g].owner /\ gen.providers = inst[g].providers
        /\ gen.building = inst[g].building /\ gen.closing = inst[g].closing
    BY <1>2 DEF Generation
  <2> HIDE DEF gen
  <2>3. Kempt(gen)
    BY <1>2, <2>1, <2>2 DEF Kempt
  <2>4. QED BY <1>1, <2>1, <2>2, <2>3, OneProceeds
<1>4. CASE findsClosed(g)
  <2> DEFINE gen == returned(inst[g])
  <2>1. inst' = [inst EXCEPT ![g] = gen] /\ inst[g].closer = "owner"
    BY <1>4 DEF findsClosed
  <2>2. /\ gen.scope = inst[g].scope /\ gen.closer = inst[g].closer
        /\ gen.status = inst[g].status /\ gen.building = inst[g].building
        /\ gen.owner = inst[g].owner /\ gen.providers = inst[g].providers
    BY <1>2 DEF Generation, returned
  <2> HIDE DEF gen
  <2>3. Kempt(gen)
    BY <1>2, <2>1, <2>2 DEF Kempt
  <2>4. QED BY <1>1, <2>1, <2>2, <2>3, OneProceeds
<1>5. ASSUME NEW c \in Gen, reaches(g, c) PROVE Tidy'
  <2> DEFINE gen == [inst[c] EXCEPT !.scope = "closing", !.closer = "owner"]
  <2>1. /\ inst' = [inst EXCEPT ![c] = gen] /\ inst[g].scope = "closing"
        /\ inst[c].owner = g /\ inst[c].scope = "open"
    BY <1>5 DEF reaches, children
  <2>2. /\ gen.scope = "closing" /\ gen.closer = "owner" /\ gen.status = inst[c].status
        /\ gen.owner = inst[c].owner /\ gen.providers = inst[c].providers
        /\ gen.building = inst[c].building
    BY <1>2 DEF Generation
  <2>3. inst[c].status # "failed"
    <3>1. ASSUME c \in Live(inst) PROVE FALSE
      <4>1. g # NoGen
        BY ClosingAssumption
      <4>2. inst[g].status = "running"
        BY <2>1, <3>1, <4>1 DEF KernelInv, OwnersRun
      <4>3. QED BY <1>2, <2>1, <4>2 DEF Sound
    <3>2. QED BY <3>1 DEF Live
  <2> HIDE DEF gen
  <2>4. Kempt(gen)
    BY <1>2, <2>2, <2>3 DEF Kempt
  <2>5. QED BY <1>1, <2>1, <2>2, <2>4, OneProceeds
<1>6. CASE releases(g)
  <2> DEFINE released == [inst[g] EXCEPT !.scope = "closed", !.building = FALSE]
             gen == IF inst[g].closer = "self" THEN returned(released) ELSE released
             mid == [inst EXCEPT ![g] = gen]
  <2>1. inst' = tidied(mid, Range(all)) /\ Range(all) = Range(all')
    BY <1>1, <1>6, Zenon DEF releases
  <2>2. /\ gen.scope = "closed" /\ gen.closer = inst[g].closer /\ gen.building = FALSE
        /\ gen.status = inst[g].status
        /\ gen.owner = inst[g].owner /\ gen.providers = inst[g].providers
    BY <1>2 DEF Generation, returned
  <2> HIDE DEF gen
  <2>3. Kempt(gen)
    BY <1>2, <2>2 DEF Kempt
  <2>4. \A h \in Gen : mid[h].status = inst[h].status
    BY <1>2, <2>2 DEF Insts
  <2>5. \A h \in Gen : mid[h].status # "none" => h \in Range(all')
    BY <2>1, <2>4 DEF KernelInv, Remembers
  <2>6. \A p, h : Precedes(p, h) => Precedes(p, h)'
    BY <1>1 DEF Precedes
  <2> HIDE DEF mid
  <2>7. mid = [inst EXCEPT ![g] = gen]
    BY DEF mid
  <2>8. QED BY <1>1, <2>1, <2>2, <2>3, <2>5, <2>6, <2>7, TidyingKeeps
<1>7. QED BY <1>3, <1>4, <1>5, <1>6 DEF closeInstance, ScopeCloses

LEMMA StopEndsTidy ==
  ASSUME KernelInv, Tidy, NEW g \in Gen, StopEnds(g)
  PROVE  Tidy'
<1> DEFINE gen == [inst[g] EXCEPT !.status = "none", !.stopFiber = FALSE]
           mid == [inst EXCEPT ![g] = gen]
<1>1. inst \in Insts /\ \A h \in Gen : inst[h] \in Generation /\ Sound(inst[h]) /\ Kempt(inst[h])
  BY GenerationsAreSound DEF Tidy, AllKempt, Insts
<1>2. /\ inst' = tidied(mid, Range(all'))
      /\ inst[g].stopFiber /\ all' = allBut(g)
  BY DEF StopEnds, stopped
<1>3. inst[g].status = "stopping"
  BY <1>1, <1>2 DEF Sound
<1>4. Without(all', g)
  BY <1>2, <1>3, AllButForgets DEF KernelInv, Remembers
<1>5. /\ gen.status = "none" /\ gen.scope = inst[g].scope /\ gen.building = inst[g].building
      /\ gen.owner = inst[g].owner /\ gen.providers = inst[g].providers
  BY <1>1 DEF Generation
<1> HIDE DEF gen
<1>6. Kempt(gen)
  BY <1>1, <1>5 DEF Kempt
<1>7. mid[g] = gen /\ \A h \in Gen : h # g => mid[h] = inst[h]
  BY <1>1 DEF Insts
<1>8. \A h \in Gen : mid[h].status # "none" => h \in Range(all')
  BY <1>4, <1>5, <1>7 DEF KernelInv, Remembers, Without
<1>9. \A p, h \in Gen : Precedes(p, h) /\ p # g /\ h # g => Precedes(p, h)'
  BY <1>4 DEF Precedes, Without
<1>10. mid = [inst EXCEPT ![g] = gen]
  OBVIOUS
<1> HIDE DEF mid
<1>11. QED BY <1>2, <1>3, <1>5, <1>6, <1>8, <1>9, <1>10, TidyingKeeps

LEMMA StartupsTidy ==
  ASSUME KernelInv, Tidy, NEW g \in Gen,
         CompletedLate(g) \/ \E ok \in BOOLEAN : Completed(g, ok)
  PROVE  Tidy'
<1>1. all' = all
  BY DEF CompletedLate, Completed
<1>2. inst \in Insts /\ inst[g] \in Generation /\ Sound(inst[g]) /\ Kempt(inst[g])
  BY GenerationsAreSound DEF Tidy, AllKempt, Insts
<1> DEFINE was == [inst[g] EXCEPT !.building = FALSE]
<1>3. /\ was \in Generation /\ was.building = FALSE /\ was.status = inst[g].status
      /\ was.owner = inst[g].owner /\ was.providers = inst[g].providers
      /\ was.closing = inst[g].closing /\ was.scope = inst[g].scope
      /\ was.closer = inst[g].closer
  BY <1>2 DEF Generation
<1>4. CASE endsLate(g)
  <2>1. inst' = [inst EXCEPT ![g] = was]
    BY <1>4 DEF endsLate
  <2> HIDE DEF was
  <2>2. Kempt(was)
    BY <1>2, <1>3 DEF Kempt
  <2>3. QED BY <1>1, <1>3, <2>1, <2>2, OneProceeds
<1>5. CASE endsOvertaken(g) /\ inst[g].status = "starting"
  <2> DEFINE gen == Stopping(was)
  <2>1. inst' = [inst EXCEPT ![g] = gen]
    BY <1>5 DEF endsOvertaken
  <2> HIDE DEF was
  <2>2. /\ gen.status = "stopping" /\ gen.building = FALSE
        /\ gen.owner = was.owner /\ gen.providers = was.providers
    BY <1>3 DEF Stopping, Generation
  <2> HIDE DEF gen
  <2>3. Kempt(gen)
    BY <2>2 DEF Kempt
  <2>4. QED BY <1>1, <1>3, <1>5, <2>1, <2>2, <2>3, OneProceeds
<1>6. ASSUME NEW ok \in BOOLEAN, ends(g, ok), inst[g].status = "starting" PROVE Tidy'
  <2> DEFINE now == [inst[g] EXCEPT !.building = FALSE,
                                    !.status = IF ok THEN "running" ELSE "failed",
                                    !.closing = IF ok THEN inst[g].closing ELSE "pending",
                                    !.cleanup = ~ok]
  <2>1. inst' = [inst EXCEPT ![g] = now]
    BY <1>6 DEF ends, KernelInv, KernelTyped
  <2>2. /\ now.status = (IF ok THEN "running" ELSE "failed")
        /\ now.closing = (IF ok THEN inst[g].closing ELSE "pending")
        /\ now.building = FALSE /\ now.owner = inst[g].owner /\ now.scope = inst[g].scope
        /\ now.closer = inst[g].closer /\ now.providers = inst[g].providers
    BY <1>2 DEF Generation
  <2>3. inst[g].closer = "nobody"
    BY <1>2, <1>6 DEF Sound
  <2> HIDE DEF now
  <2>4. Kempt(now)
    BY <2>2, <2>3 DEF Kempt
  <2>5. now.status \in {"running", "failed"}
    BY <2>2
  <2>6. QED BY <1>1, <1>6, <2>1, <2>2, <2>4, <2>5, OneProceeds
<1>7. QED BY <1>4, <1>5, <1>6 DEF CompletedLate, Completed

\* `retire`, of some and of all that they carry or provide for.
LEMMA RetireTidies ==
  ASSUME KernelInv, Tidy, NEW gs \in SUBSET Live(inst), retire(gs),
         \A g \in Live(inst) : \A p \in Range(inst[g].providers) : p \in gs => g \in gs
  PROVE  Tidy'
<1>1. inst \in Insts /\ \A h \in Gen : inst[h] \in Generation /\ Kempt(inst[h])
  BY GenerationsAreSound DEF Tidy, AllKempt, Insts
<1>2. all' = all /\ \A g \in Gen : inst'[g] = IF g \in gs THEN Stopping(inst[g]) ELSE inst[g]
  BY DEF retire
<1>3. ASSUME NEW g \in Gen
      PROVE  LET gen == Stopping(inst[g]) IN
               /\ gen.status = "stopping" /\ gen.building = inst[g].building
               /\ gen.scope = inst[g].scope
               /\ gen.owner = inst[g].owner /\ gen.providers = inst[g].providers
  BY <1>1 DEF Stopping, Generation
<1>4. ASSUME NEW g \in Gen PROVE Kempt(inst'[g]) /\ inst'[g].owner = inst[g].owner
  BY <1>1, <1>2, <1>3 DEF Kempt
<1>5. ASSUME NEW g \in Live(inst')
      PROVE  g \in Live(inst) /\ g \notin gs /\ inst'[g].providers = inst[g].providers
  BY <1>2, <1>3 DEF Live
<1>6. ASSUME NEW g \in Live(inst'), NEW p \in Range(inst[g].providers)
      PROVE  inst'[p].status = "running" /\ (Precedes(p, g) => Precedes(p, g)')
  <2>1. g \in Live(inst) /\ g \in Gen /\ g \notin gs
    BY <1>5 DEF Live
  <2>2. p \in Gen
    <3>1. inst[g].providers \in Seq(Gen)
      BY <1>1, <2>1 DEF Insts, Generation
    <3>2. QED BY <3>1 DEF Range
  <2>3. inst[p].status = "running" /\ p \notin gs
    BY <2>1 DEF Tidy, ProvidersRun
  <2>4. QED BY <1>2, <2>2, <2>3 DEF Precedes
<1>7. Proceeds
  BY <1>4, <1>5, <1>6 DEF Proceeds
<1>8. QED BY <1>7, ProceedingKeepsTidy

-----------------------------------------------------------------------------
(***************************************************************************)
(* The sweep, once more: what it leaves.                                   *)
(***************************************************************************)
LEMMA CurrentIsTheOne ==
  ASSUME NEW is, NEW g \in Live(is), \A h \in Live(is) : refOf(h) = refOf(g) => h = g
  PROVE  current(is, refOf(g)) = g
BY DEF current

\* Whom a sweep compared with what is still there it compared with what is there.
LEMMA CurrentStays ==
  ASSUME NEW is, NEW js, Live(js) \subseteq Live(is), Live(js) \subseteq Live(inst), OneAuthority,
         NEW r, current(is, r) # NoGen => js[current(is, r)] = is[current(is, r)]
  PROVE  current(js, r) = current(is, r)
<1>1. CASE current(is, r) = NoGen
  <2>1. ASSUME NEW h \in Live(is), refOf(h) = r PROVE FALSE
    <3>1. current(is, r) \in Live(is)
      BY <2>1 DEF current
    <3>2. QED BY <1>1, <3>1, ClosingAssumption DEF Live
  <2>2. QED BY <1>1, <2>1 DEF current
<1>2. CASE current(is, r) # NoGen
  <2> DEFINE g == current(is, r)
  <2>1. g \in Live(is) /\ refOf(g) = r
    BY <1>2, CurrentIsLive
  <2> HIDE DEF g
  <2>2. g \in Live(js)
    BY <1>2, <2>1 DEF g, Live
  <2>3. \A h \in Live(js) : refOf(h) = refOf(g) => h = g
    BY <2>2 DEF OneAuthority
  <2>4. QED BY <2>1, <2>2, <2>3, CurrentIsTheOne DEF g
<1>3. QED BY <1>1, <1>2

\* What the sweep leaves matches desire, were the others gone already.
LEMMA SweepLeavesMatches ==
  ASSUME KernelInv, Tidy, NEW g \in Live(survivors)
  PROVE  matches(survivors, g)
<1>1. PICK f : Stages(f)
  BY SweepHasStages DEF KernelInv
<1>2. /\ survivors \in Insts /\ invalid \subseteq Live(inst)
      /\ \A h \in Gen : survivors[h] = IF h \in invalid
                                         THEN [inst[h] EXCEPT !.status = "stopping"]
                                         ELSE inst[h]
  BY SweepTakesWhatItCarried DEF KernelInv
<1>3. inst \in Insts /\ \A h \in Gen : inst[h] \in Generation
  BY GenerationsAreSound DEF Insts
<1>4. \A h \in invalid : h \in Gen /\ survivors[h].status = "stopping"
  BY <1>2, <1>3 DEF Live, Generation
<1>5. Live(survivors) \subseteq Live(inst)
  BY <1>2, <1>4 DEF Live
<1>6. g \in Live(inst) /\ g \in Gen /\ survivors[g] = inst[g]
  BY <1>2, <1>4, <1>5 DEF Live
<1>7. PICK j \in DOMAIN all : g = all[j]
  BY <1>6 DEF KernelInv, Remembers, Live, Range
<1> DEFINE is == f[j - 1]
<1>8. matches(is, g)
  <2>1. inst[g].status # "stopping"
    BY <1>6 DEF Live
  <2>2. survivors[g] # [inst[g] EXCEPT !.status = "stopping"]
    BY <1>3, <1>6, <2>1 DEF Generation
  <2>3. QED BY <1>1, <1>7, <2>1, <2>2 DEF Stages
<1>9. /\ \A i \in DOMAIN all : i < j => is[all[i]] = survivors[all[i]]
      /\ \A h \in Gen : is[h] \in {inst[h], survivors[h]}
  BY <1>1, <1>7 DEF Stages
<1> HIDE DEF is, survivors, invalid
<1>10. Live(survivors) \subseteq Live(is)
  BY <1>5, <1>9 DEF Live
<1>11. ASSUME NEW p \in Gen, Precedes(p, g) PROVE survivors[p] = is[p]
  <2>1. PICK i, k \in DOMAIN all : i < k /\ all[i] = p /\ all[k] = g
    BY <1>11 DEF Precedes
  <2>2. k = j
    BY <1>7, <2>1 DEF KernelInv, Remembers
  <2>3. QED BY <1>9, <2>1, <2>2
<1>12. OneAuthority
  BY DEF Tidy
<1>13. ASSUME NEW r, current(is, r) # NoGen => Precedes(current(is, r), g)
       PROVE  current(survivors, r) = current(is, r)
  <2>1. current(is, r) # NoGen => survivors[current(is, r)] = is[current(is, r)]
    BY <1>11, <1>13, CurrentIsLive DEF Live
  <2>2. QED BY <1>5, <1>10, <1>12, <2>1, CurrentStays
<1>14. ownerOf(survivors, refOf(g)) = inst[g].owner
  <2>1. ownerOf(is, refOf(g)) = inst[g].owner
    BY <1>8 DEF matches
  <2>2. CASE Parent[refOf(g)] = NoRef
    BY <2>1, <2>2 DEF ownerOf
  <2>3. CASE Parent[refOf(g)] # NoRef
    <3>1. current(is, Parent[refOf(g)]) = inst[g].owner
      BY <2>1, <2>3 DEF ownerOf
    <3>2. inst[g].owner # NoGen => Precedes(inst[g].owner, g)
      BY <1>6 DEF KernelInv, OwnersRun, Precedes
    <3>3. current(survivors, Parent[refOf(g)]) = inst[g].owner
      BY <1>13, <3>1, <3>2
    <3>4. QED BY <2>3, <3>3 DEF ownerOf
  <2>4. QED BY <2>2, <2>3
<1>15. bound(survivors, node(refOf(g)).providers) = inst[g].providers
  <2> DEFINE ps == node(refOf(g)).providers
  <2>1. bound(is, ps) = inst[g].providers
    BY <1>8 DEF matches
  <2>2. ASSUME NEW i \in DOMAIN ps PROVE current(survivors, ps[i]) = current(is, ps[i])
    <3>1. DOMAIN inst[g].providers = DOMAIN ps /\ inst[g].providers[i] = current(is, ps[i])
      BY <2>1, <2>2 DEF bound
    <3>2. current(is, ps[i]) \in Range(inst[g].providers)
      BY <3>1 DEF Range
    <3>3. Precedes(current(is, ps[i]), g)
      BY <1>6, <3>2 DEF Tidy, ProvidersRun
    <3>4. QED BY <1>13, <3>3
  <2> HIDE DEF ps
  <2>3. [i \in DOMAIN ps |-> current(survivors, ps[i])] = [i \in DOMAIN ps |-> current(is, ps[i])]
    BY <2>2
  <2>4. bound(survivors, ps) = bound(is, ps)
    BY <2>3 DEF bound
  <2>5. QED BY <2>1, <2>4 DEF ps
<1>16. QED BY <1>8, <1>14, <1>15 DEF matches

\* `is` and js have the same generations with authority.
LEMMA CurrentIsSame ==
  ASSUME NEW is, NEW js, Live(is) = Live(js), NEW r
  PROVE  current(is, r) = current(js, r)
BY DEF current

LEMMA MatchesIsSame ==
  ASSUME NEW is, NEW js, Live(is) = Live(js), NEW g
  PROVE  matches(is, g) <=> matches(js, g)
BY CurrentIsSame DEF matches, ownerOf, bound

\* ... nor whose providers it took.
LEMMA SweepTakesWhatItProvidedFor ==
  ASSUME KernelInv, Tidy
  PROVE  \A g \in Live(inst) : \A p \in Range(inst[g].providers) :
           p \in invalid => g \in invalid
<1>1. /\ survivors \in Insts /\ invalid \subseteq Live(inst)
      /\ \A h \in Gen : survivors[h] = IF h \in invalid
                                         THEN [inst[h] EXCEPT !.status = "stopping"]
                                         ELSE inst[h]
  BY SweepTakesWhatItCarried DEF KernelInv
<1>2. \A h \in Gen : inst[h] \in Generation
  BY GenerationsAreSound DEF Insts
<1>3. \A h \in invalid : h \in Gen /\ survivors[h].status = "stopping"
  BY <1>1, <1>2 DEF Live, Generation
<1> SUFFICES ASSUME NEW g \in Live(inst), NEW p \in Range(inst[g].providers), p \in invalid,
                    g \notin invalid
             PROVE  FALSE
  OBVIOUS
<1>4. g \in Live(survivors) /\ p \notin Live(survivors) /\ p # NoGen
  BY <1>1, <1>3, ClosingAssumption DEF Live
<1>5. matches(survivors, g)
  BY <1>4, SweepLeavesMatches
<1> HIDE DEF survivors, invalid
<1> DEFINE ps == node(refOf(g)).providers
<1>6. bound(survivors, ps) = inst[g].providers
  BY <1>5 DEF matches
<1> HIDE DEF ps
<1>7. PICK i \in DOMAIN ps : p = current(survivors, ps[i])
  BY <1>6 DEF bound, Range
<1>8. QED BY <1>4, <1>7, CurrentIsLive

LEMMA PassInvalidatesTidy ==
  ASSUME KernelInv, Tidy, PassInvalidates
  PROVE  Tidy'
<1>1. invalid \subseteq Live(inst)
  BY SweepTakesWhatItCarried DEF KernelInv
<1>2. \A g \in Live(inst) : \A p \in Range(inst[g].providers) : p \in invalid => g \in invalid
  BY SweepTakesWhatItProvidedFor
<1>3. retire(invalid)
  BY DEF PassInvalidates
<1> HIDE DEF invalid
<1>4. QED BY <1>1, <1>2, <1>3, RetireTidies

AllMatch == \A g \in Live(inst) : matches(inst, g)

LEMMA PassInvalidatesWell ==
  ASSUME KernelInv, Tidy, PassInvalidates
  PROVE  AllMatch'
<1>1. /\ survivors \in Insts /\ invalid \subseteq Live(inst)
      /\ \A h \in Gen : survivors[h] = IF h \in invalid
                                         THEN [inst[h] EXCEPT !.status = "stopping"]
                                         ELSE inst[h]
  BY SweepTakesWhatItCarried DEF KernelInv
<1>2. inst \in Insts /\ \A h \in Gen : inst[h] \in Generation
  BY GenerationsAreSound DEF Insts
<1>3. \A g \in Gen : inst'[g] = IF g \in invalid THEN Stopping(inst[g]) ELSE inst[g]
  BY DEF PassInvalidates, retire
<1>4. desired' = desired
  BY DEF PassInvalidates
<1>5. \A g \in Live(survivors) : matches(survivors, g)
  BY SweepLeavesMatches
<1> HIDE DEF survivors, invalid
<1>6. \A h \in invalid : /\ h \in Gen /\ survivors[h].status = "stopping"
                         /\ inst'[h].status = "stopping"
  BY <1>1, <1>2, <1>3 DEF Live, Generation, Stopping
<1>7. Live(inst') = Live(survivors) /\ \A g \in Live(survivors) : inst'[g] = inst[g]
  <2>1. \A g \in Gen : g \notin invalid => inst'[g] = inst[g] /\ survivors[g] = inst[g]
    BY <1>1, <1>3
  <2>2. \A g \in Gen : inst'[g].status = survivors[g].status
    BY <1>6, <2>1
  <2>3. QED BY <1>6, <2>1, <2>2 DEF Live
<1>8. ASSUME NEW g \in Live(inst') PROVE matches(inst, g)'
  <2>1. matches(survivors, g)
    BY <1>5, <1>7
  <2>2. \A r : current(inst', r) = current(survivors, r)
    BY <1>7, CurrentIsSame
  <2>3. inst'[g] = inst[g]
    BY <1>7
  <2>4. QED BY <1>4, <2>1, <2>2, <2>3 DEF matches, ownerOf, bound, wanted, node
<1>9. QED BY <1>8 DEF AllMatch

-----------------------------------------------------------------------------
(***************************************************************************)
(* What the admissions of a pass come after.                               *)
(***************************************************************************)
LEMMA AdmittedIsKempt ==
  ASSUME NEW o, NEW ps
  PROVE  /\ Kempt(Admitted(o, ps)) /\ Admitted(o, ps).status = "starting"
         /\ Admitted(o, ps).owner = o /\ Admitted(o, ps).providers = ps
BY DEF Kempt, Admitted, Nobody

\* What a pass admits: one generation of a node that may start, after all others.
LEMMA PassAdmitsAfter ==
  ASSUME KernelInv, PassAdmits
  PROVE  /\ \A p, h : Precedes(p, h) => Precedes(p, h)'
         /\ \A g \in Gen :
              \/ inst'[g] = inst[g]
              \/ /\ \E n \in Range(desired) :
                      /\ admissible(inst, n) /\ g = token(n.ref) /\ refOf(g) = n.ref
                      /\ inst'[g] = Admitted(ownerOf(inst, n.ref), bound(inst, n.providers))
                 /\ inst[g] = Nobody
                 /\ \A p \in Range(all) : Precedes(p, g)'
<1> DEFINE nodes == admitted(inst, desired)
           toks == [i \in DOMAIN nodes |-> token(nodes[i].ref)]
           new == {token(n.ref) : n \in Range(nodes)}
           L == Len(all)
           K == Len(toks)
<1>1. /\ loop = "admitting" /\ all' = all \o toks
      /\ inst' = [g \in Gen |->
           IF g \in new
             THEN Admitted(ownerOf(inst, refOf(g)), bound(inst, node(refOf(g)).providers))
             ELSE inst[g]]
  BY DEF PassAdmits
<1>2. nodes \in Admissions(inst, desired)
  <2>1. desired \in Seq(Node)
    BY KernelAssumption DEF KernelInv, KernelTyped, Node
  <2>2. QED BY <2>1, PassAdmitsSome
<1> HIDE DEF nodes
<1>3. Len(nodes) \in Nat /\ DOMAIN nodes = 1 .. Len(nodes)
  BY <1>2 DEF Admissions
<1>4. ASSUME NEW i \in DOMAIN nodes
      PROVE  /\ nodes[i] \in Range(desired) /\ admissible(inst, nodes[i])
             /\ token(nodes[i].ref) \in Gen /\ inst[token(nodes[i].ref)] = Nobody
             /\ refOf(token(nodes[i].ref)) = nodes[i].ref
  BY <1>1, <1>2, TokensOfAPass DEF KernelInv
<1>5. toks \in Seq(Gen)
  <2>1. toks \in [1 .. Len(nodes) -> Gen]
    BY <1>3, <1>4
  <2>2. QED BY <1>3, <2>1
<1> HIDE DEF toks
<1>6. /\ L \in Nat /\ DOMAIN all = 1 .. L /\ DOMAIN all' = 1 .. L + K
      /\ \A i \in 1 .. L : all'[i] = all[i]
  <2>1. all \in Seq(Gen) /\ L \in Nat /\ K \in Nat /\ DOMAIN all = 1 .. L
    BY <1>5 DEF KernelInv, KernelTyped
  <2> HIDE DEF L, K
  <2>2. /\ all' \in Seq(Gen) /\ Len(all') = Len(all) + Len(toks)
        /\ \A i \in 1 .. Len(all) + Len(toks) :
             all'[i] = IF i <= Len(all) THEN all[i] ELSE toks[i - Len(all)]
    BY <1>1, <1>5, <2>1, ConcatProperties DEF KernelInv, KernelTyped
  <2>3. Len(all) = L /\ Len(toks) = K
    BY DEF L, K
  <2>4. Len(all') = L + K /\ \A i \in 1 .. L : i \in 1 .. L + K /\ i <= L
    BY <2>1, <2>2, <2>3
  <2>5. \A i \in 1 .. L : all'[i] = all[i]
    BY <2>2, <2>3, <2>4
  <2>6. QED BY <2>1, <2>2, <2>4, <2>5
<1>7. K \in Nat
  BY <1>5
<1> HIDE DEF L, K
<1>8. \A i \in 1 .. L : i \in 1 .. L + K
  BY <1>6, <1>7
<1>9. ASSUME NEW p, NEW h, Precedes(p, h) PROVE Precedes(p, h)'
  BY <1>6, <1>8, <1>9 DEF Precedes
<1>10. KernelInv'
  BY PassAdmitsKeeps
<1>11. ASSUME NEW g \in Gen, g \in new
       PROVE  /\ \E n \in Range(desired) :
                   /\ admissible(inst, n) /\ g = token(n.ref) /\ refOf(g) = n.ref
                   /\ inst'[g] = Admitted(ownerOf(inst, n.ref), bound(inst, n.providers))
              /\ inst[g] = Nobody
  <2>1. PICK i \in DOMAIN nodes : g = token(nodes[i].ref)
    BY <1>11 DEF Range
  <2>2. /\ nodes[i] \in Range(desired) /\ admissible(inst, nodes[i])
        /\ inst[g] = Nobody /\ refOf(g) = nodes[i].ref
    BY <1>4, <2>1
  <2>3. node(nodes[i].ref) = nodes[i]
    BY <2>2, AdmissibleStands
  <2>4. QED BY <1>1, <1>11, <2>1, <2>2, <2>3
<1>12. ASSUME NEW g \in Gen, g \in new, NEW p \in Range(all) PROVE Precedes(p, g)'
  <2>1. inst[g].status = "none" /\ inst'[g].status = "starting"
    <3>1. Nobody.status = "none"
      BY DEF Nobody
    <3>2. QED BY <1>11, <1>12, <3>1, AdmittedIsKempt
  <2>2. g \notin Range(all) /\ g \in Range(all')
    BY <1>10, <2>1 DEF KernelInv, Remembers
  <2>3. PICK i \in 1 .. L : all[i] = p
    BY <1>6 DEF Range
  <2>4. PICK k \in 1 .. L + K : all'[k] = g
    BY <1>6, <2>2 DEF Range
  <2>5. k \notin 1 .. L
    BY <1>6, <2>2, <2>4 DEF Range
  <2>6. i < k
    BY <1>6, <1>7, <2>5
  <2>7. QED BY <1>6, <1>8, <2>3, <2>4, <2>6 DEF Precedes
<1>13. \A g \in Gen : g \notin new => inst'[g] = inst[g]
  BY <1>1
<1> HIDE DEF new
<1>14. QED BY <1>9, <1>11, <1>12, <1>13

LEMMA PassAdmitsTidy ==
  ASSUME KernelInv, Tidy, PassAdmits
  PROVE  Tidy'
<1>1. inst \in Insts /\ \A h \in Gen : inst[h] \in Generation /\ Kempt(inst[h])
  BY GenerationsAreSound DEF Tidy, AllKempt, Insts
<1> DEFINE IsNew(g, n) ==
             /\ admissible(inst, n) /\ g = token(n.ref) /\ refOf(g) = n.ref
             /\ inst'[g] = Admitted(ownerOf(inst, n.ref), bound(inst, n.providers))
           New(g) == /\ \E n \in Range(desired) : IsNew(g, n)
                     /\ inst[g] = Nobody
                     /\ \A p \in Range(all) : Precedes(p, g)'
<1>2. \A g \in Gen : inst'[g] = inst[g] \/ New(g)
  BY PassAdmitsAfter
<1>3. \A p, h : Precedes(p, h) => Precedes(p, h)'
  BY PassAdmitsAfter
<1>4. Nobody.status = "none"
  BY DEF Nobody
<1>5. ASSUME NEW g \in Gen, NEW n \in Range(desired), IsNew(g, n)
      PROVE  /\ Kempt(inst'[g]) /\ inst'[g].status = "starting"
             /\ inst'[g].owner = ownerOf(inst, refOf(g))
             /\ inst'[g].providers = bound(inst, n.providers)
  BY <1>5, AdmittedIsKempt
<1> HIDE DEF IsNew
<1>6. ASSUME NEW g \in Gen, New(g) PROVE \A h \in Live(inst) : refOf(h) # refOf(g)
  <2>1. PICK n \in Range(desired) : IsNew(g, n)
    BY <1>6
  <2>2. current(inst, refOf(g)) = NoGen
    BY <2>1 DEF IsNew, admissible
  <2>3. NoGen \notin Live(inst)
    BY ClosingAssumption DEF Live
  <2>4. QED BY <2>2, <2>3 DEF current
<1>7. ASSUME NEW g \in Gen, NEW h \in Gen, New(g), New(h), refOf(g) = refOf(h) PROVE g = h
  BY <1>7 DEF IsNew
<1> HIDE DEF New
<1>8. ASSUME NEW g \in Live(inst') PROVE g \in Gen /\ (g \in Live(inst) \/ New(g))
  BY <1>2, <1>8 DEF Live
<1>9. AllKempt'
  BY <1>1, <1>2, <1>5 DEF AllKempt, New
<1>10. OneAuthority'
  <2> SUFFICES ASSUME NEW g \in Live(inst'), NEW h \in Live(inst'), refOf(g) = refOf(h)
               PROVE  g = h
    BY DEF OneAuthority
  <2>1. CASE g \in Live(inst) /\ h \in Live(inst)
    BY <2>1 DEF Tidy, OneAuthority
  <2>2. QED BY <1>6, <1>7, <1>8, <2>1
<1>11. ProvidersRun'
  <2> SUFFICES ASSUME NEW g \in Live(inst'), NEW p \in Range(inst'[g].providers)
               PROVE  inst'[p].status = "running" /\ Precedes(p, g)'
    BY DEF ProvidersRun
  <2>1. \A q \in Gen : inst[q].status = "running" => inst'[q] = inst[q]
    BY <1>2, <1>4 DEF New
  <2>2. CASE inst'[g] = inst[g]
    <3>1. g \in Live(inst) /\ g \in Gen
      BY <1>8, <2>2 DEF Live
    <3>2. inst[p].status = "running" /\ Precedes(p, g)
      BY <2>2, <3>1 DEF Tidy, ProvidersRun
    <3>3. p \in Gen
      <4>1. inst[g].providers \in Seq(Gen)
        BY <1>1, <3>1 DEF Generation
      <4>2. QED BY <2>2, <4>1 DEF Range
    <3>4. QED BY <1>3, <2>1, <3>2, <3>3
  <2>3. CASE New(g)
    <3>1. PICK n \in Range(desired) : IsNew(g, n)
      BY <2>3 DEF New
    <3>2. inst'[g].providers = bound(inst, n.providers)
      BY <1>5, <1>8, <3>1
    <3>3. PICK i \in DOMAIN n.providers : p = current(inst, n.providers[i])
      BY <3>2 DEF bound, Range
    <3>4. n.providers[i] \in Range(n.providers)
      BY DEF Range
    <3>5. p # NoGen /\ inst[p].status = "running"
      BY <3>1, <3>3, <3>4 DEF IsNew, admissible, runs
    <3>6. p \in Gen
      BY <3>3, <3>5, CurrentIsLive DEF Live
    <3>7. p \in Range(all)
      BY <3>5, <3>6 DEF KernelInv, Remembers
    <3>8. QED BY <2>1, <2>3, <3>5, <3>6, <3>7 DEF New
  <2>4. QED BY <1>2, <1>8, <2>2, <2>3
<1>12. OwnersAreParents'
  <2> SUFFICES ASSUME NEW g \in Gen, inst'[g].owner # NoGen
               PROVE  refOf(inst'[g].owner) = Parent[refOf(g)]
    BY DEF OwnersAreParents
  <2>1. CASE inst'[g] = inst[g]
    BY <2>1 DEF Tidy, OwnersAreParents
  <2>2. CASE New(g)
    <3>1. inst'[g].owner = ownerOf(inst, refOf(g))
      BY <1>5, <2>2 DEF New
    <3>2. QED BY <3>1, CurrentIsLive DEF ownerOf
  <2>3. QED BY <1>2, <2>1, <2>2
<1>13. QED BY <1>9, <1>10, <1>11, <1>12 DEF Tidy

LEMMA RetryTidy ==
  ASSUME KernelInv, Tidy, NEW r \in Ref, retry(r)
  PROVE  Tidy'
<1> DEFINE g == current(inst, r)
<1>1. g # NoGen /\ inst[g].status = "failed" /\ retire({g})
  BY DEF retry
<1>2. g \in Live(inst)
  BY <1>1, CurrentIsLive
<1> HIDE DEF g
<1>3. \A h \in Live(inst) : \A p \in Range(inst[h].providers) : p \notin {g}
  BY <1>1 DEF Tidy, ProvidersRun
<1>4. {g} \in SUBSET Live(inst)
  BY <1>2
<1>5. QED BY <1>1, <1>3, <1>4, RetireTidies

LEMMA ShutdownTidy ==
  ASSUME KernelInv, Tidy, Shutdown
  PROVE  Tidy'
<1>1. retire(Live(inst))
  BY DEF Shutdown
<1>2. QED BY <1>1, RetireTidies

LEMMA LeavesTidy ==
  ASSUME Tidy, UNCHANGED <<all, inst>>
  PROVE  Tidy'
BY DEF Tidy, AllKempt, OneAuthority, ProvidersRun, OwnersAreParents, Precedes

LEMMA TidyStarts ==
  ASSUME Init
  PROVE  Tidy
<1>1. \A g \in Gen : inst[g] = Nobody
  BY DEF Init
<1>2. Kempt(Nobody) /\ Nobody.status = "none" /\ Nobody.owner = NoGen
  BY DEF Kempt, Nobody
<1>3. Live(inst) = {}
  BY <1>1, <1>2 DEF Live
<1>4. QED BY <1>1, <1>2, <1>3
          DEF Tidy, AllKempt, OneAuthority, ProvidersRun, OwnersAreParents

LEMMA TidySteps ==
  ASSUME KernelInv, Tidy, [Next]_vars
  PROVE  Tidy'
<1>1. CASE UNCHANGED vars
  BY <1>1, LeavesTidy DEF vars, generations
<1>2. ASSUME NEW d \in Desire, publishDesired(d) PROVE Tidy'
  BY <1>2, LeavesTidy DEF publishDesired, generations
<1>3. ASSUME NEW r \in Ref, retry(r) PROVE Tidy'
  BY <1>3, RetryTidy
<1>4. CASE Shutdown
  BY <1>4, ShutdownTidy
<1>5. CASE TimerFires \/ LoopTakes \/ PassIsLate \/ ShutdownEnds
  BY <1>5, LeavesTidy DEF TimerFires, LoopTakes, PassIsLate, ShutdownEnds, generations
<1>6. CASE PassInvalidates
  BY <1>6, PassInvalidatesTidy
<1>7. CASE PassAdmits
  BY <1>7, PassAdmitsTidy
<1>8. ASSUME NEW g \in Gen, Closes(g) PROVE Tidy'
  BY <1>8, ScopesTidy, StopEndsTidy DEF Closes
<1>9. ASSUME NEW g \in Gen, CompletedLate(g) PROVE Tidy'
  BY <1>9, StartupsTidy
<1>10. ASSUME NEW g \in Gen, NEW ok \in BOOLEAN, Completed(g, ok) PROVE Tidy'
  BY <1>10, StartupsTidy
<1>11. QED BY <1>1, <1>2, <1>3, <1>4, <1>5, <1>6, <1>7, <1>8, <1>9, <1>10
           DEF Next, Application, Runtime

-----------------------------------------------------------------------------
(***************************************************************************)
(* The status Atoms.                                                       *)
(***************************************************************************)
\* The status Atoms say what the generations do.
AtomsTell == \A r \in Ref : atom[r] = readStatus(inst, Range(all), r)

\* An Atom is a matter of the statuses its identity's generations have.
LEMMA ReadStatusStays ==
  ASSUME KernelInv, KernelInv', OneAuthority, OneAuthority', NEW r \in Ref,
         \A g \in Gen : refOf(g) = r => inst'[g].status = inst[g].status
  PROVE  readStatus(inst', Range(all'), r) = readStatus(inst, Range(all), r)
<1>1. /\ \A g \in Gen : g \in Range(all) <=> inst[g].status # "none"
      /\ \A g \in Gen : g \in Range(all') <=> inst'[g].status # "none"
      /\ Range(all) \subseteq Gen /\ Range(all') \subseteq Gen
  BY DEF KernelInv, Remembers, KernelTyped, Range
<1>2. \A g \in Gen : refOf(g) = r => (g \in Live(inst') <=> g \in Live(inst))
  BY DEF Live
<1>3. current(inst', r) = current(inst, r)
  <2>1. CASE \E g \in Live(inst) : refOf(g) = r
    <3>1. PICK g \in Live(inst) : refOf(g) = r
      BY <2>1
    <3>2. g \in Live(inst')
      BY <1>2, <3>1 DEF Live
    <3>3. current(inst, r) = g
      BY <3>1, CurrentIsTheOne DEF OneAuthority
    <3>4. current(inst', r) = g
      BY <3>1, <3>2, CurrentIsTheOne DEF OneAuthority
    <3>5. QED BY <3>3, <3>4
  <2>2. CASE ~\E g \in Live(inst) : refOf(g) = r
    <3>1. ~\E g \in Live(inst') : refOf(g) = r
      BY <1>2, <2>2 DEF Live
    <3>2. QED BY <2>2, <3>1 DEF current
  <2>3. QED BY <2>1, <2>2
<1>4. current(inst, r) # NoGen =>
        inst'[current(inst, r)].status = inst[current(inst, r)].status
  BY CurrentIsLive DEF Live
<1>5. (\E g \in Range(all') : refOf(g) = r /\ inst'[g].status = "stopping")
        <=> \E g \in Range(all) : refOf(g) = r /\ inst[g].status = "stopping"
  BY <1>1
<1>6. QED BY <1>3, <1>4, <1>5 DEF readStatus

\* publishStatus tells of all those whose status a step changes.
LEMMA AtomsFollow ==
  ASSUME KernelInv, KernelInv', OneAuthority, OneAuthority', AtomsTell, NEW rs,
         publishStatus(rs),
         \A g \in Gen : refOf(g) \notin rs => inst'[g].status = inst[g].status
  PROVE  AtomsTell'
<1> SUFFICES ASSUME NEW r \in Ref PROVE atom'[r] = readStatus(inst', Range(all'), r)
  BY DEF AtomsTell
<1>1. CASE r \in rs
  BY <1>1 DEF publishStatus
<1>2. CASE r \notin rs
  <2>1. atom'[r] = atom[r]
    BY <1>2 DEF publishStatus
  <2>2. readStatus(inst', Range(all'), r) = readStatus(inst, Range(all), r)
    BY <1>2, ReadStatusStays
  <2>3. QED BY <2>1, <2>2 DEF AtomsTell
<1>3. QED BY <1>1, <1>2

LEMMA AtomsStay ==
  ASSUME KernelInv, KernelInv', OneAuthority, OneAuthority', AtomsTell,
         UNCHANGED atom, \A g \in Gen : inst'[g].status = inst[g].status
  PROVE  AtomsTell'
BY ReadStatusStays DEF AtomsTell

\* The close of a Scope changes no status.
LEMMA ScopesLeaveStatus ==
  ASSUME KernelInv, NEW g \in Gen, closeInstance(g) \/ ScopeCloses(g) \/ CompletedLate(g)
  PROVE  /\ UNCHANGED <<desired, all, atom>>
         /\ \A h \in Gen : inst'[h].status = inst[h].status
         /\ \A h \in Live(inst) : /\ inst'[h].owner = inst[h].owner
                                  /\ inst'[h].providers = inst[h].providers
<1>1. UNCHANGED <<desired, all, atom>>
  BY DEF closeInstance, ScopeCloses, CompletedLate
<1>2. inst \in Insts /\ \A h \in Gen : inst[h] \in Generation
  BY GenerationsAreSound DEF Insts
<1> DEFINE Same(h) == /\ inst'[h].status = inst[h].status
                      /\ inst'[h].owner = inst[h].owner
                      /\ inst'[h].providers = inst[h].providers
<1>3. CASE closes(g) \/ findsClosed(g) \/ endsLate(g)
  <2>1. closes(g) => \A h \in Gen : Same(h)
    BY <1>2 DEF closes, Insts, Generation
  <2>2. findsClosed(g) => \A h \in Gen : Same(h)
    BY <1>2 DEF findsClosed, returned, Insts, Generation
  <2>3. endsLate(g) => \A h \in Gen : Same(h)
    BY <1>2 DEF endsLate, Insts, Generation
  <2>4. QED BY <1>1, <1>3, <2>1, <2>2, <2>3 DEF Live
<1>4. ASSUME NEW c \in Gen, reaches(g, c) PROVE \A h \in Gen : Same(h)
  BY <1>2, <1>4 DEF reaches, Insts, Generation
<1>5. CASE releases(g)
  <2> DEFINE released == [inst[g] EXCEPT !.scope = "closed", !.building = FALSE]
             gen == IF inst[g].closer = "self" THEN returned(released) ELSE released
             mid == [inst EXCEPT ![g] = gen]
  <2>1. inst' = tidied(mid, Range(all))
    BY <1>5, Zenon DEF releases
  <2>2. /\ gen.status = inst[g].status
        /\ gen.owner = inst[g].owner /\ gen.providers = inst[g].providers
    BY <1>2 DEF Generation, returned
  <2> HIDE DEF gen
  <2>3. \A h \in Gen : /\ mid[h].status = inst[h].status
                       /\ mid[h].owner = inst[h].owner /\ mid[h].providers = inst[h].providers
    BY <1>2, <2>2 DEF Insts
  <2> HIDE DEF mid
  <2>4. \A h \in Gen : inst'[h] = mid[h] \/ (inst'[h] = Nobody /\ h \notin Range(all))
    BY <2>1, TidiedForgets
  <2>5. \A h \in Gen : h \in Range(all) <=> inst[h].status # "none"
    BY DEF KernelInv, Remembers
  <2>6. Nobody.status = "none"
    BY DEF Nobody
  <2>7. QED BY <1>1, <2>3, <2>4, <2>5, <2>6 DEF Live
<1>6. QED BY <1>1, <1>3, <1>4, <1>5 DEF closeInstance, ScopeCloses, CompletedLate, Live

LEMMA AtomsStep ==
  ASSUME KernelInv, KernelInv', Tidy, Tidy', AtomsTell, [Next]_vars
  PROVE  AtomsTell'
<1>1. OneAuthority /\ OneAuthority'
  BY DEF Tidy
<1>2. CASE UNCHANGED <<inst, atom>>
  BY <1>1, <1>2, AtomsStay
<1>3. ASSUME NEW gs, retire(gs) PROVE AtomsTell'
  <2> DEFINE rs == {refOf(g) : g \in gs}
  <2>1. publishStatus(rs) /\ \A g \in Gen : g \notin gs => inst'[g] = inst[g]
    BY <1>3 DEF retire
  <2>2. \A g \in Gen : refOf(g) \notin rs => g \notin gs
    OBVIOUS
  <2> HIDE DEF rs
  <2>3. QED BY <1>1, <2>1, <2>2, AtomsFollow
<1>4. ASSUME NEW d \in Desire, publishDesired(d) PROVE AtomsTell'
  BY <1>2, <1>4 DEF publishDesired, generations
<1>5. ASSUME NEW r \in Ref, retry(r) PROVE AtomsTell'
  BY <1>3, <1>5 DEF retry
<1>6. CASE TimerFires \/ LoopTakes \/ PassIsLate \/ ShutdownEnds \/ UNCHANGED vars
  BY <1>2, <1>6 DEF TimerFires, LoopTakes, PassIsLate, ShutdownEnds, generations, vars
<1>7. CASE PassInvalidates \/ Shutdown
  BY <1>3, <1>7 DEF PassInvalidates, Shutdown
<1>8. CASE PassAdmits
  <2> DEFINE rs == {n.ref : n \in Range(admitted(inst, desired))}
             new == {token(n.ref) : n \in Range(admitted(inst, desired))}
  <2>1. publishStatus(rs) /\ \A g \in Gen : g \notin new => inst'[g] = inst[g]
    BY <1>8 DEF PassAdmits
  <2>2. \A r : refOf(token(r)) = r
    BY DEF token, refOf
  <2>3. \A g \in Gen : refOf(g) \notin rs => g \notin new
    BY <2>2
  <2> HIDE DEF rs, new
  <2>4. QED BY <1>1, <2>1, <2>3, AtomsFollow
<1>9. ASSUME NEW g \in Gen, closeInstance(g) \/ ScopeCloses(g) \/ CompletedLate(g)
      PROVE  AtomsTell'
  BY <1>1, <1>9, ScopesLeaveStatus, AtomsStay
<1>10. inst \in Insts
  BY GenerationsAreSound
<1>11. ASSUME NEW g \in Gen, StopEnds(g) PROVE AtomsTell'
  <2> DEFINE gen == [inst[g] EXCEPT !.status = "none", !.stopFiber = FALSE]
             mid == [inst EXCEPT ![g] = gen]
  <2>1. publishStatus({refOf(g)}) /\ inst' = tidied(mid, Range(all'))
    BY <1>11 DEF StopEnds, stopped
  <2>2. \A h \in Gen : h # g => mid[h] = inst[h]
    BY <1>10 DEF Insts
  <2> HIDE DEF mid
  <2>3. \A h \in Gen : inst'[h] = mid[h] \/ (inst'[h] = Nobody /\ h \notin Range(all'))
    BY <2>1, TidiedForgets
  <2>4. stopped(g)
    BY <1>11 DEF StopEnds
  <2>5. Without(all', g)
    <3>1. inst[g].status = "stopping" /\ all' = allBut(g)
      BY <2>4 DEF stopped, KernelInv, AllSound, Sound
    <3>2. QED BY <3>1, AllButForgets DEF KernelInv, Remembers
  <2>6. \A h \in Gen : h # g /\ h \notin Range(all') => inst[h].status = "none"
    BY <2>5 DEF Without, KernelInv, Remembers
  <2>7. Nobody.status = "none"
    BY DEF Nobody
  <2>8. \A h \in Gen : h # g => inst'[h].status = inst[h].status
    BY <2>2, <2>3, <2>6, <2>7
  <2>9. \A h \in Gen : refOf(h) \notin {refOf(g)} => inst'[h].status = inst[h].status
    BY <2>8
  <2>10. QED BY <1>1, <2>1, <2>9, AtomsFollow
<1>12. ASSUME NEW g \in Gen, NEW ok \in BOOLEAN, Completed(g, ok) PROVE AtomsTell'
  <2>1. publishStatus({refOf(g)}) /\ (endsOvertaken(g) \/ ends(g, ok))
    BY <1>12 DEF Completed
  <2>2. \A h \in Gen : h # g => inst'[h] = inst[h]
    BY <1>10, <2>1 DEF endsOvertaken, ends, Insts
  <2>3. \A h \in Gen : refOf(h) \notin {refOf(g)} => inst'[h].status = inst[h].status
    BY <2>2
  <2>4. QED BY <1>1, <2>1, <2>3, AtomsFollow
<1>13. QED BY <1>4, <1>5, <1>6, <1>7, <1>8, <1>9, <1>11, <1>12
           DEF Next, Application, Runtime, Closes

-----------------------------------------------------------------------------
(***************************************************************************)
(* The latch.                                                              *)
(***************************************************************************)
\* Between the sweep of a pass and its admissions who has authority matches desire,
\* unless desire was written meanwhile.
SweptClean == loop = "admitting" /\ ~owed /\ phase = "open" => AllMatch

\* Once the latch is open everything remembered has come to rest, and a pass would
\* retire nobody and admit nobody.
Settled ==
  converged /\ phase = "open" =>
    settledWith(inst, Range(all)) /\ AllMatch /\ admitted(inst, desired) = << >>

IdleInv == KernelInv /\ Tidy /\ AtomsTell /\ SweptClean /\ Settled

LEMMA AllMatchStays ==
  ASSUME AllMatch, desired' = desired, \A g \in Gen : inst'[g].status = inst[g].status,
         \A g \in Live(inst) : /\ inst'[g].owner = inst[g].owner
                               /\ inst'[g].providers = inst[g].providers
  PROVE  AllMatch'
<1>1. Live(inst') = Live(inst)
  BY DEF Live
<1>2. \A r : current(inst', r) = current(inst, r)
  BY <1>1, CurrentIsSame
<1>3. ASSUME NEW g \in Live(inst') PROVE matches(inst, g)'
  <2>1. matches(inst, g)
    BY <1>1 DEF AllMatch
  <2>2. QED BY <1>1, <1>2, <2>1 DEF matches, ownerOf, bound, wanted, node
<1>4. QED BY <1>3 DEF AllMatch

LEMMA SweptCleanSteps ==
  ASSUME IdleInv, [Next]_vars
  PROVE  SweptClean'
<1> SUFFICES ASSUME loop' = "admitting", ~owed', phase' = "open" PROVE AllMatch'
  BY DEF SweptClean
<1>1. KernelInv /\ Tidy
  BY DEF IdleInv
<1>2. loop = "admitting" /\ ~owed /\ phase = "open" => AllMatch
  BY DEF IdleInv, SweptClean
<1>3. CASE UNCHANGED vars
  <2>1. UNCHANGED <<desired, inst>> /\ AllMatch
    BY <1>2, <1>3 DEF vars, generations, wakes
  <2>2. QED BY <2>1, AllMatchStays
<1>4. ASSUME NEW d \in Desire, publishDesired(d) PROVE FALSE
  BY <1>4 DEF publishDesired, wakeUp
<1>5. ASSUME NEW r \in Ref, retry(r) PROVE FALSE
  BY <1>5 DEF retry, mutex
<1>6. CASE PassInvalidates
  BY <1>1, <1>6, PassInvalidatesWell
<1>7. ASSUME NEW g \in Gen, closeInstance(g) \/ ScopeCloses(g) PROVE AllMatch'
  <2>1. loop' = loop /\ phase' = phase /\ owed' = owed
    BY <1>7 DEF closeInstance, ScopeCloses, asksForPass, scheduleAsyncWake, wakes
  <2>2. AllMatch
    BY <1>2, <2>1
  <2>3. QED BY <1>1, <1>7, <2>2, ScopesLeaveStatus, AllMatchStays
<1>8. ASSUME NEW g \in Gen, StopEnds(g) \/ CompletedLate(g) \/ \E ok \in BOOLEAN : Completed(g, ok)
      PROVE  FALSE
  BY <1>8 DEF StopEnds, CompletedLate, Completed, mutex
<1>9. CASE Shutdown \/ TimerFires \/ LoopTakes \/ PassIsLate \/ PassAdmits \/ ShutdownEnds
  BY <1>9 DEF Shutdown, TimerFires, LoopTakes, PassIsLate, PassAdmits, ShutdownEnds, mutex
<1>10. QED BY <1>3, <1>4, <1>5, <1>6, <1>7, <1>8, <1>9
           DEF Next, Application, Runtime, Closes

-----------------------------------------------------------------------------
(***************************************************************************)
(* At rest.                                                                *)
(***************************************************************************)
\* With nothing left to do: what has a status runs or has failed and been released.
LEMMA RestIsQuiet ==
  ASSUME KernelInv, Tidy, settledWith(inst, Range(all)), NEW g \in Gen
  PROVE  /\ inst[g].closing # "pending" /\ inst[g].scope # "closing" /\ ~inst[g].building
         /\ inst[g].status \notin {"starting", "stopping"}
<1>1. \A h \in Gen : inst[h] \in Generation /\ Sound(inst[h]) /\ Kempt(inst[h])
  BY GenerationsAreSound DEF Tidy, AllKempt, Insts
<1>2. ASSUME NEW h \in Gen
      PROVE  inst[h].closing # "pending" /\ inst[h].status \notin {"starting", "stopping"}
  <2>1. CASE inst[h].status = "none"
    BY <1>1, <2>1 DEF Sound
  <2>2. CASE inst[h].status # "none"
    BY <2>2 DEF KernelInv, Remembers, settledWith
  <2>3. QED BY <2>1, <2>2
<1>3. ASSUME NEW h \in Gen, inst[h].scope = "closing"
      PROVE  inst[h].status = "none" /\ inst[h].closer = "owner"
  <2>1. inst[h].status \in {"none", "running", "failed"}
    BY <1>1, <1>2 DEF Generation
  <2>2. inst[h].status # "running"
    BY <1>1, <1>3 DEF Sound
  <2>3. inst[h].status # "failed"
    BY <1>1, <1>2, <1>3 DEF Kempt
  <2>4. QED BY <1>1, <1>3, <2>1, <2>2, <2>3 DEF Sound
\* Else, of the identities with a Scope that is closing, one has no owner among them.
<1>4. ASSUME NEW h \in Gen, inst[h].scope = "closing" PROVE FALSE
  <2> DEFINE rs == {refOf(k) : k \in {k \in Gen : inst[k].scope = "closing"}}
  <2>1. rs \in SUBSET Ref /\ rs # {}
    BY <1>4 DEF Gen, refOf
  <2>2. PICK r \in rs : Parent[r] \notin rs
    BY <2>1, KernelAssumption
  <2>3. PICK k \in Gen : inst[k].scope = "closing" /\ r = refOf(k)
    BY <2>2
  <2>4. inst[k].owner # NoGen /\ inst[inst[k].owner].scope = "closing"
    BY <1>3, <2>3 DEF KernelInv, ClosesUnderOwner
  <2>5. inst[k].owner \in Gen /\ refOf(inst[k].owner) = Parent[r]
    BY <1>1, <2>3, <2>4 DEF Generation, Tidy, OwnersAreParents
  <2>6. QED BY <2>2, <2>4, <2>5
<1>5. ~inst[g].building
  <2>1. inst[g].building => inst[g].status = "none" /\ inst[g].scope = "open"
    BY <1>1, <1>2, <1>4 DEF Kempt, Generation
  <2>2. QED BY <1>1, <2>1 DEF Sound
<1>6. QED BY <1>2, <1>4, <1>5

LEMMA NobodyIsInvalid ==
  ASSUME KernelInv, AllMatch
  PROVE  survivors = inst
<1> DEFINE L == Len(all)
<1>1. PICK f \in [0 .. L -> Insts] : Sweeps(f) /\ survivors = f[L]
  BY SurvivorsAreSwept DEF KernelInv
<1>2. L \in Nat /\ \A i \in 1 .. L : all[i] \in Gen /\ all[i] \in Range(all)
  BY DEF KernelInv, KernelTyped, Range
<1>3. \A i \in 0 .. L : f[i] = IF i = 0 THEN inst ELSE sweep(f[i - 1], all[i])
  BY <1>1 DEF Sweeps
<1>4. \A i \in 1 .. L : sweep(inst, all[i]) = inst
  <2>1. \A g \in Gen : inst[g].status \in {"none", "starting", "running", "failed", "stopping"}
    BY GenerationsAreSound DEF Insts, Generation
  <2>2. ASSUME NEW i \in 1 .. L PROVE inst[all[i]].status = "stopping" \/ matches(inst, all[i])
    <3>1. inst[all[i]].status # "none"
      BY <1>2 DEF KernelInv, Remembers
    <3>2. QED BY <1>2, <2>1, <3>1 DEF AllMatch, Live
  <2>3. QED BY <2>2 DEF sweep
<1> DEFINE T == {i \in 0 .. L : f[i] = inst}
<1>5. 0 \in T
  BY <1>2, <1>3
<1>6. ASSUME NEW i \in 1 .. L, i - 1 \in T PROVE i \in T
  BY <1>2, <1>3, <1>4, <1>6
<1> HIDE DEF L
<1>7. \A i \in 0 .. L : i \in T
  BY <1>2, <1>5, <1>6, AllAlong
<1>8. L \in 0 .. L
  BY <1>2
<1>9. QED BY <1>1, <1>7, <1>8

\* A pass that admits nobody leaves everything as it is.
LEMMA NobodyAdmitted ==
  ASSUME KernelInv, PassAdmits, admitted(inst, desired) = << >>
  PROVE  UNCHANGED <<desired, all, inst>>
<1>1. all' = all \o << >>
  <2>1. [i \in DOMAIN << >> |-> token(<< >>[i].ref)] = << >>
    OBVIOUS
  <2>2. QED BY <2>1 DEF PassAdmits
<1>2. all' = all
  BY <1>1, ConcatEmptySeq DEF KernelInv, KernelTyped
<1>3. {token(n.ref) : n \in Range(<< >>)} = {}
  BY DEF Range
<1>4. inst' = [g \in Gen |-> inst[g]]
  BY <1>3 DEF PassAdmits
<1>5. QED BY <1>2, <1>4 DEF PassAdmits, KernelInv, KernelTyped

\* The latch opens: nobody remembered is starting, so the pass has admitted nobody.
LEMMA LatchOpens ==
  ASSUME KernelInv, PassAdmits, settledWith(inst, Range(all))'
  PROVE  admitted(inst, desired) = << >>
<1> DEFINE nodes == admitted(inst, desired)
<1>1. nodes \in Admissions(inst, desired)
  <2>1. desired \in Seq(Node)
    BY KernelAssumption DEF KernelInv, KernelTyped, Node
  <2>2. QED BY <2>1, PassAdmitsSome
<1>2. SUFFICES ASSUME nodes # << >> PROVE FALSE
  OBVIOUS
<1>3. 1 \in DOMAIN nodes
  <2>1. nodes \in Seq(Node)
    BY <1>1 DEF Admissions
  <2> HIDE DEF nodes
  <2>2. QED BY <1>2, <2>1, EmptySeq
<1> DEFINE g == token(nodes[1].ref)
<1>4. g \in Gen
  BY <1>1, <1>3, TokensOfAPass DEF PassAdmits, KernelInv
<1>5. inst'[g].status = "starting"
  <2>1. g \in {token(n.ref) : n \in Range(nodes)}
    BY <1>3 DEF Range
  <2>2. inst'[g] = Admitted(ownerOf(inst, refOf(g)), bound(inst, node(refOf(g)).providers))
    BY <1>4, <2>1 DEF PassAdmits
  <2> HIDE DEF g
  <2>3. QED BY <2>2, AdmittedIsKempt
<1> HIDE DEF g
<1>6. g \in Range(all')
  <2>1. KernelInv'
    BY PassAdmitsKeeps
  <2>2. QED BY <1>4, <1>5, <2>1 DEF KernelInv, Remembers
<1>7. QED BY <1>5, <1>6 DEF settledWith
LEMMA AdmittedStays ==
  ASSUME UNCHANGED <<desired, all, inst>>
  PROVE  admitted(inst, desired)' = admitted(inst, desired)
BY DEF admitted, admit, admissible, runs, retiring

\* While the latch stays open nothing moves but the loop.
LEMMA SettledSteps ==
  ASSUME IdleInv, [Next]_vars
  PROVE  Settled'
<1> SUFFICES ASSUME converged', phase' = "open"
             PROVE  /\ settledWith(inst, Range(all))' /\ AllMatch'
                    /\ admitted(inst, desired)' = << >>
  BY DEF Settled
<1>1. KernelInv /\ Tidy
  BY DEF IdleInv
<1> DEFINE Still == /\ settledWith(inst, Range(all)) /\ AllMatch
                    /\ admitted(inst, desired) = << >>
<1>2. converged /\ phase = "open" => Still
  BY DEF IdleInv, Settled
<1>3. Still => \A g \in Gen :
        /\ inst[g].closing # "pending" /\ inst[g].scope # "closing" /\ ~inst[g].building
        /\ inst[g].status \notin {"starting", "stopping"}
  BY <1>1, RestIsQuiet
<1>4. ASSUME Still, UNCHANGED <<desired, all, inst>>, scheduled' => scheduled, owed' => owed
      PROVE  Still'
  <2>1. settledWith(inst, Range(all))'
    <3>1. \A g \in Range(all') : /\ inst'[g].status \notin {"starting", "stopping"}
                                 /\ inst'[g].closing # "pending"
      BY <1>4 DEF settledWith
    <3>2. ~scheduled' /\ ~owed'
      BY <1>4 DEF settledWith
    <3>3. QED BY <3>1, <3>2 DEF settledWith
  <2>2. AllMatch'
    BY <1>4, AllMatchStays
  <2>3. admitted(inst, desired)' = << >>
    BY <1>4, AdmittedStays
  <2>4. QED BY <2>1, <2>2, <2>3
<1>5. CASE UNCHANGED vars
  BY <1>2, <1>4, <1>5 DEF vars, generations, wakes
<1>6. ASSUME NEW d \in Desire, publishDesired(d) PROVE FALSE
  BY <1>6 DEF publishDesired, wakeUp
<1>7. ASSUME NEW r \in Ref, retry(r) PROVE FALSE
  BY <1>7 DEF retry, wakeUp
<1>8. CASE Shutdown \/ TimerFires \/ PassIsLate \/ ShutdownEnds
  BY <1>8 DEF Shutdown, TimerFires, PassIsLate, ShutdownEnds
<1>9. CASE LoopTakes
  BY <1>2, <1>4, <1>9 DEF LoopTakes, generations
<1>10. CASE PassInvalidates
  <2>1. Still /\ UNCHANGED <<desired, scheduled>> /\ owed' = FALSE /\ retire(invalid)
    BY <1>2, <1>10 DEF PassInvalidates
  <2>2. invalid = {}
    BY <1>1, <2>1, NobodyIsInvalid DEF invalid
  <2>3. UNCHANGED <<desired, all, inst>>
    BY <1>1, <2>1, <2>2 DEF retire, KernelInv, KernelTyped
  <2>4. (scheduled' => scheduled) /\ (owed' => owed)
    BY <2>1
  <2>5. Still'
    BY <1>4, <2>1, <2>3, <2>4
  <2>6. QED BY <2>5
<1>11. CASE PassAdmits
  <2>1. /\ loop = "admitting" /\ phase = "open" /\ UNCHANGED <<desired, owed, scheduled>>
        /\ converged \/ settledWith(inst, Range(all))'
    <3>1. loop = "admitting" /\ phase = "open" /\ UNCHANGED <<desired, owed, scheduled>>
      BY <1>11 DEF PassAdmits
    <3>2. converged' = (converged \/ settledWith(inst', Range(all')))
      BY <1>11, Zenon DEF PassAdmits
    <3>3. converged \/ settledWith(inst', Range(all'))
      BY <3>2, Zenon
    <3>4. settledWith(inst', Range(all')) => settledWith(inst, Range(all))'
      BY <3>1 DEF settledWith
    <3>5. QED BY <3>1, <3>3, <3>4
  <2>2. CASE converged
    BY <1>1, <1>2, <1>4, <1>11, <2>1, <2>2, NobodyAdmitted
  <2>3. CASE settledWith(inst, Range(all))'
    <3>1. admitted(inst, desired) = << >>
      BY <1>1, <1>11, <2>3, LatchOpens
    <3>2. UNCHANGED <<desired, all, inst>>
      BY <1>1, <1>11, <3>1, NobodyAdmitted
    <3>3. ~owed
      BY <2>1, <2>3 DEF settledWith
    <3>4. AllMatch
      BY <2>1, <3>3 DEF IdleInv, SweptClean
    <3>5. AllMatch'
      BY <3>2, <3>4, AllMatchStays
    <3>6. admitted(inst, desired)' = << >>
      BY <3>1, <3>2, AdmittedStays
    <3>7. QED BY <2>3, <3>5, <3>6
  <2>4. QED BY <2>1, <2>2, <2>3
<1>12. ASSUME NEW g \in Gen, closeInstance(g) \/ ScopeCloses(g) \/ StopEnds(g) \/ CompletedLate(g)
                             \/ \E ok \in BOOLEAN : Completed(g, ok)
       PROVE  FALSE
  <2>1. /\ converged' = converged /\ phase' = phase
    BY <1>12 DEF closeInstance, ScopeCloses, StopEnds, CompletedLate, Completed,
      asksForPass, scheduleAsyncWake, wakes
  <2>2. \A h \in Gen :
        /\ inst[h].closing # "pending" /\ inst[h].scope # "closing" /\ ~inst[h].building
        /\ inst[h].status \notin {"starting", "stopping"}
    BY <1>2, <1>3, <2>1
  <2>3. CASE closeInstance(g)
    BY <2>2, <2>3 DEF closeInstance, closes, findsClosed
  <2>4. CASE ScopeCloses(g)
    BY <2>2, <2>4 DEF ScopeCloses, releases, reaches
  <2>5. CASE StopEnds(g)
    BY <1>1, <2>2, <2>5 DEF StopEnds, stopped, KernelInv, AllSound, Sound
  <2>6. CASE CompletedLate(g) \/ \E ok \in BOOLEAN : Completed(g, ok)
    BY <2>2, <2>6 DEF CompletedLate, endsLate, Completed
  <2>7. QED BY <1>12, <2>3, <2>4, <2>5, <2>6
<1>13. QED BY <1>5, <1>6, <1>7, <1>8, <1>9, <1>10, <1>11, <1>12
           DEF Next, Application, Runtime, Closes

LEMMA IdleStarts ==
  ASSUME Init
  PROVE  IdleInv
<1>1. KernelInv /\ Tidy
  BY KernelStarts, TidyStarts
<1>2. SweptClean /\ Settled
  BY DEF Init, SweptClean, Settled
<1>3. AtomsTell
  <2>1. Live(inst) = {} /\ Range(all) = {} /\ atom = [r \in Ref |-> "none"]
    <3>1. Nobody.status = "none"
      BY DEF Nobody
    <3>2. QED BY <3>1 DEF Init, Live, Range
  <2>2. \A r : readStatus(inst, Range(all), r) = "none"
    BY <2>1 DEF readStatus, current
  <2>3. QED BY <2>1, <2>2 DEF AtomsTell
<1>4. QED BY <1>1, <1>2, <1>3 DEF IdleInv

THEOREM IdleInvariant == Spec => []IdleInv
<1>1. ASSUME IdleInv, [Next]_vars PROVE IdleInv'
  <2>1. KernelInv /\ Tidy /\ AtomsTell
    BY <1>1 DEF IdleInv
  <2>2. KernelInv' /\ Tidy'
    BY <1>1, <2>1, KernelSteps, TidySteps
  <2>3. AtomsTell'
    BY <1>1, <2>1, <2>2, AtomsStep
  <2>4. QED BY <1>1, <2>2, <2>3, SweptCleanSteps, SettledSteps DEF IdleInv
<1>2. QED BY <1>1, IdleStarts, PTL DEF Spec

\* When `idle` returns, the kernel is idle: nothing is starting, draining or being
\* finalized, another pass would change nothing, and every status Atom says what its
\* generation does.
THEOREM ConvergedMeansIdle == Spec => []ConvergedIsConverged
<1>1. ASSUME IdleInv PROVE ConvergedIsConverged
  <2> SUFFICES ASSUME converged, phase = "open"
               PROVE  /\ AtRest
                      /\ \A g \in Gen : inst[g].scope # "closing" /\ ~inst[g].building
                      /\ \A r \in Ref : atom[r] = readStatus(inst, Range(all), r)
    BY DEF ConvergedIsConverged
  <2>1. /\ KernelInv /\ Tidy /\ AtomsTell
        /\ settledWith(inst, Range(all)) /\ AllMatch /\ admitted(inst, desired) = << >>
    BY <1>1 DEF IdleInv, Settled
  <2>2. invalid = {}
    BY <2>1, NobodyIsInvalid DEF invalid
  <2>3. AtRest
    BY <2>1, <2>2 DEF AtRest
  <2>4. QED BY <2>1, <2>3, RestIsQuiet DEF AtomsTell
<1>2. QED BY <1>1, IdleInvariant, PTL
-----------------------------------------------------------------------------
(***************************************************************************)
(* Lifetimes.                                                              *)
(***************************************************************************)
\* What the kernel itself has to release.
Held(g) == Holds(g) /\ inst[g].closer # "owner"

\* A generation nothing happened to.
LEMMA KernelStays ==
  ASSUME NEW g \in Gen, inst'[g].status = inst[g].status, Held(g)' <=> Held(g),
         inst[g].status # "none" => /\ inst'[g].owner = inst[g].owner
                                    /\ inst'[g].providers = inst[g].providers
  PROVE  Promise!Stays(g)
BY DEF Held, Holds, standsOn, Promise!Stays

LEMMA KernelDrains ==
  ASSUME NEW g \in Gen, inst'[g].status = inst[g].status, Held(g)' => Held(g),
         inst[g].status \in {"failed", "stopping"},
         inst'[g].owner = inst[g].owner, inst'[g].providers = inst[g].providers
  PROVE  Promise!Drains(g)
BY DEF Held, Holds, standsOn, Promise!Drains

\* What has no status holds nothing that is its own, and what starts or runs does.
LEMMA WhoHolds ==
  ASSUME KernelInv, NEW g \in Gen
  PROVE  /\ inst[g].status = "none" => ~Held(g)
         /\ inst[g].status \in {"starting", "running"} => Held(g)
BY GenerationsAreSound DEF Sound, Held, Holds, Insts, Generation

\* One generation moves.
LEMMA OneRefines ==
  ASSUME KernelInv, NEW g \in Gen, \A h \in Gen : h # g => inst'[h] = inst[h],
         \/ Promise!Concludes(g) \/ Promise!Retired(g)
         \/ Promise!Drains(g) \/ Promise!Stays(g)
  PROVE  Promise!Next
<1>1. ASSUME NEW h \in Gen, h # g PROVE Promise!Stays(h)
  BY <1>1, KernelStays DEF Held, Holds
<1>2. QED BY <1>1 DEF Promise!Next

\* One moves, and some who have no status are forgotten with that.
LEMMA TidyingRefines ==
  ASSUME KernelInv, NEW g \in Gen, NEW gen, NEW mid,
         mid = [inst EXCEPT ![g] = gen], inst' = tidied(mid, Range(all')),
         \A h \in Gen : mid[h].status # "none" => h \in Range(all'),
         Promise!Forgotten(g) \/ Promise!Drains(g) \/ Promise!Stays(g)
  PROVE  Promise!Next
<1>1. \A h \in Gen : h # g => mid[h] = inst[h]
  BY GenerationsAreSound DEF Insts
<1>2. \A h \in Gen : \/ inst'[h] = mid[h]
                     \/ /\ inst'[h] = Nobody
                        /\ h \notin Range(all') /\ mid[h].scope \in {"none", "closed"}
  <2>1. \A h \in Gen : \/ tidied(mid, Range(all'))[h] = mid[h]
                       \/ /\ tidied(mid, Range(all'))[h] = Nobody
                          /\ h \notin Range(all') /\ mid[h].scope \in {"none", "closed"}
    BY DEF tidied
  <2>2. QED BY <2>1
<1>3. Nobody.status = "none" /\ Nobody.scope = "none"
  BY DEF Nobody
<1>4. ASSUME NEW h \in Gen, h # g PROVE Promise!Stays(h)
  <2>1. CASE inst'[h] = inst[h]
    BY <2>1, KernelStays DEF Held, Holds
  <2>2. CASE inst'[h] = Nobody /\ inst[h].status = "none" /\ inst[h].scope \in {"none", "closed"}
    BY <1>3, <2>2, KernelStays DEF Held, Holds
  <2>3. QED BY <1>1, <1>2, <1>4, <2>1, <2>2
<1>5. QED BY <1>4 DEF Promise!Next

\* The close of a Scope.
LEMMA ScopesRefine ==
  ASSUME KernelInv, Tidy, NEW g \in Gen, closeInstance(g) \/ ScopeCloses(g)
  PROVE  Promise!Next
<1>1. all' = all
  BY DEF closeInstance, ScopeCloses
<1>2. inst \in Insts /\ \A h \in Gen : inst[h] \in Generation /\ Sound(inst[h])
  BY GenerationsAreSound DEF Insts
<1>3. CASE closes(g)
  <2>1. /\ \A h \in Gen : h # g => inst'[h] = inst[h]
        /\ inst'[g].status = inst[g].status /\ inst'[g].owner = inst[g].owner
        /\ inst'[g].providers = inst[g].providers
        /\ inst'[g].scope = "closing" /\ inst'[g].closer = "self"
        /\ inst[g].closing = "pending" /\ inst[g].closer = "nobody"
    BY <1>2, <1>3 DEF closes, Insts, Generation
  <2>2. inst[g].scope = "open"
    BY <1>2, <2>1 DEF Sound
  <2>3. Promise!Stays(g)
    BY <2>1, <2>2, KernelStays DEF Held, Holds
  <2>4. QED BY <2>1, <2>3, OneRefines
<1>4. CASE findsClosed(g)
  <2>1. /\ \A h \in Gen : h # g => inst'[h] = inst[h]
        /\ inst'[g].status = inst[g].status /\ inst'[g].owner = inst[g].owner
        /\ inst'[g].providers = inst[g].providers
        /\ inst'[g].scope = inst[g].scope /\ inst'[g].closer = inst[g].closer
    BY <1>2, <1>4 DEF findsClosed, returned, Insts, Generation
  <2>2. Promise!Stays(g)
    BY <2>1, KernelStays DEF Held, Holds
  <2>3. QED BY <2>1, <2>2, OneRefines
<1>5. ASSUME NEW c \in Gen, reaches(g, c) PROVE Promise!Next
  <2>1. /\ \A h \in Gen : h # c => inst'[h] = inst[h]
        /\ inst'[c].status = inst[c].status /\ inst'[c].owner = inst[c].owner
        /\ inst'[c].providers = inst[c].providers /\ inst'[c].closer = "owner"
        /\ inst[g].scope = "closing" /\ inst[c].owner = g /\ inst[c].scope = "open"
    BY <1>2, <1>5 DEF reaches, children, Insts, Generation
  <2>2. inst[c].status = "stopping"
    <3>1. ASSUME c \in Live(inst) PROVE FALSE
      <4>1. g # NoGen
        BY ClosingAssumption
      <4>2. inst[g].status = "running"
        BY <2>1, <3>1, <4>1 DEF KernelInv, OwnersRun
      <4>3. QED BY <1>2, <2>1, <4>2 DEF Sound
    <3>2. inst[c].status # "none"
      BY <1>2, <2>1 DEF Sound
    <3>3. QED BY <1>2, <3>1, <3>2 DEF Live, Generation
  <2>3. Promise!Drains(c)
    BY <2>1, <2>2, KernelDrains DEF Held
  <2>4. QED BY <2>1, <2>3, OneRefines
<1>6. CASE releases(g)
  <2> DEFINE released == [inst[g] EXCEPT !.scope = "closed", !.building = FALSE]
             gen == IF inst[g].closer = "self" THEN returned(released) ELSE released
             mid == [inst EXCEPT ![g] = gen]
  <2>1. inst' = tidied(mid, Range(all)) /\ Range(all) = Range(all')
    BY <1>1, <1>6, Zenon DEF releases
  <2>2. /\ gen.scope = "closed" /\ gen.status = inst[g].status
        /\ gen.owner = inst[g].owner /\ gen.providers = inst[g].providers
    BY <1>2 DEF Generation, returned
  <2>3. inst[g].scope = "closing"
    BY <1>6 DEF releases
  <2> HIDE DEF gen
  <2>4. mid[g] = gen /\ \A h \in Gen : mid[h].status = inst[h].status
    BY <1>2, <2>2 DEF Insts
  <2>5. \A h \in Gen : mid[h].status # "none" <=> h \in Range(all')
    BY <2>1, <2>4 DEF KernelInv, Remembers
  <2>6. mid = [inst EXCEPT ![g] = gen]
    OBVIOUS
  <2> HIDE DEF mid
  <2>7. \/ inst'[g] = mid[g]
        \/ inst'[g] = Nobody /\ g \notin Range(all')
    BY <2>1, TidiedForgets
  <2>8. Nobody.status = "none" /\ Nobody.scope = "none"
    BY DEF Nobody
  <2>9. inst'[g].status = inst[g].status /\ ~Held(g)'
    BY <2>2, <2>4, <2>5, <2>7, <2>8 DEF Held, Holds
  <2>10. inst[g].status # "none" =>
           inst'[g].owner = inst[g].owner /\ inst'[g].providers = inst[g].providers
    BY <2>2, <2>4, <2>5, <2>7
  <2>11. CASE inst[g].status = "none"
    <3>1. Promise!Stays(g)
      BY <2>9, <2>10, <2>11, WhoHolds, KernelStays
    <3>2. QED BY <2>1, <2>5, <2>6, <3>1, TidyingRefines
  <2>12. CASE inst[g].status # "none"
    <3>1. inst[g].status \in {"failed", "stopping"}
      BY <1>2, <2>3, <2>12 DEF Sound, Generation
    <3>2. Promise!Drains(g)
      BY <2>9, <2>10, <2>12, <3>1, KernelDrains
    <3>3. QED BY <2>1, <2>5, <2>6, <3>2, TidyingRefines
  <2>13. QED BY <2>11, <2>12
<1>7. QED BY <1>3, <1>4, <1>5, <1>6 DEF closeInstance, ScopeCloses

\* A generation is forgotten once its close has returned.
LEMMA StopEndsRefines ==
  ASSUME KernelInv, NEW g \in Gen, StopEnds(g)
  PROVE  Promise!Next
<1> DEFINE gen == [inst[g] EXCEPT !.status = "none", !.stopFiber = FALSE]
           mid == [inst EXCEPT ![g] = gen]
<1>1. inst \in Insts /\ \A h \in Gen : inst[h] \in Generation /\ Sound(inst[h])
  BY GenerationsAreSound DEF Insts
<1>2. /\ inst' = tidied(mid, Range(all')) /\ all' = allBut(g)
      /\ inst[g].stopFiber /\ inst[g].closing = "done"
  BY DEF StopEnds, stopped
<1>3. inst[g].status = "stopping" /\ ~Held(g)
  BY <1>1, <1>2 DEF Sound, Held, Holds
<1>4. Without(all', g)
  BY <1>2, <1>3, AllButForgets DEF KernelInv, Remembers
<1>5. gen.status = "none" /\ gen.scope = inst[g].scope /\ gen.closer = inst[g].closer
  BY <1>1 DEF Generation
<1> HIDE DEF gen
<1>6. mid[g] = gen /\ \A h \in Gen : h # g => mid[h] = inst[h]
  BY <1>1 DEF Insts
<1>7. \A h \in Gen : mid[h].status # "none" => h \in Range(all')
  BY <1>4, <1>5, <1>6 DEF KernelInv, Remembers, Without
<1>8. mid = [inst EXCEPT ![g] = gen]
  OBVIOUS
<1> HIDE DEF mid
<1>9. inst'[g] = mid[g] \/ inst'[g] = Nobody
  BY <1>2, TidiedForgets
<1>10. Nobody.status = "none" /\ Nobody.scope = "none"
  BY DEF Nobody
<1>11. inst'[g].status = "none" /\ ~Held(g)'
  BY <1>3, <1>5, <1>6, <1>9, <1>10 DEF Held, Holds
<1>12. Promise!Forgotten(g)
  BY <1>3, <1>11 DEF Promise!Forgotten, Held, Holds
<1>13. QED BY <1>2, <1>7, <1>8, <1>12, TidyingRefines

\* A startup ends.
LEMMA StartupsRefine ==
  ASSUME KernelInv, Tidy, NEW g \in Gen,
         CompletedLate(g) \/ \E ok \in BOOLEAN : Completed(g, ok)
  PROVE  Promise!Next
<1>1. inst \in Insts /\ inst[g] \in Generation /\ Sound(inst[g])
  BY GenerationsAreSound DEF Insts
<1>2. CASE endsLate(g)
  <2>1. /\ \A h \in Gen : h # g => inst'[h] = inst[h]
        /\ inst'[g].status = inst[g].status /\ inst'[g].owner = inst[g].owner
        /\ inst'[g].providers = inst[g].providers
        /\ inst'[g].scope = inst[g].scope /\ inst'[g].closer = inst[g].closer
    BY <1>1, <1>2 DEF endsLate, Insts, Generation
  <2>2. Promise!Stays(g)
    BY <2>1, KernelStays DEF Held, Holds
  <2>3. QED BY <2>1, <2>2, OneRefines
<1>3. CASE endsOvertaken(g) /\ inst[g].status = "starting"
  <2>1. /\ \A h \in Gen : h # g => inst'[h] = inst[h]
        /\ inst'[g].status = "stopping" /\ inst'[g].owner = inst[g].owner
        /\ inst'[g].providers = inst[g].providers
        /\ inst'[g].scope = inst[g].scope /\ inst'[g].closer = inst[g].closer
    BY <1>1, <1>3 DEF endsOvertaken, Stopping, Insts, Generation
  <2>2. \A d \in Live(inst) : g \notin standsOn(d)
    BY <1>3 DEF KernelInv, OwnersRun, Tidy, ProvidersRun, standsOn
  <2>3. Promise!Retired(g)
    BY <1>3, <2>1, <2>2 DEF Promise!Retired, Promise!Live, Live, standsOn
  <2>4. QED BY <2>1, <2>3, OneRefines
<1>4. ASSUME NEW ok \in BOOLEAN, ends(g, ok), inst[g].status = "starting" PROVE Promise!Next
  <2>1. /\ \A h \in Gen : h # g => inst'[h] = inst[h]
        /\ inst'[g].status \in {"running", "failed"} /\ inst'[g].owner = inst[g].owner
        /\ inst'[g].providers = inst[g].providers
        /\ inst'[g].scope = inst[g].scope /\ inst'[g].closer = inst[g].closer
    BY <1>1, <1>4 DEF ends, Insts, Generation
  <2>2. Held(g) /\ Held(g)'
    BY <1>4, <2>1, WhoHolds DEF Held, Holds
  <2>3. Promise!Concludes(g)
    BY <1>4, <2>1, <2>2 DEF Promise!Concludes, standsOn, Held, Holds
  <2>4. QED BY <2>1, <2>3, OneRefines
<1>5. QED BY <1>2, <1>3, <1>4 DEF CompletedLate, Completed

\* Generations are retired with all that stands on them.
LEMMA RetireRefines ==
  ASSUME KernelInv, NEW gs \in SUBSET Live(inst), retire(gs),
         \A g \in Live(inst) : \A h \in standsOn(g) : h \in gs => g \in gs
  PROVE  Promise!Next
<1>1. \A h \in Gen : inst[h] \in Generation
  BY GenerationsAreSound DEF Insts
<1>2. \A g \in Gen : inst'[g] = IF g \in gs THEN Stopping(inst[g]) ELSE inst[g]
  BY DEF retire
<1>3. ASSUME NEW g \in Gen
      PROVE  LET gen == Stopping(inst[g]) IN
               /\ gen.status = "stopping" /\ gen.owner = inst[g].owner
               /\ gen.providers = inst[g].providers
               /\ gen.scope = inst[g].scope /\ gen.closer = inst[g].closer
  BY <1>1 DEF Stopping, Generation
<1>4. \A g \in gs : /\ g \in Gen /\ inst'[g].status = "stopping"
                    /\ inst'[g].owner = inst[g].owner
                    /\ inst'[g].providers = inst[g].providers
                    /\ inst'[g].scope = inst[g].scope /\ inst'[g].closer = inst[g].closer
  BY <1>2, <1>3 DEF Live
<1>5. ASSUME NEW g \in gs PROVE Promise!Retired(g)
  <2>1. inst[g].status \in {"starting", "running", "failed"} /\ g \in Gen
    BY DEF Live
  <2>2. \A d \in Live(inst) : g \in standsOn(d) => inst'[d].status = "stopping"
    BY <1>4
  <2>3. QED BY <1>4, <2>1, <2>2 DEF Promise!Retired, Promise!Live, Live, standsOn
<1>6. ASSUME NEW g \in Gen, g \notin gs PROVE Promise!Stays(g)
  BY <1>2, <1>6, KernelStays DEF Held, Holds
<1>7. QED BY <1>5, <1>6 DEF Promise!Next

\* A pass takes with what it retires everything that was admitted on it.
LEMMA PassInvalidatesRefines ==
  ASSUME KernelInv, Tidy, PassInvalidates
  PROVE  Promise!Next
<1>1. /\ invalid \subseteq Live(inst)
      /\ \A g \in Live(inst) :
           inst[g].owner # NoGen /\ inst[g].owner \in invalid => g \in invalid
  BY SweepTakesWhatItCarried DEF KernelInv
<1>2. \A g \in Live(inst) : \A p \in Range(inst[g].providers) : p \in invalid => g \in invalid
  BY SweepTakesWhatItProvidedFor
<1>3. retire(invalid)
  BY DEF PassInvalidates
<1> HIDE DEF invalid
<1>4. \A g \in Live(inst) : \A h \in standsOn(g) : h \in invalid => g \in invalid
  BY <1>1, <1>2 DEF standsOn
<1>5. QED BY <1>1, <1>3, <1>4, RetireRefines

LEMMA RetryRefines ==
  ASSUME KernelInv, Tidy, NEW r \in Ref, retry(r)
  PROVE  Promise!Next
<1> DEFINE g == current(inst, r)
<1>1. g # NoGen /\ inst[g].status = "failed" /\ retire({g})
  BY DEF retry
<1>2. g \in Live(inst)
  BY <1>1, CurrentIsLive
<1> HIDE DEF g
<1>3. \A h \in Live(inst) : g \notin standsOn(h)
  BY <1>1 DEF KernelInv, OwnersRun, Tidy, ProvidersRun, standsOn
<1>4. {g} \in SUBSET Live(inst)
  BY <1>2
<1>5. QED BY <1>1, <1>3, <1>4, RetireRefines

\* A pass admits at most one generation to a slot.
LEMMA OneToASlot ==
  ASSUME KernelInv, PassAdmits, NEW g \in Gen, NEW h \in Gen,
         inst'[g] # inst[g], inst'[h] # inst[h], slotFor(refOf(g)) = slotFor(refOf(h))
  PROVE  g = h
<1> DEFINE nodes == admitted(inst, desired)
           new == {token(n.ref) : n \in Range(nodes)}
<1>1. loop = "admitting" /\ \A k \in Gen : k \notin new => inst'[k] = inst[k]
  BY DEF PassAdmits
<1>2. nodes \in Admissions(inst, desired)
  <2>1. desired \in Seq(Node)
    BY KernelAssumption DEF KernelInv, KernelTyped, Node
  <2>2. QED BY <2>1, PassAdmitsSome
<1> HIDE DEF nodes
<1>3. PICK i \in DOMAIN nodes : g = token(nodes[i].ref)
  BY <1>1 DEF Range
<1>4. PICK j \in DOMAIN nodes : h = token(nodes[j].ref)
  BY <1>1 DEF Range
<1>5. /\ refOf(g) = nodes[i].ref /\ refOf(h) = nodes[j].ref
      /\ slotFor(nodes[i].ref) = slotFor(nodes[j].ref) => i = j
  BY <1>1, <1>2, <1>3, <1>4, TokensOfAPass DEF KernelInv
<1>6. QED BY <1>3, <1>4, <1>5

\* A pass admits onto what runs and into slots that are empty.
LEMMA PassAdmitsRefines ==
  ASSUME KernelInv, Tidy, PassAdmits
  PROVE  Promise!Next
<1>1. \A h \in Gen : inst[h] \in Generation
  BY GenerationsAreSound DEF Insts
<1>2. Nobody.status = "none"
  BY DEF Nobody
<1>3. ASSUME NEW g \in Gen, inst'[g] = inst[g] PROVE Promise!Stays(g)
  BY <1>3, KernelStays DEF Held, Holds
<1>4. \A g \in Gen : inst[g].status # "none" => inst'[g] = inst[g]
  BY <1>2, PassAdmitsAfter
<1>5. ASSUME NEW g \in Gen, inst'[g] # inst[g] PROVE Promise!Admitted(g)
  <2>1. PICK n \in Range(desired) :
          /\ admissible(inst, n) /\ refOf(g) = n.ref /\ inst[g] = Nobody
          /\ inst'[g] = Admitted(ownerOf(inst, n.ref), bound(inst, n.providers))
    BY <1>5, PassAdmitsAfter
  <2>2. /\ inst'[g].status = "starting" /\ inst'[g].owner = ownerOf(inst, n.ref)
        /\ inst'[g].providers = bound(inst, n.providers)
        /\ inst'[g].scope = "open" /\ inst'[g].closer = "nobody"
    BY <2>1 DEF Admitted, Nobody
  <2>3. ASSUME NEW h \in standsOn(g)' 
        PROVE  h \in Gen /\ inst[h].status = "running" /\ inst'[h].status = "running"
    <3>1. h \in Gen /\ inst[h].status = "running"
      <4>1. CASE h = ownerOf(inst, n.ref)
        BY <2>1, <2>3, <4>1, AdmissibleStands DEF standsOn
      <4>2. CASE h \in Range(bound(inst, n.providers))
        <5>1. PICK i \in DOMAIN n.providers : h = current(inst, n.providers[i])
          BY <4>2 DEF bound, Range
        <5>2. n.providers[i] \in Range(n.providers)
          BY DEF Range
        <5>3. h # NoGen /\ inst[h].status = "running"
          BY <2>1, <5>1, <5>2 DEF admissible, runs
        <5>4. QED BY <5>1, <5>3, CurrentIsLive DEF Live
      <4>3. QED BY <2>2, <2>3, <4>1, <4>2 DEF standsOn
    <3>2. QED BY <1>4, <3>1
  <2>4. ASSUME NEW h \in Gen, <<g, h>> \in Rivals
        PROVE  inst[h].status = "none" /\ inst'[h].status = "none"
    <3>1. g # h /\ slotFor(refOf(g)) = slotFor(refOf(h)) /\ Family[n.ref] \notin Overlap
      BY <2>1, <2>4 DEF Rivals
    <3>2. h \notin Live(inst)
      BY <2>1, <3>1 DEF admissible
    <3>3. inst[h].status # "stopping"
      <4>1. ASSUME inst[h].status = "stopping" PROVE h \in retiring(inst, n.ref)
        <5>1. h \in Range(all)
          BY <4>1 DEF KernelInv, Remembers
        <5>2. QED BY <2>1, <3>1, <4>1, <5>1 DEF retiring
      <4>2. QED BY <2>1, <3>1, <4>1 DEF admissible
    <3>4. inst[h].status = "none"
      BY <1>1, <3>2, <3>3 DEF Live, Generation
    <3>5. inst'[h] = inst[h]
      BY <1>5, <3>1, OneToASlot
    <3>6. QED BY <3>4, <3>5
  <2>5. inst[g].status = "none"
    BY <1>2, <2>1
  <2>6. QED BY <2>2, <2>3, <2>4, <2>5 DEF Promise!Admitted, standsOn
<1>6. QED BY <1>3, <1>5 DEF Promise!Next

\* Every step of the kernel is a step of Lifetimes.
LEMMA KernelStepRefines ==
  ASSUME KernelInv, Tidy, [Next]_vars
  PROVE  Promise!Next
<1>1. CASE UNCHANGED inst
  <2>1. ASSUME NEW g \in Gen PROVE Promise!Stays(g)
    BY <1>1, KernelStays DEF Held, Holds
  <2>2. QED BY <2>1 DEF Promise!Next
<1>2. CASE \/ UNCHANGED vars \/ TimerFires \/ LoopTakes \/ PassIsLate \/ ShutdownEnds
           \/ \E d \in Desire : publishDesired(d)
  BY <1>1, <1>2 DEF TimerFires, LoopTakes, PassIsLate, ShutdownEnds, publishDesired,
                    generations, vars
<1>3. CASE Shutdown
  <2>1. retire(Live(inst))
    BY <1>3 DEF Shutdown
  <2>2. QED BY <2>1, RetireRefines
<1>4. ASSUME NEW g \in Gen, Closes(g) PROVE Promise!Next
  BY <1>4, ScopesRefine, StopEndsRefines DEF Closes
<1>5. QED BY <1>2, <1>3, <1>4, RetryRefines, PassInvalidatesRefines, PassAdmitsRefines,
            StartupsRefine DEF Next, Application, Runtime

\* The kernel implements what Lifetimes says of generations, whatever the tree of
\* identities and the lists desire goes through: admitted onto what runs into an
\* empty slot, retired in one step with all that was admitted on it, however far the
\* sweep has to carry that, and forgotten once what the kernel has to release is gone.
THEOREM KernelKeepsLifetimes == Spec => KernelImplementsLifetimes
<1>1. Init => Promise!Init
  <2> SUFFICES ASSUME Init PROVE Promise!Init
    OBVIOUS
  <2>1. \A g \in Gen : inst[g].status = "none" /\ inst[g].scope = "none"
    BY DEF Init, Nobody
  <2>2. [g \in Gen |-> inst[g].scope \in {"open", "closing"} /\ inst[g].closer # "owner"]
          = [g \in Gen |-> FALSE]
    BY <2>1
  <2>3. QED BY <2>1, <2>2 DEF Promise!Init
<1>2. ASSUME IdleInv, [Next]_vars PROVE [Promise!Next]_(Promise!vars)
  BY <1>2, KernelStepRefines DEF IdleInv
<1>3. QED BY <1>1, <1>2, IdleInvariant, PTL DEF Spec, KernelImplementsLifetimes, Promise!Spec
=============================================================================
