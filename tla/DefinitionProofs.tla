-------------------------- MODULE DefinitionProofs ---------------------------
(***************************************************************************)
(* What make accepts, for any declarations and entries: exactly what is    *)
(* well declared and bound once, and of that the compiled form is what the *)
(* other modules assume.                                                   *)
(***************************************************************************)
EXTENDS Definition, SequenceTheorems, WellFoundedInduction, TLAPS

-----------------------------------------------------------------------------
(***************************************************************************)
(* Least numbers.                                                          *)
(***************************************************************************)
LEMMA LeastNumber ==
  ASSUME NEW T \in SUBSET Nat, T # {}
  PROVE  \E n \in T : \A m \in T : n <= m
<1> DEFINE R == {ss \in Nat \X Nat : ss[1] < ss[2]}
<1>1. IsWellFoundedOn(R, Nat)
  BY NatLessThanWellFounded DEF OpToRel
<1> HIDE DEF R
<1>2. \E n \in T : \A m \in T : <<m, n>> \notin R
  BY <1>1, WFMin, Zenon
<1>3. ASSUME NEW m \in Nat, NEW n \in Nat, <<m, n>> \notin R PROVE n <= m
  BY <1>3 DEF R
<1>4. QED BY <1>2, <1>3

LEMMA MinIsLeast ==
  ASSUME NEW T \in SUBSET Nat, T # {}
  PROVE  Min(T) \in T
BY LeastNumber DEF Min

\* What holds of a number once it holds of those below it holds of every number
\* of a segment.
LEMMA FromBelow ==
  ASSUME NEW N \in Nat, NEW T,
         \A k \in 0 .. N : (\A j \in 0 .. N : j < k => j \in T) => k \in T
  PROVE  \A k \in 0 .. N : k \in T
<1> SUFFICES ASSUME NEW k \in 0 .. N, k \notin T PROVE FALSE
  OBVIOUS
<1> DEFINE U == {i \in 0 .. N : i \notin T}
<1>1. PICK n \in U : \A m \in U : n <= m
  <2>1. U \in SUBSET Nat /\ U # {}
    OBVIOUS
  <2>2. QED BY <2>1, LeastNumber
<1>2. \A j \in 0 .. N : j < n => j \in T
  BY <1>1
<1>3. QED BY <1>1, <1>2

-----------------------------------------------------------------------------
(***************************************************************************)
(* The recursive definitions satisfy their equations.                      *)
(***************************************************************************)
Typed == families \in Seq(Declaration)

LEMMA FamiliesAre ==
  ASSUME Typed
  PROVE  /\ Len(families) \in Nat /\ Declared = 1 .. Len(families)
         /\ \A n \in Declared : families[n] \in Declaration
BY DEF Typed, Declared

\* The families above n, where those of the families before n are `up`.
AboveBy(up, n) == IF Owner(n) \notin 1 .. (n - 1) THEN {} ELSE {Owner(n)} \cup up[Owner(n)]

LEMMA AboveIs ==
  ASSUME Typed
  PROVE  \A n \in Declared : Above[n] = AboveBy(Above, n)
<1> DEFINE N == Len(families)
           Solves(f, m) == f = [n \in 1 .. m |-> AboveBy(f, n)]
           T == {m \in 0 .. N : \E f : Solves(f, m)}
<1>1. N \in Nat /\ Declared = 1 .. N
  BY FamiliesAre
<1>2. ASSUME NEW m \in 0 .. N, \A j \in 0 .. N : j < m => j \in T PROVE m \in T
  <2>1. CASE m = 0
    <3> DEFINE f == [n \in 1 .. 0 |-> {}]
    <3>1. f = [n \in 1 .. 0 |-> AboveBy(f, n)]
      OBVIOUS
    <3>2. Solves(f, m)
      BY <2>1, <3>1
    <3> HIDE DEF f, Solves
    <3>3. QED BY <3>2
  <2>2. CASE m # 0
    <3>1. m - 1 \in 0 .. N /\ m - 1 < m /\ m \in Nat
      BY <1>1, <2>2
    <3>2. PICK f : Solves(f, m - 1)
      BY <1>2, <3>1
    <3> DEFINE g == [n \in 1 .. m |-> IF n < m THEN f[n] ELSE AboveBy(f, n)]
    <3>3. ASSUME NEW n \in 1 .. m PROVE g[n] = AboveBy(g, n)
      <4>1. \A j \in 1 .. (n - 1) : j \in 1 .. m /\ j < m
        BY <3>1
      <4>2. \A j \in 1 .. (n - 1) : g[j] = f[j]
        BY <4>1
      <4>3. AboveBy(g, n) = AboveBy(f, n)
        BY <4>2 DEF AboveBy
      <4>4. CASE n < m
        <5>1. n \in 1 .. (m - 1)
          BY <3>1, <4>4
        <5>2. f[n] = AboveBy(f, n)
          BY <3>2, <5>1
        <5>3. QED BY <4>3, <4>4, <5>2
      <4>5. CASE ~(n < m)
        BY <4>3, <4>5
      <4>6. QED BY <4>4, <4>5
    <3>4. g = [n \in 1 .. m |-> AboveBy(g, n)]
      BY <3>3
    <3>5. Solves(g, m)
      BY <3>4
    <3> HIDE DEF g, Solves
    <3>6. QED BY <3>5
  <2>3. QED BY <2>1, <2>2
<1>3. N \in T
  <2> HIDE DEF T
  <2>1. \A m \in 0 .. N : m \in T
    BY <1>1, <1>2, FromBelow
  <2>2. QED BY <1>1, <2>1
<1>4. PICK f : f = [n \in Declared |-> AboveBy(f, n)]
  BY <1>1, <1>3
<1>5. Above = CHOOSE h : h = [n \in Declared |-> AboveBy(h, n)]
  BY DEF Above, AboveBy
<1>6. Above = [n \in Declared |-> AboveBy(Above, n)]
  BY <1>4, <1>5
<1>7. QED BY <1>6

Start == [error |-> Ok, compiled |-> << >>]

\* d tells what compileDefinition has of the first n families.
Compiles(d) ==
  d = [n \in 0 .. Len(families) |->
         IF n = 0 THEN Start ELSE compileFamily(families, d[n - 1], n)]

LEMMA CompileRuns ==
  ASSUME Typed
  PROVE  \E d : Compiles(d) /\ compileDefinition(families) = d[Len(families)]
<1> DEFINE N == Len(families)
           Next1(d, n) == IF n = 0 THEN Start ELSE compileFamily(families, d[n - 1], n)
           Solves(f, m) == f = [n \in 0 .. m |-> Next1(f, n)]
           T == {m \in 0 .. N : \E f : Solves(f, m)}
<1>1. N \in Nat
  BY FamiliesAre
<1>2. ASSUME NEW m \in 0 .. N, \A j \in 0 .. N : j < m => j \in T PROVE m \in T
  <2>1. CASE m = 0
    <3> DEFINE f == [n \in 0 .. 0 |-> Start]
    <3>1. f = [n \in 0 .. 0 |-> Next1(f, n)]
      OBVIOUS
    <3>2. Solves(f, m)
      BY <2>1, <3>1
    <3> HIDE DEF f, Solves
    <3>3. QED BY <3>2
  <2>2. CASE m # 0
    <3>1. m - 1 \in 0 .. N /\ m - 1 < m /\ m \in Nat
      BY <1>1, <2>2
    <3>2. PICK f : Solves(f, m - 1)
      BY <1>2, <3>1
    <3> DEFINE g == [n \in 0 .. m |-> IF n < m THEN f[n] ELSE Next1(f, n)]
    <3>3. ASSUME NEW n \in 0 .. m PROVE g[n] = Next1(g, n)
      <4>1. n # 0 => n - 1 \in 0 .. m /\ n - 1 < m
        BY <3>1
      <4>2. n # 0 => g[n - 1] = f[n - 1]
        BY <4>1
      <4>3. Next1(g, n) = Next1(f, n)
        BY <4>2
      <4>4. CASE n < m
        <5>1. n \in 0 .. (m - 1)
          BY <3>1, <4>4
        <5>2. f[n] = Next1(f, n)
          BY <3>2, <5>1
        <5>3. g[n] = f[n]
          BY <4>4
        <5> HIDE DEF g, Next1
        <5>4. QED BY <4>3, <5>2, <5>3
      <4>5. CASE ~(n < m)
        <5>1. g[n] = Next1(f, n)
          BY <4>5
        <5> HIDE DEF g, Next1
        <5>2. QED BY <4>3, <5>1
      <4>6. QED BY <4>4, <4>5
    <3>4. g = [n \in 0 .. m |-> Next1(g, n)]
      <4> HIDE DEF Next1
      <4>1. QED BY <3>3
    <3>5. Solves(g, m)
      BY <3>4
    <3> HIDE DEF g, Solves
    <3>6. QED BY <3>5
  <2>3. QED BY <2>1, <2>2
<1>3. N \in T
  <2> HIDE DEF T
  <2>1. \A m \in 0 .. N : m \in T
    BY <1>1, <1>2, FromBelow
  <2>2. QED BY <1>1, <2>1
<1>4. \A f : Solves(f, N) <=> Compiles(f)
  BY DEF Compiles
<1>5. PICK f : Compiles(f)
  <2> HIDE DEF Solves
  <2>1. QED BY <1>3, <1>4
<1> DEFINE F == CHOOSE h : Compiles(h)
<1>6. compileDefinition(families) = F[N]
  BY DEF compileDefinition, Compiles, Start
<1>7. Compiles(F)
  BY <1>5
<1> HIDE DEF F
<1>8. QED BY <1>6, <1>7

-----------------------------------------------------------------------------
(***************************************************************************)
(* Chains.  The chain of a family is that of its owner and the family; so  *)
(* whatever begins a chain is a chain itself.                              *)
(***************************************************************************)
Listed(c) == c \in Seq(Range(c)) /\ Len(c) <= Len(families)

above(c, n) == ownerChain(families, c, n)

OwnedBefore(n) == Owner(n) \in {NoOwner} \cup 1 .. (n - 1)

Chained(c) ==
  \A k \in DOMAIN c : OwnedBefore(k) /\ c[k].chain = Append(above(c, k), k)

Path(c, k) ==
  /\ c[k].chain \in Seq(1 .. k)
  /\ above(c, k) \in Seq(1 .. k)
  /\ Range(above(c, k)) = Above[k]
  /\ \A i \in 1 .. Len(c[k].chain) : SubSeq(c[k].chain, 1, i) = c[c[k].chain[i]].chain

LEMMA ListedIs ==
  ASSUME Typed, NEW c, Listed(c)
  PROVE  /\ Len(c) \in Nat /\ DOMAIN c = 1 .. Len(c)
         /\ \A k \in 1 .. Len(c) : k \in Declared
BY FamiliesAre DEF Listed

\* What is appended to a sequence of numbers.
LEMMA AppendIs ==
  ASSUME NEW S, NEW s \in Seq(S), NEW x
  PROVE  /\ Len(Append(s, x)) = Len(s) + 1
         /\ Append(s, x)[Len(s) + 1] = x
         /\ \A i \in 1 .. Len(s) : Append(s, x)[i] = s[i]
         /\ \A i \in 1 .. Len(s) : SubSeq(Append(s, x), 1, i) = SubSeq(s, 1, i)
         /\ SubSeq(Append(s, x), 1, Len(s) + 1) = Append(s, x)
         /\ Range(Append(s, x)) = Range(s) \cup {x}
<1> DEFINE L == Len(s)
           U == S \cup {x}
           t == Append(s, x)
<1>1. L \in Nat /\ DOMAIN s = 1 .. L
  OBVIOUS
<1>2. s \in Seq(U) /\ x \in U
  BY SeqMonotonic
<1>3. /\ t \in Seq(U) /\ Len(t) = L + 1 /\ DOMAIN t = 1 .. L + 1
      /\ t[L + 1] = x /\ \A i \in 1 .. L : t[i] = s[i]
  BY <1>2, AppendProperties
<1> HIDE DEF U, t
<1>4. ASSUME NEW i \in 1 .. L PROVE SubSeq(t, 1, i) = SubSeq(s, 1, i)
  <2>1. i \in Nat /\ \A j \in 1 .. i : j \in 1 .. L /\ j \in 1 .. L + 1
    BY <1>1
  <2>2. SubSeq(t, 1, i) = [j \in 1 .. i |-> t[j]] /\ SubSeq(s, 1, i) = [j \in 1 .. i |-> s[j]]
    BY <1>1, <1>2, <1>3, <2>1
  <2>3. QED BY <1>3, <2>1, <2>2
<1>5. SubSeq(t, 1, L + 1) = t
  <2>1. SubSeq(t, 1, L + 1) = [j \in 1 .. L + 1 |-> t[j]]
    BY <1>1, <1>3
  <2>2. t = [j \in 1 .. L + 1 |-> t[j]]
    BY <1>3
  <2>3. QED BY <2>1, <2>2
<1>6. Range(t) = Range(s) \cup {x}
  <2>1. \A i \in 1 .. L + 1 : i \in 1 .. L \/ i = L + 1
    BY <1>1
  <2>2. \A i \in 1 .. L : i \in 1 .. L + 1
    BY <1>1
  <2>3. L + 1 \in 1 .. L + 1
    BY <1>1
  <2> HIDE DEF L
  <2>4. QED BY <1>1, <1>3, <2>1, <2>2, <2>3 DEF Range
<1>7. QED BY <1>3, <1>4, <1>5, <1>6 DEF t

LEMMA PathsGrow ==
  ASSUME Typed, NEW c, Listed(c), Chained(c)
  PROVE  \A k \in 1 .. Len(c) : Path(c, k)
<1> DEFINE N == Len(c)
           T == {k \in 0 .. N : k \in 1 .. N => Path(c, k)}
<1>1. N \in Nat /\ DOMAIN c = 1 .. N /\ \A k \in 1 .. N : k \in Declared
  BY ListedIs
<1>2. ASSUME NEW k \in 0 .. N, \A j \in 0 .. N : j < k => j \in T PROVE k \in T
  <2> SUFFICES ASSUME k \in 1 .. N PROVE Path(c, k)
    OBVIOUS
  <2> DEFINE a == above(c, k)
             s == c[k].chain
             o == Owner(k)
  <2>1. s = Append(a, k) /\ OwnedBefore(k)
    BY <1>1 DEF Chained
  <2>2. Above[k] = AboveBy(Above, k)
    BY <1>1, AboveIs
  <2>3. CASE o = NoOwner
    <3>1. a = << >>
      BY <2>3 DEF above, ownerChain, Owner
    <3>2. Above[k] = {}
      BY <2>2, <2>3 DEF AboveBy, NoOwner
    <3>3. s = <<k>>
      BY <2>1, <3>1
    <3>4. SubSeq(s, 1, 1) = s
      <4>1. << >> \in Seq({}) /\ Len(<< >>) + 1 = 1
        OBVIOUS
      <4> HIDE DEF s, a
      <4>2. QED BY <2>1, <3>1, <4>1, AppendIs
    <3>5. \A i \in 1 .. 1 : SubSeq(s, 1, i) = c[s[i]].chain
      BY <3>3, <3>4
    <3>6. Range(a) = {} /\ a \in Seq(1 .. k) /\ s \in Seq(1 .. k) /\ Len(s) = 1
      BY <3>1, <3>3 DEF Range
    <3>7. QED BY <3>2, <3>5, <3>6 DEF Path
  <2>4. CASE o # NoOwner
    <3>1. o \in 1 .. (k - 1) /\ o \in 0 .. N /\ o < k /\ o \in 1 .. N
      BY <1>1, <2>1, <2>4 DEF OwnedBefore
    <3>2. Path(c, o)
      BY <1>2, <3>1
    <3>3. a = c[o].chain
      BY <2>4 DEF above, ownerChain, Owner
    <3>4. Above[k] = {o} \cup Above[o]
      BY <2>2, <3>1 DEF AboveBy
    <3>5. a = Append(above(c, o), o)
      BY <1>1, <3>1, <3>3 DEF Chained
    <3>6. a \in Seq(1 .. o) /\ above(c, o) \in Seq(1 .. o)
      BY <3>2, <3>3 DEF Path
    <3>7. Range(a) = Above[k]
      <4>1. Range(above(c, o)) = Above[o]
        BY <3>2 DEF Path
      <4> HIDE DEF a, o
      <4>2. QED BY <3>4, <3>5, <3>6, <4>1, AppendIs
    <3>8. a \in Seq(1 .. k) /\ s \in Seq(1 .. k)
      <4>1. 1 .. o \subseteq 1 .. k /\ k \in 1 .. k
        BY <1>1, <3>1
      <4>2. a \in Seq(1 .. k)
        BY <3>6, <4>1, SeqMonotonic
      <4>3. QED BY <2>1, <4>1, <4>2, AppendProperties
    <3>9. ASSUME NEW i \in 1 .. Len(s) PROVE SubSeq(s, 1, i) = c[s[i]].chain
      <4> DEFINE L == Len(a)
      <4>1. L \in Nat
        BY <3>8
      <4>2. /\ Len(s) = L + 1 /\ s[L + 1] = k /\ SubSeq(s, 1, L + 1) = s
            /\ \A j \in 1 .. L : s[j] = a[j] /\ SubSeq(s, 1, j) = SubSeq(a, 1, j)
        <5> HIDE DEF a, s
        <5>1. QED BY <2>1, <3>8, AppendIs
      <4>3. CASE i \in 1 .. L
        <5>1. SubSeq(a, 1, i) = c[a[i]].chain
          BY <3>2, <3>3, <4>3 DEF Path
        <5> HIDE DEF a, s, L
        <5>2. QED BY <4>2, <4>3, <5>1
      <4>4. CASE i = L + 1
        <5>1. c[k].chain = s
          OBVIOUS
        <5> HIDE DEF a, s, L
        <5>2. QED BY <4>2, <4>4, <5>1
      <4>5. i \in 1 .. L \/ i = L + 1
        BY <4>1, <4>2
      <4>6. QED BY <4>3, <4>4, <4>5
    <3> HIDE DEF a, o
    <3>10. QED BY <3>7, <3>8, <3>9 DEF Path, a
  <2>5. QED BY <2>3, <2>4
<1> HIDE DEF T
<1>3. \A k \in 0 .. N : k \in T
  BY <1>1, <1>2, FromBelow
<1>4. ASSUME NEW k \in 1 .. N PROVE Path(c, k)
  <2>1. k \in 0 .. N
    BY <1>1
  <2>2. QED BY <1>3, <2>1 DEF T
<1>5. QED BY <1>4

\* A chain ends in its family.
LEMMA ChainEnds ==
  ASSUME Typed, NEW c, Listed(c), Chained(c), NEW p \in 1 .. Len(c)
  PROVE  /\ above(c, p) \in Seq(1 .. p) /\ c[p].chain \in Seq(1 .. p)
         /\ c[p].chain = Append(above(c, p), p)
         /\ Len(c[p].chain) = Len(above(c, p)) + 1 /\ Len(above(c, p)) \in Nat
         /\ c[p].chain[Len(above(c, p)) + 1] = p
         /\ Front(c[p].chain) = above(c, p)
<1> DEFINE b == above(c, p)
           s == c[p].chain
           L == Len(b)
<1>1. b \in Seq(1 .. p) /\ s \in Seq(1 .. p) /\ s = Append(b, p)
  BY ListedIs, PathsGrow DEF Path, Chained
<1>2. L \in Nat /\ DOMAIN b = 1 .. L
  BY <1>1
<1> HIDE DEF b
<1>3. Len(s) = L + 1 /\ s[L + 1] = p /\ \A i \in 1 .. L : s[i] = b[i]
  <2> HIDE DEF s
  <2>1. QED BY <1>1, AppendIs
<1> HIDE DEF s
<1>4. Front(s) = SubSeq(s, 1, L)
  BY <1>2, <1>3 DEF Front
<1>5. \A i \in 1 .. L : i \in 1 .. Len(s)
  BY <1>2, <1>3
<1>6. SubSeq(s, 1, L) = [i \in 1 .. L |-> s[i]]
  BY <1>1, <1>2, <1>3, <1>5
<1>7. b = [i \in 1 .. L |-> b[i]]
  BY <1>1, <1>2
<1>8. SubSeq(s, 1, L) = b
  BY <1>3, <1>6, <1>7
<1>9. QED BY <1>1, <1>2, <1>3, <1>4, <1>8 DEF b, s

\* A prefix of a chain is the chain of a family on it.
LEMMA PrefixIsAbove ==
  ASSUME Typed, NEW c, Listed(c), Chained(c),
         NEW n \in Declared, n - 1 <= Len(c), OwnedBefore(n), NEW p \in 1 .. (n - 1)
  PROVE  /\ above(c, n) \in Seq(1 .. (n - 1))
         /\ IsPrefix(c[p].chain, above(c, n)) <=> p \in Above[n]
         /\ Front(c[p].chain) = above(c, p)
         /\ IsPrefix(Front(c[p].chain), above(c, n)) <=> Owner(p) \in Above[n] \cup {NoOwner}
<1> DEFINE N == Len(c)
           a == above(c, n)
           o == Owner(n)
<1>1. N \in Nat /\ DOMAIN c = 1 .. N /\ n \in Nat /\ \A k \in 1 .. N : k \in Declared
  BY ListedIs, FamiliesAre
<1>2. \A k \in 1 .. (n - 1) : k \in 1 .. N
  BY <1>1
<1>3. \A k \in 1 .. N : Path(c, k)
  BY PathsGrow
<1>4. Above[n] = AboveBy(Above, n)
  BY AboveIs
<1>5. /\ a \in Seq(1 .. (n - 1)) /\ Range(a) = Above[n]
      /\ \A i \in 1 .. Len(a) : SubSeq(a, 1, i) = c[a[i]].chain
  <2>1. CASE o = NoOwner
    <3>1. a = << >>
      BY <2>1 DEF above, ownerChain, Owner
    <3>2. Above[n] = {}
      BY <1>4, <2>1 DEF AboveBy, NoOwner
    <3>3. QED BY <3>1, <3>2 DEF Range
  <2>2. CASE o # NoOwner
    <3>1. o \in 1 .. (n - 1) /\ o \in 1 .. N /\ o \in Nat
      BY <1>2, <2>2 DEF OwnedBefore
    <3>2. a = c[o].chain
      BY <2>2 DEF above, ownerChain, Owner
    <3>3. Above[n] = {o} \cup Above[o]
      BY <1>4, <3>1 DEF AboveBy
    <3>4. a = Append(above(c, o), o)
      BY <1>1, <3>1, <3>2 DEF Chained
    <3>5. Path(c, o)
      BY <1>3, <3>1
    <3>6. Range(a) = Above[n]
      <4>1. Range(above(c, o)) = Above[o] /\ above(c, o) \in Seq(1 .. o)
        BY <3>5 DEF Path
      <4> HIDE DEF a, o
      <4>2. QED BY <3>3, <3>4, <4>1, AppendIs
    <3>7. a \in Seq(1 .. (n - 1))
      <4>1. 1 .. o \subseteq 1 .. (n - 1)
        BY <1>1, <3>1
      <4>2. a \in Seq(1 .. o)
        BY <3>2, <3>5 DEF Path
      <4>3. QED BY <4>1, <4>2, SeqMonotonic
    <3>8. \A i \in 1 .. Len(a) : SubSeq(a, 1, i) = c[a[i]].chain
      BY <3>2, <3>5 DEF Path
    <3>9. QED BY <3>6, <3>7, <3>8
  <2>3. QED BY <2>1, <2>2
<1> HIDE DEF a
\* Of any chain.
<1>6. ASSUME NEW q \in 1 .. (n - 1) PROVE IsPrefix(c[q].chain, a) <=> q \in Above[n]
  <2> DEFINE s == c[q].chain
             L == Len(s)
  <2>1. q \in 1 .. N /\ s = Append(above(c, q), q) /\ Path(c, q)
    BY <1>1, <1>2, <1>3 DEF Chained
  <2>2. above(c, q) \in Seq(1 .. q) /\ s \in Seq(1 .. q)
    BY <2>1 DEF Path
  <2>3. L \in Nat /\ Len(a) \in Nat /\ DOMAIN a = 1 .. Len(a)
    BY <1>5, <2>2
  <2>4. L = Len(above(c, q)) + 1 /\ s[L] = q /\ SubSeq(s, 1, L) = s
    <3> HIDE DEF s, L
    <3>1. Len(s) = Len(above(c, q)) + 1 /\ s[Len(above(c, q)) + 1] = q
          /\ SubSeq(s, 1, Len(above(c, q)) + 1) = s
      BY <2>1, <2>2, AppendIs
    <3>2. QED BY <3>1 DEF L
  <2>5. L \in 1 .. L
    BY <2>2, <2>3, <2>4
  <2>6. ASSUME IsPrefix(s, a) PROVE q \in Range(a)
    <3>1. L <= Len(a) /\ SubSeq(a, 1, L) = s
      BY <2>4, <2>6 DEF IsPrefix
    <3>2. L \in 1 .. Len(a)
      BY <2>3, <2>5, <3>1
    <3>3. SubSeq(a, 1, L)[L] = a[L]
      BY <1>5, <2>3, <2>5, <3>2
    <3>4. a[L] = q
      BY <2>4, <3>1, <3>3
    <3>5. QED BY <2>3, <3>2, <3>4 DEF Range
  <2>7. ASSUME q \in Range(a) PROVE IsPrefix(s, a)
    <3>1. PICK i \in 1 .. Len(a) : a[i] = q
      BY <2>3, <2>7 DEF Range
    <3>2. SubSeq(a, 1, i) = s
      BY <1>5, <3>1
    <3>3. i \in Nat /\ \A j \in 1 .. i : j \in 1 .. Len(a)
      BY <2>3
    <3>4. Len(SubSeq(a, 1, i)) = i
      BY <1>5, <3>3
    <3>5. L = i
      BY <3>2, <3>4
    <3>6. L <= Len(a) /\ SubSeq(s, 1, L) = SubSeq(a, 1, L)
      BY <2>3, <2>4, <3>1, <3>2, <3>5
    <3>7. QED BY <3>6 DEF IsPrefix
  <2>8. QED BY <1>5, <2>6, <2>7
<1>7. Front(c[p].chain) = above(c, p)
  BY <1>2, ChainEnds
<1>8. IsPrefix(above(c, p), a) <=> Owner(p) \in Above[n] \cup {NoOwner}
  <2>1. p \in 1 .. N /\ OwnedBefore(p)
    BY <1>1, <1>2 DEF Chained
  <2>2. CASE Owner(p) = NoOwner
    <3>1. above(c, p) = << >>
      BY <2>2 DEF above, ownerChain, Owner
    <3>2. Len(<< >>) <= Len(a) /\ SubSeq(<< >>, 1, 0) = << >> /\ SubSeq(a, 1, 0) = << >>
          /\ Len(<< >>) = 0
      BY <1>5
    <3>3. IsPrefix(<< >>, a)
      BY <3>2 DEF IsPrefix
    <3>4. QED BY <2>2, <3>1, <3>3
  <2>3. CASE Owner(p) # NoOwner
    <3>1. Owner(p) \in 1 .. (n - 1)
      BY <1>1, <2>1, <2>3 DEF OwnedBefore
    <3>2. above(c, p) = c[Owner(p)].chain
      BY <2>3 DEF above, ownerChain, Owner
    <3>3. QED BY <1>6, <2>3, <3>1, <3>2
  <2>4. QED BY <2>2, <2>3
<1>9. QED BY <1>5, <1>6, <1>7, <1>8 DEF a

-----------------------------------------------------------------------------
(***************************************************************************)
(* compileDefinition accepts what is well declared.                        *)
(***************************************************************************)
Fits(n) ==
  /\ OwnedBefore(n)
  /\ families[n].declaresObservation => families[n].observes
  /\ \A r \in DOMAIN families[n].requires :
       /\ families[n].requires[r] \in 1 .. (n - 1)
       /\ Determined(families[n].requires[r], n)

\* c is the compiled form of the first families, all of which fit.
Good(c) ==
  /\ Listed(c)
  /\ \A k \in DOMAIN c : Fits(k) /\ c[k] = CompiledFamily(families, c, k)

LEMMA WellDeclaredFits == WellDeclared <=> \A n \in Declared : Fits(n)
BY DEF WellDeclared, Fits, OwnedBefore

LEMMA GoodIsChained ==
  ASSUME NEW c, Good(c)
  PROVE  Chained(c)
<1>1. \A k : CompiledFamily(families, c, k).chain = Append(above(c, k), k)
  BY DEF CompiledFamily, above
<1>2. QED BY <1>1 DEF Good, Fits, Chained

LEMMA RequirementIsRight ==
  ASSUME Typed, NEW c, Listed(c), Chained(c),
         NEW n \in Declared, n - 1 = Len(c), OwnedBefore(n),
         NEW p \in (Nat \ {NoOwner}) \cup {Foreign}
  PROVE  RequirementError(families, c, above(c, n), n, p) = "ok"
           <=> p \in 1 .. (n - 1) /\ Determined(p, n)
<1>1. n \in Nat
  BY FamiliesAre
<1>2. CASE p = Foreign
  BY <1>1, <1>2, DefinitionAssumption DEF RequirementError
<1>3. CASE p # Foreign /\ p >= n
  BY <1>1, <1>3 DEF RequirementError
<1>4. CASE p # Foreign /\ ~(p >= n)
  <2>1. p \in 1 .. (n - 1)
    BY <1>1, <1>4 DEF NoOwner
  <2>2. /\ IsPrefix(c[p].chain, above(c, n)) <=> p \in Above[n]
        /\ IsPrefix(Front(c[p].chain), above(c, n)) <=> Owner(p) \in Above[n] \cup {NoOwner}
    <3>1. n - 1 <= Len(c)
      BY <1>1, ListedIs
    <3>2. QED BY <2>1, <3>1, PrefixIsAbove
  <2>3. Determined(p, n) <=>
          \/ IsPrefix(c[p].chain, above(c, n))
          \/ families[p].cardinality = "one" /\ IsPrefix(Front(c[p].chain), above(c, n))
    BY <2>2 DEF Determined
  <2>4. QED BY <1>4, <2>1, <2>3 DEF RequirementError
<1>5. QED BY <1>2, <1>3, <1>4

LEMMA DeclarationIsRight ==
  ASSUME Typed, NEW c, Good(c), NEW n \in Declared, n - 1 = Len(c)
  PROVE  DeclarationError(families, c, n) = "ok" <=> Fits(n)
<1> DEFINE h == families[n]
           a == above(c, n)
           verdict(r) == RequirementError(families, c, a, n, h.requires[r])
           wrong == {r \in DOMAIN h.requires : verdict(r) # "ok"}
<1>1. n \in Nat /\ n >= 1 /\ h \in Declaration
  BY FamiliesAre
<1>2. /\ h.owner \in Nat \cup {Foreign} /\ h.observes \in BOOLEAN
      /\ h.requires \in Seq((Nat \ {NoOwner}) \cup {Foreign})
  BY <1>1 DEF Declaration
<1>3. /\ DOMAIN h.requires \subseteq Nat
      /\ \A r \in DOMAIN h.requires : h.requires[r] \in (Nat \ {NoOwner}) \cup {Foreign}
  BY <1>2
<1>4. Owner(n) = h.owner
  BY DEF Owner
<1>5. CASE ~OwnedBefore(n)
  <2>1. h.owner = Foreign \/ (h.owner # Foreign /\ h.owner # NoOwner /\ h.owner >= n)
    BY <1>1, <1>2, <1>4, <1>5 DEF OwnedBefore, NoOwner
  <2>2. DeclarationError(families, c, n) # "ok"
    BY <2>1 DEF DeclarationError
  <2>3. QED BY <1>5, <2>2 DEF Fits
<1>6. CASE OwnedBefore(n)
  <2>1. h.owner # Foreign /\ ~(h.owner # NoOwner /\ h.owner >= n)
    BY <1>1, <1>4, <1>6, DefinitionAssumption DEF OwnedBefore, NoOwner
  <2>2. RequirementsError(families, c, a, n) = IF wrong = {} THEN "ok" ELSE verdict(Min(wrong))
    BY DEF RequirementsError
  <2>3. wrong # {} => Min(wrong) \in wrong
    <3>1. wrong \in SUBSET Nat
      BY <1>3
    <3> HIDE DEF wrong
    <3>2. QED BY <3>1, MinIsLeast
  <2>4. wrong # {} => verdict(Min(wrong)) # "ok"
    BY <2>3
  <2>5. RequirementsError(families, c, a, n) = "ok" <=> wrong = {}
    <3> HIDE DEF wrong, verdict, a
    <3>1. QED BY <2>2, <2>4
  <2>6. \A r \in DOMAIN h.requires :
          verdict(r) = "ok" <=> h.requires[r] \in 1 .. (n - 1) /\ Determined(h.requires[r], n)
    <3>1. Listed(c) /\ Chained(c)
      BY GoodIsChained DEF Good
    <3>2. QED BY <1>3, <1>6, <3>1, RequirementIsRight
  <2>7. wrong = {} <=> \A r \in DOMAIN h.requires :
                         h.requires[r] \in 1 .. (n - 1) /\ Determined(h.requires[r], n)
    <3> HIDE DEF verdict
    <3>1. QED BY <2>6
  <2>8. DeclarationError(families, c, n) =
          IF h.declaresObservation /\ ~h.observes THEN "ObservationRequired"
          ELSE RequirementsError(families, c, a, n)
    BY <2>1 DEF DeclarationError, above
  <2> HIDE DEF wrong, h, a
  <2>9. DeclarationError(families, c, n) = "ok"
          <=> (h.declaresObservation => h.observes) /\ wrong = {}
    BY <2>5, <2>8
  <2>10. QED BY <1>6, <2>7, <2>9 DEF Fits, h
<1>7. QED BY <1>5, <1>6

\* What is listed in a sequence that has grown.
LEMMA ListedGrows ==
  ASSUME Typed, NEW c, Listed(c), NEW x, Len(c) + 1 <= Len(families)
  PROVE  /\ Listed(Append(c, x)) /\ Len(Append(c, x)) = Len(c) + 1
         /\ DOMAIN Append(c, x) = 1 .. Len(c) + 1
         /\ Append(c, x)[Len(c) + 1] = x
         /\ \A k \in 1 .. Len(c) : Append(c, x)[k] = c[k]
<1> DEFINE L == Len(c)
           U == Range(c) \cup {x}
           t == Append(c, x)
<1>1. c \in Seq(Range(c)) /\ L \in Nat
  BY DEF Listed
<1>2. /\ Len(t) = L + 1 /\ t[L + 1] = x /\ Range(t) = U
      /\ \A k \in 1 .. L : t[k] = c[k]
  BY <1>1, AppendIs
<1>3. c \in Seq(U) /\ x \in U
  BY <1>1, SeqMonotonic
<1>4. t \in Seq(U)
  <2> HIDE DEF U
  <2>1. QED BY <1>3, AppendProperties
<1>5. DOMAIN t = 1 .. L + 1
  <2> HIDE DEF U, t
  <2>1. QED BY <1>2, <1>4
<1> HIDE DEF t, U
<1>6. Listed(t)
  BY <1>2, <1>4 DEF Listed
<1>7. QED BY <1>2, <1>5, <1>6 DEF t

\* What is compiled already stays as it is when another family is.
LEMMA CompiledStays ==
  ASSUME Typed, NEW c, NEW e, NEW k \in Declared, Fits(k),
         \A j \in 1 .. (k - 1) : e[j] = c[j]
  PROVE  CompiledFamily(families, e, k) = CompiledFamily(families, c, k)
<1> DEFINE h == families[k]
<1>1. ownerChain(families, e, k) = ownerChain(families, c, k)
  BY DEF ownerChain, Fits, OwnedBefore, Owner
<1>2. \A r \in DOMAIN h.requires : e[h.requires[r]] = c[h.requires[r]]
  BY DEF Fits
<1>3. \A r \in DOMAIN h.requires :
        Resolve(e, ownerChain(families, e, k), h.requires[r])
          = Resolve(c, ownerChain(families, c, k), h.requires[r])
  BY <1>1, <1>2 DEF Resolve
<1>4. [r \in DOMAIN h.requires |-> Resolve(e, ownerChain(families, e, k), h.requires[r])]
        = [r \in DOMAIN h.requires |-> Resolve(c, ownerChain(families, c, k), h.requires[r])]
  BY <1>3
<1>5. QED BY <1>1, <1>4 DEF CompiledFamily

LEMMA GoodGrows ==
  ASSUME Typed, NEW c, Good(c), NEW n \in Declared, n - 1 = Len(c), Fits(n)
  PROVE  LET e == Append(c, CompiledFamily(families, c, n)) IN Good(e) /\ Len(e) = n
<1> DEFINE x == CompiledFamily(families, c, n)
           e == Append(c, x)
           L == Len(c)
<1>1. Listed(c) /\ L \in Nat /\ DOMAIN c = 1 .. L /\ n = L + 1 /\ n <= Len(families)
  BY ListedIs, FamiliesAre DEF Good
<1>2. /\ Listed(e) /\ Len(e) = n /\ DOMAIN e = 1 .. n /\ e[n] = x
      /\ \A k \in 1 .. L : e[k] = c[k]
  BY <1>1, ListedGrows
<1> HIDE DEF e
<1>3. ASSUME NEW k \in 1 .. n PROVE Fits(k) /\ e[k] = CompiledFamily(families, e, k)
  <2>1. /\ k = n \/ k \in 1 .. L
        /\ \A j \in 1 .. (k - 1) : j \in 1 .. L
        /\ k \in Declared
    BY <1>1, FamiliesAre
  <2>2. Fits(k) /\ e[k] = CompiledFamily(families, c, k)
    <3> HIDE DEF L
    <3>1. CASE k = n
      BY <1>2, <3>1
    <3>2. CASE k \in 1 .. L
      BY <1>1, <1>2, <3>2 DEF Good
    <3>3. QED BY <2>1, <3>1, <3>2
  <2>3. \A j \in 1 .. (k - 1) : e[j] = c[j]
    BY <1>2, <2>1
  <2>4. QED BY <2>1, <2>2, <2>3, CompiledStays
<1>4. Good(e)
  BY <1>2, <1>3 DEF Good
<1>5. QED BY <1>2, <1>4 DEF e

LEMMA CompileIs ==
  ASSUME Typed
  PROVE  /\ Accepted <=> WellDeclared
         /\ Accepted => Good(Compiled) /\ Len(Compiled) = Len(families)
<1> DEFINE N == Len(families)
<1>1. N \in Nat /\ Declared = 1 .. N
  BY FamiliesAre
<1>2. PICK d : Compiles(d) /\ compileDefinition(families) = d[N]
  BY CompileRuns
<1>3. d[0] = Start /\ \A n \in 1 .. N : d[n] = compileFamily(families, d[n - 1], n)
  BY <1>1, <1>2 DEF Compiles
<1> DEFINE stage(n) ==
             /\ d[n] = [error |-> d[n].error, compiled |-> d[n].compiled]
             /\ IF d[n].error = Ok THEN Good(d[n].compiled) /\ Len(d[n].compiled) = n
                ELSE \E k \in Declared : ~Fits(k)
           T == {n \in 0 .. N : stage(n)}
<1>4. ASSUME NEW n \in 0 .. N, \A j \in 0 .. N : j < n => j \in T PROVE n \in T
  <2>1. CASE n = 0
    <3>1. d[0].error = Ok /\ d[0].compiled = << >>
          /\ d[0] = [error |-> d[0].error, compiled |-> d[0].compiled]
      BY <1>3 DEF Start
    <3>2. Good(<< >>)
      BY <1>1 DEF Good, Listed, Range
    <3>3. Len(<< >>) = 0
      OBVIOUS
    <3>4. stage(0)
      BY <3>1, <3>2, <3>3
    <3>5. QED BY <2>1, <3>4
  <2>2. CASE n # 0
    <3> DEFINE e == d[n - 1]
               c == e.compiled
               wrong == DeclarationError(families, c, n)
    <3>1. n - 1 \in 0 .. N /\ n - 1 < n /\ n \in 1 .. N /\ n \in Declared
      BY <1>1, <2>2
    <3>2. stage(n - 1)
      BY <1>4, <3>1
    <3>3. d[n] = IF e.error # Ok THEN e
                 ELSE IF wrong # "ok" THEN [e EXCEPT !.error = Refused(wrong, n)]
                 ELSE [e EXCEPT !.compiled = Append(@, CompiledFamily(families, c, n))]
      BY <1>3, <3>1 DEF compileFamily
    <3>4. e = [error |-> e.error, compiled |-> c]
      BY <3>2
    <3>5. CASE e.error # Ok
      <4>1. d[n] = e
        BY <3>3, <3>5
      <4>2. stage(n)
        BY <3>2, <3>5, <4>1
      <4>3. QED BY <4>2
    <3>6. CASE e.error = Ok
      <4>1. Good(c) /\ Len(c) = n - 1
        BY <3>2, <3>6
      <4>2. wrong = "ok" <=> Fits(n)
        BY <3>1, <4>1, DeclarationIsRight
      <4>3. CASE wrong # "ok"
        <5>1. d[n] = [error |-> Refused(wrong, n), compiled |-> c]
          BY <3>3, <3>4, <3>6, <4>3
        <5>2. Refused(wrong, n) # Ok
          BY <4>3 DEF Refused, Ok
        <5> HIDE DEF c, wrong
        <5>3. stage(n)
          BY <3>1, <4>2, <4>3, <5>1, <5>2
        <5>4. QED BY <5>3
      <4>4. CASE wrong = "ok"
        <5> DEFINE g == Append(c, CompiledFamily(families, c, n))
        <5>1. d[n] = [error |-> Ok, compiled |-> g]
          BY <3>3, <3>4, <3>6, <4>4
        <5>2. Good(g) /\ Len(g) = n
          BY <3>1, <4>1, <4>2, <4>4, GoodGrows
        <5> HIDE DEF g
        <5>3. stage(n)
          BY <5>1, <5>2
        <5>4. QED BY <5>3
      <4>5. QED BY <4>3, <4>4
    <3>7. QED BY <3>5, <3>6
  <2>3. QED BY <2>1, <2>2
<1>5. stage(N)
  <2> HIDE DEF T
  <2>1. \A n \in 0 .. N : n \in T
    BY <1>1, <1>4, FromBelow
  <2>2. N \in T
    BY <1>1, <2>1
  <2>3. QED BY <2>2 DEF T
<1>6. Accepted <=> d[N].error = Ok
  BY <1>2 DEF Accepted
<1>7. Compiled = d[N].compiled
  BY <1>2 DEF Compiled
<1>8. CASE Accepted
  <2>1. Good(Compiled) /\ Len(Compiled) = N
    BY <1>5, <1>6, <1>7, <1>8
  <2>2. DOMAIN Compiled = Declared
    BY <1>1, <2>1, ListedIs DEF Good
  <2>3. \A n \in Declared : Fits(n)
    BY <2>1, <2>2 DEF Good
  <2>4. QED BY <1>8, <2>1, <2>3, WellDeclaredFits
<1>9. CASE ~Accepted
  <2>1. \E k \in Declared : ~Fits(k)
    BY <1>5, <1>6, <1>9
  <2>2. QED BY <1>9, <2>1, WellDeclaredFits
<1>10. QED BY <1>8, <1>9

-----------------------------------------------------------------------------
(***************************************************************************)
(* compileBinding accepts what is bound once.                              *)
(***************************************************************************)
Entries ==
  /\ entries \in Seq(Range(entries))
  /\ \A e \in DOMAIN entries : /\ entries[e].handle = Foreign \/ entries[e].handle \in Declared
                               /\ entries[e].observe \in BOOLEAN

\* The entries that bind n.
boundTo(n) == {e \in DOMAIN entries : entries[e].handle = n}

LEMMA EntriesAreRight ==
  ASSUME Typed, Entries, \A e \in DOMAIN entries : EntryError(families, entries, e) = "ok"
  PROVE  /\ \A e \in DOMAIN entries :
              /\ entries[e].handle \in Declared
              /\ entries[e].cardinality = families[entries[e].handle].cardinality
         /\ \A d, e \in DOMAIN entries : entries[d].handle = entries[e].handle => d = e
<1>1. Len(entries) \in Nat /\ DOMAIN entries = 1 .. Len(entries)
  BY DEF Entries
<1>2. ASSUME NEW e \in DOMAIN entries
      PROVE  /\ entries[e].handle # Foreign
             /\ families[entries[e].handle].cardinality = entries[e].cardinality
             /\ \A d \in 1 .. (e - 1) : entries[d].handle # entries[e].handle
  <2>1. EntryError(families, entries, e) = "ok"
    OBVIOUS
  <2>2. QED BY <2>1 DEF EntryError
<1>3. ASSUME NEW d \in DOMAIN entries, NEW e \in DOMAIN entries,
             entries[d].handle = entries[e].handle
      PROVE  d = e
  <2>1. d \in Nat /\ e \in Nat /\ d >= 1 /\ e >= 1
    BY <1>1
  <2>2. d < e => d \in 1 .. (e - 1)
    BY <2>1
  <2>3. e < d => e \in 1 .. (d - 1)
    BY <2>1
  <2>4. ~(d < e) /\ ~(e < d)
    BY <1>2, <1>3, <2>2, <2>3
  <2>5. QED BY <2>1, <2>4
<1>4. QED BY <1>2, <1>3 DEF Entries

LEMMA FamiliesAreBound ==
  ASSUME Typed, Entries, NEW c, Good(c), NEW n \in DOMAIN c
  PROVE  FamilyError(c, entries, n) = "ok"
           <=> boundTo(n) # {} /\ \A e \in boundTo(n) : entries[e].observe = families[n].observes
<1>1. n \in Declared /\ families[n].observes \in BOOLEAN
  BY ListedIs, FamiliesAre DEF Good, Declaration
<1>2. c[n].observes = families[n].observes
  BY DEF Good, CompiledFamily
<1>3. \A e \in boundTo(n) : entries[e].observe \in BOOLEAN
  BY DEF Entries, boundTo
<1>4. FamilyError(c, entries, n) = "ok"
        <=> /\ boundTo(n) # {}
            /\ ~(families[n].observes /\ \E e \in boundTo(n) : ~entries[e].observe)
            /\ ~(~families[n].observes /\ \E e \in boundTo(n) : entries[e].observe)
  BY <1>2 DEF FamilyError, boundTo
<1>5. QED BY <1>1, <1>3, <1>4

LEMMA BindingIs ==
  ASSUME Typed, Entries, NEW c, Good(c), Len(c) = Len(families)
  PROVE  compileBinding(families, c, entries) = Ok <=> BoundOnce
<1> DEFINE wrongEntries == {e \in DOMAIN entries : EntryError(families, entries, e) # "ok"}
           wrongFamilies == {n \in DOMAIN c : FamilyError(c, entries, n) # "ok"}
<1>1. DOMAIN entries \subseteq Nat
  BY DEF Entries
<1>2. DOMAIN c = Declared /\ Declared \subseteq Nat
  BY ListedIs, FamiliesAre DEF Good
<1>3. compileBinding(families, c, entries) =
        IF wrongEntries # {}
          THEN Refused(EntryError(families, entries, Min(wrongEntries)), Min(wrongEntries))
        ELSE IF wrongFamilies # {}
          THEN Refused(FamilyError(c, entries, Min(wrongFamilies)), Min(wrongFamilies))
        ELSE Ok
  BY DEF compileBinding
<1>4. wrongEntries # {} => EntryError(families, entries, Min(wrongEntries)) # "ok"
  <2> DEFINE W == wrongEntries
  <2>1. W \in SUBSET Nat
    BY <1>1
  <2>2. W # {} => Min(W) \in W
    <3> HIDE DEF W
    <3>1. QED BY <2>1, MinIsLeast
  <2>3. QED BY <2>2
<1>5. wrongFamilies # {} => FamilyError(c, entries, Min(wrongFamilies)) # "ok"
  <2> DEFINE W == wrongFamilies
  <2>1. W \in SUBSET Nat
    BY <1>2
  <2>2. W # {} => Min(W) \in W
    <3> HIDE DEF W
    <3>1. QED BY <2>1, MinIsLeast
  <2>3. QED BY <2>2
<1>6. \A w, x : w # "ok" => Refused(w, x) # Ok
  BY DEF Refused, Ok
<1>7. compileBinding(families, c, entries) = Ok <=> wrongEntries = {} /\ wrongFamilies = {}
  <2> HIDE DEF wrongEntries, wrongFamilies
  <2>1. QED BY <1>3, <1>4, <1>5, <1>6
<1>8. ASSUME wrongEntries = {}, wrongFamilies = {} PROVE BoundOnce
  <2>1. /\ \A e \in DOMAIN entries :
             /\ entries[e].handle \in Declared
             /\ entries[e].cardinality = families[entries[e].handle].cardinality
        /\ \A d, e \in DOMAIN entries : entries[d].handle = entries[e].handle => d = e
    BY <1>8, EntriesAreRight
  <2>2. ASSUME NEW n \in Declared
        PROVE  \E e \in DOMAIN entries :
                 /\ {d \in DOMAIN entries : entries[d].handle = n} = {e}
                 /\ entries[e].cardinality = families[n].cardinality
                 /\ entries[e].observe = families[n].observes
    <3>1. boundTo(n) # {} /\ \A e \in boundTo(n) : entries[e].observe = families[n].observes
      BY <1>2, <1>8, FamiliesAreBound
    <3>2. PICK e \in DOMAIN entries : entries[e].handle = n
      BY <3>1 DEF boundTo
    <3>3. {d \in DOMAIN entries : entries[d].handle = n} = {e}
      BY <2>1, <3>2
    <3>4. QED BY <2>1, <3>1, <3>2, <3>3 DEF boundTo
  <2>3. QED BY <2>1, <2>2 DEF BoundOnce
<1>9. ASSUME BoundOnce PROVE wrongEntries = {} /\ wrongFamilies = {}
  <2>1. ASSUME NEW e \in DOMAIN entries PROVE EntryError(families, entries, e) = "ok"
    <3> DEFINE n == entries[e].handle
    <3>1. n \in Declared
      BY <1>9 DEF BoundOnce
    <3>2. PICK x \in DOMAIN entries :
             /\ {d \in DOMAIN entries : entries[d].handle = n} = {x}
             /\ entries[x].cardinality = families[n].cardinality
      BY <1>9, <3>1 DEF BoundOnce
    <3>3. x = e /\ \A d \in DOMAIN entries : entries[d].handle = n => d = e
      BY <3>2
    <3>4. n # Foreign
      BY <1>2, <3>1, DefinitionAssumption
    <3>5. Len(entries) \in Nat /\ DOMAIN entries = 1 .. Len(entries)
      BY DEF Entries
    <3>6. \A d \in 1 .. (e - 1) : d \in DOMAIN entries /\ d # e
      BY <3>5
    <3>7. ~ \E d \in 1 .. (e - 1) : entries[d].handle = entries[e].handle
      BY <3>3, <3>6
    <3>8. QED BY <3>2, <3>3, <3>4, <3>7 DEF EntryError
  <2>2. ASSUME NEW n \in Declared PROVE FamilyError(c, entries, n) = "ok"
    <3>1. PICK x \in DOMAIN entries :
             /\ {d \in DOMAIN entries : entries[d].handle = n} = {x}
             /\ entries[x].observe = families[n].observes
      BY <1>9 DEF BoundOnce
    <3>2. boundTo(n) = {x}
      BY <3>1 DEF boundTo
    <3>3. QED BY <1>2, <3>1, <3>2, FamiliesAreBound
  <2>3. QED BY <1>2, <2>1, <2>2
<1>10. QED BY <1>7, <1>8, <1>9

-----------------------------------------------------------------------------
(***************************************************************************)
(* What is accepted is what the other modules assume.                      *)
(***************************************************************************)
ChainBy(h, f) == IF Owner(f) = NoOwner THEN <<f>> ELSE Append(h[Owner(f)], f)

LEMMA TopoChainIs ==
  ASSUME Typed, Accepted
  PROVE  \A f \in Declared : Topo!Chain[f] = Compiled[f].chain
<1> DEFINE c == Compiled
           N == Len(families)
           w == [f \in Declared |-> c[f].chain]
<1>1. N \in Nat /\ Declared = 1 .. N
  BY FamiliesAre
<1>2. Good(c) /\ Len(c) = N
  BY CompileIs
<1>3. Chained(c) /\ DOMAIN c = Declared
  BY <1>1, <1>2, GoodIsChained, ListedIs DEF Good
<1>4. Topo!Chain = CHOOSE h : h = [f \in Declared |-> ChainBy(h, f)]
  BY <1>1 DEF Topo!Chain, Topo!Family, ChainBy, NoOwner
<1> HIDE DEF c
<1>5. ASSUME NEW f \in Declared
      PROVE  c[f].chain = ChainBy(w, f) /\ Owner(f) \in {NoOwner} \cup 1 .. (f - 1)
  <2>1. OwnedBefore(f) /\ c[f].chain = Append(above(c, f), f)
    BY <1>3 DEF Chained
  <2>2. CASE Owner(f) = NoOwner
    <3>1. above(c, f) = << >>
      BY <2>2 DEF above, ownerChain, Owner
    <3>2. Append(<< >>, f) = <<f>>
      OBVIOUS
    <3>3. QED BY <2>1, <2>2, <3>1, <3>2 DEF ChainBy, OwnedBefore
  <2>3. CASE Owner(f) # NoOwner
    <3>1. Owner(f) \in Declared
      BY <1>1, <2>1, <2>3 DEF OwnedBefore
    <3>2. above(c, f) = w[Owner(f)]
      BY <2>3, <3>1 DEF above, ownerChain, Owner
    <3> HIDE DEF w
    <3>3. QED BY <2>1, <2>3, <3>2 DEF ChainBy, OwnedBefore
  <2>4. QED BY <2>2, <2>3
<1>6. w = [f \in Declared |-> ChainBy(w, f)]
  BY <1>5
<1> HIDE DEF w
<1>7. Topo!Chain = [f \in Declared |-> ChainBy(Topo!Chain, f)]
  BY <1>4, <1>6
<1> DEFINE T == {k \in 0 .. N : k \in Declared => Topo!Chain[k] = w[k]}
<1>8. ASSUME NEW k \in 0 .. N, \A j \in 0 .. N : j < k => j \in T PROVE k \in T
  <2> SUFFICES ASSUME k \in Declared PROVE Topo!Chain[k] = w[k]
    OBVIOUS
  <2>1. Topo!Chain[k] = ChainBy(Topo!Chain, k) /\ w[k] = ChainBy(w, k)
    BY <1>6, <1>7
  <2>2. CASE Owner(k) = NoOwner
    BY <2>1, <2>2 DEF ChainBy
  <2>3. CASE Owner(k) # NoOwner
    <3>1. Owner(k) \in 0 .. N /\ Owner(k) < k /\ Owner(k) \in Declared
      BY <1>1, <1>5, <2>3
    <3>2. Topo!Chain[Owner(k)] = w[Owner(k)]
      BY <1>8, <3>1
    <3>3. QED BY <2>1, <2>3, <3>2 DEF ChainBy
  <2>4. QED BY <2>2, <2>3
<1>9. \A k \in 0 .. N : k \in T
  <2> HIDE DEF T
  <2>1. QED BY <1>1, <1>8, FromBelow
<1>10. \A f \in Declared : f \in 0 .. N
  BY <1>1
<1>11. QED BY <1>9, <1>10 DEF w, c

LEMMA AcceptedTopology ==
  ASSUME Typed, Accepted
  PROVE  Topo!WellFormed
<1> DEFINE c == Compiled
           N == Len(families)
<1>1. N \in Nat /\ Declared = 1 .. N
  BY FamiliesAre
<1>2. Good(c) /\ Len(c) = N
  BY CompileIs
<1>3. Listed(c) /\ Chained(c) /\ \A f \in Declared : Fits(f)
  BY <1>2, CompileIs, GoodIsChained, WellDeclaredFits DEF Good
<1>4. \A f \in Declared : Topo!Chain[f] = c[f].chain
  BY TopoChainIs
<1> HIDE DEF c
<1>5. Topo!Family = Declared
  BY <1>1 DEF Topo!Family
<1>6. \A f \in Declared : Owner(f) \in Nat /\ Owner(f) < f
  BY <1>1, <1>3 DEF Fits, OwnedBefore, NoOwner
<1>7. \A f \in Declared : Range(families[f].requires) \subseteq 1 .. (f - 1)
  BY <1>3 DEF Fits, Range
<1>8. \A f \in Declared : 1 .. (f - 1) \subseteq Declared
  BY <1>1
<1>0. /\ \A s : Topo!Front(s) = Front(s)
      /\ \A s, t : Topo!IsPrefix(s, t) <=> IsPrefix(s, t)
  BY DEF Topo!Front, Front, Topo!IsPrefix, IsPrefix
<1>9. ASSUME NEW f \in Declared, NEW p \in Range(families[f].requires)
      PROVE  p < f /\ (Topo!IsAncestor(p, f) \/ Topo!IsCollateral(p, f))
  <2>1. p \in 1 .. (f - 1) /\ p \in Declared /\ f \in 1 .. N /\ p < f
    <3>1. p \in 1 .. (f - 1) /\ p \in Declared /\ f \in 1 .. N
      BY <1>1, <1>7, <1>8
    <3> HIDE DEF N
    <3>2. f \in Nat
      BY <3>1, <1>1
    <3>3. QED BY <3>1, <3>2
  <2>2. Determined(p, f)
    BY <1>3, <1>9 DEF Fits, Range
  <2>3. /\ IsPrefix(c[p].chain, above(c, f)) <=> p \in Above[f]
        /\ IsPrefix(Front(c[p].chain), above(c, f)) <=> Owner(p) \in Above[f] \cup {NoOwner}
    <3>1. f - 1 <= Len(c) /\ OwnedBefore(f)
      BY <1>1, <1>2, <1>3, <2>1 DEF Fits
    <3>2. QED BY <1>3, <2>1, <3>1, PrefixIsAbove
  <2>4. Front(c[f].chain) = above(c, f)
    BY <1>2, <1>3, <2>1, ChainEnds
  <2>5. Topo!IsAncestor(p, f) <=> IsPrefix(c[p].chain, above(c, f))
    BY <1>0, <1>4, <2>1, <2>4 DEF Topo!IsAncestor, Topo!OwnerChain
  <2>6. Topo!IsCollateral(p, f) <=>
          /\ ~Topo!IsAncestor(p, f)
          /\ IsPrefix(Front(c[p].chain), above(c, f))
          /\ families[p].cardinality = "one"
    BY <1>0, <1>4, <2>1, <2>4 DEF Topo!IsCollateral, Topo!OwnerChain
  <2>7. QED BY <2>1, <2>2, <2>3, <2>5, <2>6 DEF Determined
<1>10. [n \in Declared |-> Owner(n)] \in [Declared -> Nat]
  BY <1>6
<1>11. [n \in Declared |-> Range(families[n].requires)] \in [Declared -> SUBSET Declared]
  BY <1>7, <1>8
<1>12. QED BY <1>1, <1>5, <1>6, <1>9, <1>10, <1>11 DEF Topo!WellFormed

LEMMA PrefixAgrees ==
  ASSUME NEW S, NEW s \in Seq(S), NEW a \in Seq(S), IsPrefix(s, a), s # << >>, NEW x
  PROVE  a[Len(s)] = s[Len(s)] /\ Append(a, x)[Len(s)] = s[Len(s)]
<1> DEFINE L == Len(s)
<1>1. L \in Nat /\ Len(a) \in Nat /\ L >= 1 /\ DOMAIN s = 1 .. L /\ DOMAIN a = 1 .. Len(a)
  BY EmptySeq
<1>2. L <= Len(a) /\ SubSeq(s, 1, L) = SubSeq(a, 1, L)
  BY DEF IsPrefix
<1>3. L \in 1 .. L /\ L \in 1 .. Len(a) /\ \A i \in 1 .. L : i \in 1 .. Len(a)
  BY <1>1, <1>2
<1> HIDE DEF L
<1>4. SubSeq(s, 1, L) = [i \in 1 .. L |-> s[i]] /\ SubSeq(a, 1, L) = [i \in 1 .. L |-> a[i]]
  BY <1>1, <1>2, <1>3 DEF L
<1>5. s[L] = a[L]
  <2>1. SubSeq(s, 1, L)[L] = s[L] /\ SubSeq(a, 1, L)[L] = a[L]
    BY <1>3, <1>4
  <2>2. QED BY <1>2, <2>1
<1>6. Append(a, x)[L] = a[L]
  BY <1>3, AppendIs
<1>7. QED BY <1>5, <1>6 DEF L

LEMMA AcceptedArrives ==
  ASSUME Typed, Accepted
  PROVE  RequirementsArrive
<1> DEFINE c == Compiled
           N == Len(families)
<1>1. N \in Nat /\ Declared = 1 .. N
  BY FamiliesAre
<1>2. Good(c) /\ Len(c) = N
  BY CompileIs
<1>3. Listed(c) /\ Chained(c) /\ DOMAIN c = Declared /\ \A f \in Declared : Fits(f)
  BY <1>1, <1>2, CompileIs, GoodIsChained, WellDeclaredFits, ListedIs DEF Good
<1> HIDE DEF c
<1>4. SUFFICES ASSUME NEW n \in Declared, NEW r \in DOMAIN families[n].requires
               PROVE  LET q == c[n].requires[r]
                          at == IF q.depth = 0 THEN NoOwner ELSE c[n].chain[q.depth]
                      IN /\ q.family = families[n].requires[r]
                         /\ at = IF q.kind = "ancestor" THEN q.family ELSE Owner(q.family)
  BY DEF RequirementsArrive, c
<1> DEFINE p == families[n].requires[r]
           a == above(c, n)
           b == above(c, p)
           s == c[p].chain
           q == c[n].requires[r]
           at == IF q.depth = 0 THEN NoOwner ELSE c[n].chain[q.depth]
<1>5. p \in 1 .. (n - 1) /\ Determined(p, n) /\ OwnedBefore(n) /\ OwnedBefore(p)
  <2>1. p \in 1 .. (n - 1) /\ Determined(p, n) /\ OwnedBefore(n)
    BY <1>3 DEF Fits
  <2>2. p \in Declared
    BY <1>1, <2>1
  <2>3. QED BY <1>3, <2>1, <2>2 DEF Fits
<1>6. q = Resolve(c, a, p) /\ c[n].chain = Append(a, n)
  <2>1. c[n] = CompiledFamily(families, c, n)
    BY <1>2, <1>3 DEF Good, c
  <2>2. QED BY <2>1 DEF CompiledFamily, above
<1> HIDE DEF p
<1>7. /\ n - 1 <= Len(c) /\ p \in 1 .. N /\ n \in 1 .. N
      /\ 1 .. p \subseteq 1 .. N /\ 1 .. (n - 1) \subseteq 1 .. N
  BY <1>1, <1>2, <1>5 DEF c
<1>8. /\ a \in Seq(1 .. N)
      /\ Front(s) = b
      /\ IsPrefix(s, a) <=> p \in Above[n]
      /\ IsPrefix(b, a) <=> Owner(p) \in Above[n] \cup {NoOwner}
  <2>1. /\ a \in Seq(1 .. (n - 1)) /\ Front(s) = b
        /\ IsPrefix(s, a) <=> p \in Above[n]
        /\ IsPrefix(Front(s), a) <=> Owner(p) \in Above[n] \cup {NoOwner}
    BY <1>3, <1>5, <1>7, PrefixIsAbove
  <2>2. a \in Seq(1 .. N)
    BY <1>7, <2>1, SeqMonotonic
  <2>3. QED BY <2>1, <2>2
<1>9. /\ b \in Seq(1 .. N) /\ s \in Seq(1 .. N)
      /\ Len(s) = Len(b) + 1 /\ Len(b) \in Nat /\ s[Len(s)] = p
  <2>1. /\ b \in Seq(1 .. p) /\ s \in Seq(1 .. p)
        /\ Len(s) = Len(b) + 1 /\ Len(b) \in Nat /\ s[Len(b) + 1] = p
    BY <1>2, <1>3, <1>7, ChainEnds DEF c
  <2>2. QED BY <1>7, <2>1, SeqMonotonic
<1> HIDE DEF a, s, q
<1>10. CASE IsPrefix(s, a)
  <2>1. q.family = p /\ q.kind = "ancestor" /\ q.depth = Len(s)
    BY <1>6, <1>10 DEF Resolve, s
  <2>2. s # << >>
    BY <1>9
  <2>3. Append(a, n)[Len(s)] = p
    BY <1>8, <1>9, <1>10, <2>2, PrefixAgrees
  <2>4. q.depth # 0
    BY <1>9, <2>1
  <2>5. at = p
    BY <1>6, <2>1, <2>3, <2>4
  <2>6. QED BY <2>1, <2>5 DEF p, q
<1>11. CASE ~IsPrefix(s, a)
  <2>1. q.family = p /\ q.kind = "collateral" /\ q.depth = Len(b)
    BY <1>6, <1>9, <1>11 DEF Resolve, s
  <2>2. IsPrefix(b, a)
    BY <1>5, <1>8, <1>11 DEF Determined
  <2>3. CASE Owner(p) = NoOwner
    <3>1. b = << >>
      BY <2>3 DEF above, ownerChain, Owner
    <3>2. q.depth = 0
      BY <2>1, <3>1
    <3>3. at = NoOwner
      BY <3>2
    <3>4. QED BY <2>1, <2>3, <3>3 DEF p, q
  <2>4. CASE Owner(p) # NoOwner
    <3> DEFINE o == Owner(p)
    <3>1. o \in 1 .. N
      BY <1>7, <1>5, <2>4 DEF OwnedBefore
    <3>2. b = c[o].chain
      BY <2>4 DEF above, ownerChain, Owner
    <3>3. /\ Len(c[o].chain) = Len(above(c, o)) + 1 /\ Len(above(c, o)) \in Nat
          /\ c[o].chain[Len(above(c, o)) + 1] = o
      BY <1>2, <1>3, <3>1, ChainEnds DEF c
    <3>4. b[Len(b)] = o /\ Len(b) # 0 /\ b # << >>
      <4>1. b[Len(b)] = o /\ Len(b) # 0
        BY <3>2, <3>3
      <4>2. QED BY <4>1
    <3> HIDE DEF b, o
    <3>5. Append(a, n)[Len(b)] = o
      BY <1>8, <1>9, <2>2, <3>4, PrefixAgrees
    <3>6. at = o
      BY <1>6, <2>1, <3>4, <3>5
    <3>7. QED BY <2>1, <3>6 DEF p, q, o
  <2>5. QED BY <2>3, <2>4
<1>12. QED BY <1>10, <1>11

-----------------------------------------------------------------------------
(***************************************************************************)
(* What make answers.                                                      *)
(***************************************************************************)
Answer ==
  LET c == compileDefinition(families) IN
  IF c.error # Ok THEN c.error ELSE compileBinding(families, c.compiled, entries)

\* Declarations and entries keep their types, and what was answered is the answer
\* for them.
DefinitionInv ==
  /\ Typed
  /\ Entries
  /\ made.tag # "none" => made = Answer

LEMMA DefinitionStarts == Init => DefinitionInv
<1> SUFFICES ASSUME Init PROVE DefinitionInv
  OBVIOUS
<1>1. Typed
  BY DEF Init, Typed
<1>2. Entries
  BY DEF Init, Entries, Range
<1>3. QED BY <1>1, <1>2 DEF Init, DefinitionInv

LEMMA DefinitionSteps == DefinitionInv /\ [Next]_vars => DefinitionInv'
<1> SUFFICES ASSUME DefinitionInv, [Next]_vars PROVE DefinitionInv'
  OBVIOUS
<1>1. CASE makeHandle
  <2>1. PICK h \in Declarable[Len(families) + 1] : families' = Append(families, h)
    BY <1>1 DEF makeHandle
  <2>2. h \in Declaration
    <3>1. Len(families) + 1 \in DOMAIN Declarable
      BY <1>1, FamiliesAre, DefinitionAssumption DEF makeHandle, DefinitionInv
    <3>2. QED BY <2>1, <3>1, DefinitionAssumption
  <2>3. Typed'
    BY <2>1, <2>2, AppendProperties DEF Typed, DefinitionInv
  <2>4. Entries'
    BY <1>1 DEF makeHandle, Entries, Range
  <2>5. QED BY <1>1, <2>3, <2>4 DEF makeHandle, DefinitionInv
<1>2. CASE bind
  <2>1. PICK e \in Bindable : /\ e.handle = Foreign \/ e.handle \in DOMAIN families
                              /\ entries' = Append(entries, e)
    BY <1>2 DEF bind
  <2>2. Typed'
    BY <1>2 DEF bind, Typed, DefinitionInv
  <2>3. Entries'
    <3> DEFINE L == Len(entries)
               U == Range(entries) \cup {e}
               t == Append(entries, e)
    <3>1. entries \in Seq(Range(entries)) /\ L \in Nat /\ DOMAIN entries = 1 .. L
      BY DEF DefinitionInv, Entries
    <3>2. /\ t[L + 1] = e /\ Range(t) = U /\ Len(t) = L + 1
          /\ \A i \in 1 .. L : t[i] = entries[i]
      BY <3>1, AppendIs
    <3>3. entries \in Seq(U) /\ e \in U
      BY <3>1, SeqMonotonic
    <3>4. t \in Seq(U)
      <4> HIDE DEF U
      <4>1. QED BY <3>3, AppendProperties
    <3> HIDE DEF t, U
    <3>5. DOMAIN t = 1 .. L + 1 /\ \A i \in DOMAIN t : i \in 1 .. L \/ i = L + 1
      BY <3>1, <3>2, <3>4
    <3> HIDE DEF L
    <3>6. \A i \in DOMAIN t : /\ t[i].handle = Foreign \/ t[i].handle \in DOMAIN families
                              /\ t[i].observe \in BOOLEAN
      BY <2>1, <3>1, <3>2, <3>5, DefinitionAssumption DEF DefinitionInv, Entries, Declared
    <3>7. families' = families /\ entries' = t
      BY <1>2, <2>1 DEF bind, t
    <3>8. QED BY <3>2, <3>4, <3>6, <3>7 DEF Entries, Declared
  <2>4. QED BY <1>2, <2>2, <2>3 DEF bind, DefinitionInv
<1>3. CASE make
  <2>1. families' = families /\ entries' = entries /\ made' = Answer
    BY <1>3 DEF make, Answer
  <2>2. Typed' /\ Entries'
    BY <2>1 DEF Typed, Entries, Declared, DefinitionInv
  <2>3. Answer' = Answer
    BY <2>1 DEF Answer
  <2>4. QED BY <2>1, <2>2, <2>3 DEF DefinitionInv
<1>4. CASE Terminated \/ UNCHANGED vars
  <2>1. families' = families /\ entries' = entries /\ made' = made
    BY <1>4 DEF Terminated, vars
  <2>2. Typed' /\ Entries'
    BY <2>1 DEF Typed, Entries, Declared, DefinitionInv
  <2>3. Answer' = Answer
    BY <2>1 DEF Answer
  <2>4. QED BY <2>1, <2>2, <2>3 DEF DefinitionInv
<1>5. QED BY <1>1, <1>2, <1>3, <1>4 DEF Next

\* Whatever is declared and bound, in whatever order the calls come, the inputs of
\* `make` are well typed and its answer is about those it was given.
THEOREM DefinitionInvariant == Spec => []DefinitionInv
BY DefinitionStarts, DefinitionSteps, PTL DEF Spec

\* compileDefinition and compileBinding stop at the first error they meet, and yet
\* `make` accepts exactly the well-declared Definitions with exactly the complete
\* Bindings of those.
THEOREM MakeAcceptsTheWellDeclared == Spec => []MadeIffWellDeclared
<1>1. DefinitionInv => MadeIffWellDeclared
  <2> SUFFICES ASSUME DefinitionInv, made.tag # "none"
               PROVE  /\ Accepted <=> WellDeclared
                      /\ Accepted => (made = Ok <=> BoundOnce)
    BY DEF MadeIffWellDeclared
  <2>1. Accepted <=> WellDeclared
    BY CompileIs DEF DefinitionInv
  <2>2. ASSUME Accepted PROVE made = Ok <=> BoundOnce
    <3>1. made = compileBinding(families, Compiled, entries)
      BY <2>2 DEF DefinitionInv, Answer, Accepted, Compiled
    <3>2. Good(Compiled) /\ Len(Compiled) = Len(families)
      BY <2>2, CompileIs DEF DefinitionInv
    <3>3. compileBinding(families, Compiled, entries) = Ok <=> BoundOnce
      BY <3>2, BindingIs DEF DefinitionInv
    <3>4. QED BY <3>1, <3>3
  <2>3. QED BY <2>1, <2>2
<1>2. QED BY <1>1, DefinitionInvariant, PTL

\* Every Definition that compileDefinition accepts satisfies what Topology assumes of
\* it, and its compiled requirements lead resolveProvider where they should.
THEOREM AcceptedAlwaysWellFormed == Spec => []AcceptedIsWellFormed
<1>1. DefinitionInv => AcceptedIsWellFormed
  BY AcceptedTopology, AcceptedArrives DEF DefinitionInv, AcceptedIsWellFormed
<1>2. QED BY <1>1, DefinitionInvariant, PTL
=============================================================================
