-------------------------- MODULE EvaluationProofs ---------------------------
(***************************************************************************)
(* What evaluate answers, for every compiled Definition, whatever the      *)
(* selectors answer and whatever was evaluated before: the state's own     *)
(* desire, or an error exactly if some selector that is asked misbehaves.  *)
(***************************************************************************)
EXTENDS Evaluation, SequenceTheorems, FiniteSetTheorems, WellFoundedInduction, TLAPS

-----------------------------------------------------------------------------
(***************************************************************************)
(* What holds of a number once it holds of those below it holds of every   *)
(* number of a segment.                                                    *)
(***************************************************************************)
LEMMA FromBelow ==
  ASSUME NEW N \in Nat, NEW T,
         \A k \in 0 .. N : (\A j \in 0 .. N : j < k => j \in T) => k \in T
  PROVE  \A k \in 0 .. N : k \in T
<1> SUFFICES ASSUME NEW k \in 0 .. N, k \notin T PROVE FALSE
  OBVIOUS
<1> DEFINE U == {i \in 0 .. N : i \notin T}
           R == {ss \in Nat \X Nat : ss[1] < ss[2]}
<1>1. IsWellFoundedOn(R, Nat)
  BY NatLessThanWellFounded DEF OpToRel
<1>2. PICK n \in U : \A m \in U : n <= m
  <2>1. U \in SUBSET Nat /\ U # {}
    OBVIOUS
  <2> HIDE DEF R, U
  <2>2. \E n \in U : \A m \in U : <<m, n>> \notin R
    BY <1>1, <2>1, WFMin, Zenon
  <2>3. ASSUME NEW m \in Nat, NEW n \in Nat, <<m, n>> \notin R PROVE n <= m
    BY <2>3 DEF R
  <2>4. QED BY <2>1, <2>2, <2>3
<1>3. \A j \in 0 .. N : j < n => j \in T
  BY <1>2
<1>4. QED BY <1>2, <1>3

\* From stage to stage.
LEMMA ByStages ==
  ASSUME NEW N \in Nat, NEW T, 0 \in T, \A k \in 1 .. N : k - 1 \in T => k \in T
  PROVE  N \in T
<1>1. ASSUME NEW k \in 0 .. N, \A j \in 0 .. N : j < k => j \in T PROVE k \in T
  <2>1. CASE k = 0
    BY <2>1
  <2>2. CASE k # 0
    <3>1. k \in 1 .. N /\ k - 1 \in 0 .. N /\ k - 1 < k
      BY <2>2
    <3>2. QED BY <1>1, <3>1
  <2>3. QED BY <2>1, <2>2
<1>2. \A k \in 0 .. N : k \in T
  BY <1>1, FromBelow
<1>3. QED BY <1>2

-----------------------------------------------------------------------------
(***************************************************************************)
(* Chains and identities.                                                  *)
(***************************************************************************)
ChainBy(h, f) == IF OwnerId[f] = 0 THEN <<f>> ELSE Append(h[OwnerId[f]], f)

LEMMA FamiliesAre ==
  /\ NFamilies \in Nat /\ Family = 1 .. NFamilies
  /\ \A f \in Family : OwnerId[f] \in Nat /\ OwnerId[f] < f
                       /\ (OwnerId[f] # 0 => OwnerId[f] \in Family)
BY TopologyAssumption DEF WellFormed, Family

LEMMA ChainIs ==
  \A f \in Family : Chain[f] = ChainBy(Chain, f)
<1> DEFINE N == NFamilies
           Solves(h, m) == h = [f \in 1 .. m |-> ChainBy(h, f)]
           T == {m \in 0 .. N : \E h : Solves(h, m)}
<1>1. N \in Nat /\ Family = 1 .. N
  BY FamiliesAre
<1>2. 0 \in T
  <2> DEFINE h == [f \in 1 .. 0 |-> <<f>>]
  <2>1. h = [f \in 1 .. 0 |-> ChainBy(h, f)]
    OBVIOUS
  <2>2. Solves(h, 0)
    BY <2>1
  <2> HIDE DEF h, Solves
  <2>3. QED BY <1>1, <2>2
<1>3. ASSUME NEW m \in 1 .. N, m - 1 \in T PROVE m \in T
  <2>1. m \in Nat /\ m \in 0 .. N
    BY <1>1
  <2>2. PICK h : Solves(h, m - 1)
    BY <1>3
  <2> DEFINE g == [f \in 1 .. m |-> IF f < m THEN h[f] ELSE ChainBy(h, f)]
  <2>3. ASSUME NEW f \in 1 .. m PROVE g[f] = ChainBy(g, f)
    <3>1. f \in Family
      BY <1>1, <2>1
    <3>2. OwnerId[f] # 0 => OwnerId[f] \in 1 .. m /\ OwnerId[f] < m
      BY <1>1, <2>1, <3>1, FamiliesAre
    <3>3. OwnerId[f] # 0 => g[OwnerId[f]] = h[OwnerId[f]]
      BY <3>2
    <3>4. ChainBy(g, f) = ChainBy(h, f)
      BY <3>3 DEF ChainBy
    <3>5. CASE f < m
      <4>1. f \in 1 .. (m - 1)
        BY <2>1, <3>5
      <4>2. h[f] = ChainBy(h, f)
        BY <2>2, <4>1
      <4>3. QED BY <3>4, <3>5, <4>2
    <3>6. CASE ~(f < m)
      BY <3>4, <3>6
    <3>7. QED BY <3>5, <3>6
  <2>4. g = [f \in 1 .. m |-> ChainBy(g, f)]
    BY <2>3
  <2>5. Solves(g, m)
    BY <2>4
  <2> HIDE DEF g, Solves
  <2>6. QED BY <2>1, <2>5
<1>4. N \in T
  <2> HIDE DEF T
  <2>1. QED BY <1>1, <1>2, <1>3, ByStages
<1>5. \E h : h = [f \in Family |-> ChainBy(h, f)]
  BY <1>1, <1>4
<1>6. Chain = CHOOSE h : h = [f \in Family |-> ChainBy(h, f)]
  BY DEF Chain, ChainBy
<1>7. Chain = [f \in Family |-> ChainBy(Chain, f)]
  BY <1>5, <1>6
<1>8. QED BY <1>7

LEMMA ChainsList ==
  \A f \in Family : Chain[f] \in Seq(Family)
<1> DEFINE T == {k \in 0 .. NFamilies : k \in Family => Chain[k] \in Seq(Family)}
<1>1. ASSUME NEW k \in 0 .. NFamilies, \A j \in 0 .. NFamilies : j < k => j \in T
      PROVE  k \in T
  <2> SUFFICES ASSUME k \in Family PROVE Chain[k] \in Seq(Family)
    OBVIOUS
  <2>1. CASE OwnerId[k] = 0
    <3>1. Chain[k] = <<k>>
      BY <2>1, ChainIs DEF ChainBy
    <3>2. QED BY <3>1
  <2>2. CASE OwnerId[k] # 0
    <3>1. OwnerId[k] \in 0 .. NFamilies /\ OwnerId[k] < k /\ OwnerId[k] \in Family
      BY <2>2, FamiliesAre
    <3>2. Chain[OwnerId[k]] \in Seq(Family)
      BY <1>1, <3>1
    <3>3. Chain[k] = Append(Chain[OwnerId[k]], k)
      BY <2>2, ChainIs DEF ChainBy
    <3>4. QED BY <3>2, <3>3, AppendProperties
  <2>3. QED BY <2>1, <2>2
<1>2. \A k \in 0 .. NFamilies : k \in T
  <2> HIDE DEF T
  <2>1. QED BY <1>1, FamiliesAre, FromBelow
<1>3. \A f \in Family : f \in 0 .. NFamilies
  BY FamiliesAre
<1>4. QED BY <1>2, <1>3

\* An identity is a key of its family beneath an owner, and conversely.
Pair == UNION {{h} \X KeysOf[h] : h \in Family}

LEMMA IdentsAre ==
  ASSUME NEW f \in Family
  PROVE  /\ IdentsOf(f) \subseteq Seq(Pair)
         /\ OwnerIdents(f) \subseteq Seq(Pair)
         /\ \A o \in OwnerIdents(f), k \in KeysOf[f] : Append(o, <<f, k>>) \in IdentsOf(f)
         /\ \A i \in IdentsOf(f) :
              /\ i # << >> /\ FamilyOf(i) = f
              /\ Parent(i) \in OwnerIdents(f) /\ Last(i)[2] \in KeysOf[f]
              /\ i = Append(Parent(i), <<f, Last(i)[2]>>)
<1> DEFINE o0 == OwnerId[f]
           L(g) == Len(Chain[g])
<1>1. \A g \in Family : Chain[g] \in Seq(Family) /\ L(g) \in Nat
  BY ChainsList
<1>2. ASSUME NEW g \in Family, NEW i \in IdentsOf(g)
      PROVE  /\ i \in Seq(Pair) /\ Len(i) = L(g)
             /\ \A n \in 1 .. L(g) : i[n][1] = Chain[g][n]
  <2>1. i \in [1 .. L(g) -> Pair] /\ \A n \in DOMAIN i : i[n][1] = Chain[g][n]
    BY DEF IdentsOf, Pair
  <2>2. L(g) \in Nat
    BY <1>1
  <2> HIDE DEF L
  <2>3. i \in Seq(Pair)
    BY <2>1, <2>2
  <2>4. Len(i) = L(g) /\ DOMAIN i = 1 .. L(g)
    BY <2>1, <2>2, <2>3, LenProperties
  <2>5. QED BY <2>1, <2>3, <2>4
<1>3. ASSUME NEW g \in Family, NEW i \in Seq(Pair), Len(i) = L(g),
             \A n \in 1 .. L(g) : i[n][1] = Chain[g][n]
      PROVE  i \in IdentsOf(g)
  <2>1. i \in [1 .. L(g) -> Pair] /\ \A n \in DOMAIN i : i[n][1] = Chain[g][n]
    BY <1>3
  <2>2. QED BY <2>1 DEF IdentsOf, Pair
<1>4. /\ L(f) \in Nat /\ L(f) >= 1 /\ Chain[f][L(f)] = f
      /\ o0 = 0 => L(f) = 1
      /\ o0 # 0 => /\ o0 \in Family /\ L(f) = L(o0) + 1
                   /\ \A n \in 1 .. L(o0) : Chain[f][n] = Chain[o0][n]
  <2>1. CASE o0 = 0
    <3>1. Chain[f] = <<f>>
      BY <2>1, ChainIs DEF ChainBy
    <3>2. QED BY <2>1, <3>1
  <2>2. CASE o0 # 0
    <3>1. o0 \in Family
      BY <2>2, FamiliesAre
    <3>2. Chain[f] = Append(Chain[o0], f) /\ Chain[o0] \in Seq(Family)
      BY <1>1, <2>2, <3>1, ChainIs DEF ChainBy
    <3>3. QED BY <2>2, <3>1, <3>2
  <2>3. QED BY <2>1, <2>2
<1>5. OwnerIdents(f) \subseteq Seq(Pair)
  <2>1. CASE o0 = 0
    BY <2>1 DEF OwnerIdents
  <2>2. CASE o0 # 0
    BY <1>2, <1>4, <2>2 DEF OwnerIdents
  <2>3. QED BY <2>1, <2>2
<1>6. ASSUME NEW o \in OwnerIdents(f), NEW k \in KeysOf[f]
      PROVE  Append(o, <<f, k>>) \in IdentsOf(f)
  <2>1. <<f, k>> \in Pair /\ o \in Seq(Pair)
    BY <1>5 DEF Pair
  <2>2. Len(o) = L(f) - 1 /\ \A n \in 1 .. (L(f) - 1) : o[n][1] = Chain[f][n]
    <3>1. CASE o0 = 0
      BY <1>4, <3>1 DEF OwnerIdents
    <3>2. CASE o0 # 0
      <4>1. o \in IdentsOf(o0)
        BY <3>2 DEF OwnerIdents
      <4>2. o0 \in Family /\ L(o0) \in Nat /\ L(o0) = L(f) - 1
        BY <1>1, <1>4, <3>2
      <4> HIDE DEF o0, L
      <4>3. QED BY <1>2, <1>4, <3>2, <4>1, <4>2
    <3>3. QED BY <3>1, <3>2
  <2> HIDE DEF L
  <2>3. Append(o, <<f, k>>) \in Seq(Pair) /\ Len(Append(o, <<f, k>>)) = L(f)
    BY <1>4, <2>1, <2>2
  <2>4. \A n \in 1 .. L(f) : Append(o, <<f, k>>)[n][1] = Chain[f][n]
    <3> TAKE n \in 1 .. L(f)
    <3>1. CASE n = L(f)
      BY <1>4, <2>1, <2>2, <3>1
    <3>2. CASE n # L(f)
      <4>1. n \in 1 .. (L(f) - 1)
        BY <1>4, <3>2
      <4>2. Append(o, <<f, k>>)[n] = o[n]
        BY <2>1, <2>2, <4>1
      <4>3. QED BY <2>2, <4>1, <4>2
    <3>3. QED BY <3>1, <3>2
  <2>5. QED BY <1>3, <2>3, <2>4
<1>7. ASSUME NEW i \in IdentsOf(f)
      PROVE  /\ i # << >> /\ FamilyOf(i) = f
             /\ Parent(i) \in OwnerIdents(f) /\ Last(i)[2] \in KeysOf[f]
             /\ i = Append(Parent(i), <<f, Last(i)[2]>>)
  <2>1. i \in Seq(Pair) /\ Len(i) = L(f) /\ \A n \in 1 .. L(f) : i[n][1] = Chain[f][n]
    BY <1>2
  <2>2. i[L(f)] \in Pair /\ i[L(f)][1] = f
    BY <1>4, <2>1
  <2>3. Last(i) = i[L(f)] /\ Last(i) = <<f, Last(i)[2]>> /\ Last(i)[2] \in KeysOf[f]
    BY <2>1, <2>2 DEF Last, Pair
  <2>4. Front(i) = SubSeq(i, 1, L(f) - 1)
    BY <2>1 DEF Front
  <2> DEFINE p == SubSeq(i, 1, L(f) - 1)
  <2>5. p \in Seq(Pair) /\ Len(p) = L(f) - 1 /\ \A n \in 1 .. (L(f) - 1) : p[n] = i[n]
    <3> HIDE DEF L
    <3>1. L(f) - 1 \in 0 .. L(f) /\ L(f) - 1 \in Nat
      BY <1>4
    <3>2. QED BY <2>1, <3>1, SubSeqProperties
  <2>6. p \in OwnerIdents(f)
    <3>1. CASE o0 = 0
      BY <1>4, <2>5, <3>1 DEF OwnerIdents
    <3>2. CASE o0 # 0
      <4>1. o0 \in Family /\ L(o0) = L(f) - 1
        BY <1>1, <1>4, <3>2
      <4>2. \A n \in 1 .. L(o0) : n \in 1 .. L(f) /\ p[n][1] = Chain[o0][n]
        BY <1>4, <2>1, <2>5, <3>2, <4>1
      <4> HIDE DEF o0, L, p
      <4>3. p \in IdentsOf(o0)
        BY <1>3, <2>5, <4>1, <4>2
      <4>4. QED BY <3>2, <4>3 DEF OwnerIdents, o0
    <3>3. QED BY <3>1, <3>2
  <2>7. i = Append(p, <<f, Last(i)[2]>>)
    <3> HIDE DEF p, L
    <3>1. Append(p, i[L(f)]) \in Seq(Pair) /\ Len(Append(p, i[L(f)])) = L(f)
      BY <1>4, <2>2, <2>5
    <3>2. \A n \in 1 .. L(f) : i[n] = Append(p, i[L(f)])[n]
      BY <1>4, <2>1, <2>2, <2>5
    <3>3. i = Append(p, i[L(f)])
      BY <2>1, <3>1, <3>2, SeqEqual
    <3>4. QED BY <2>3, <3>3
  <2>8. i # << >>
    BY <1>4, <2>1
  <2>9. QED BY <2>2, <2>3, <2>4, <2>6, <2>7, <2>8 DEF FamilyOf, Parent
<1>8. IdentsOf(f) \subseteq Seq(Pair)
  BY <1>2
<1>9. QED BY <1>5, <1>6, <1>7, <1>8

LEMMA PairsAppend ==
  ASSUME NEW o \in Seq(Pair), NEW x \in Pair
  PROVE  /\ Append(o, x) \in Seq(Pair) /\ Len(Append(o, x)) = Len(o) + 1
         /\ Last(Append(o, x)) = x /\ Front(Append(o, x)) = o
         /\ \A n \in 1 .. Len(o) : SubSeq(Append(o, x), 1, n) = SubSeq(o, 1, n)
         /\ SubSeq(Append(o, x), 1, Len(o) + 1) = Append(o, x)
<1> DEFINE i == Append(o, x)
<1>1. /\ i \in Seq(Pair) /\ Len(i) = Len(o) + 1 /\ Len(o) \in Nat
      /\ i[Len(o) + 1] = x /\ \A n \in 1 .. Len(o) : i[n] = o[n]
  OBVIOUS
<1> HIDE DEF i
<1>2. ASSUME NEW n \in 1 .. Len(o) PROVE SubSeq(i, 1, n) = SubSeq(o, 1, n)
  <2>1. /\ SubSeq(i, 1, n) \in Seq(Pair) /\ Len(SubSeq(i, 1, n)) = n
        /\ \A m \in 1 .. n : SubSeq(i, 1, n)[m] = i[m]
    BY <1>1
  <2>2. /\ SubSeq(o, 1, n) \in Seq(Pair) /\ Len(SubSeq(o, 1, n)) = n
        /\ \A m \in 1 .. n : SubSeq(o, 1, n)[m] = o[m]
    BY <1>1
  <2>3. \A m \in 1 .. n : SubSeq(i, 1, n)[m] = SubSeq(o, 1, n)[m]
    BY <1>1, <2>1, <2>2
  <2>4. QED BY <2>1, <2>2, <2>3, SeqEqual
<1>3. SubSeq(i, 1, Len(i)) = i
  BY <1>1, SubSeqFull
<1>4. SubSeq(i, 1, Len(i) - 1) = o
  <2>1. Len(i) - 1 = Len(o)
    BY <1>1
  <2>2. /\ SubSeq(i, 1, Len(o)) \in Seq(Pair) /\ Len(SubSeq(i, 1, Len(o))) = Len(o)
        /\ \A m \in 1 .. Len(o) : SubSeq(i, 1, Len(o))[m] = i[m]
    BY <1>1
  <2>3. QED BY <1>1, <2>1, <2>2, SeqEqual
<1>5. Last(i) = x /\ Front(i) = o
  BY <1>1, <1>4 DEF Last, Front
<1>6. QED BY <1>1, <1>2, <1>3, <1>5 DEF i

\* A key under an owner.
Node(o, f, k) == Append(o, <<f, k>>)

LEMMA NodeIs ==
  ASSUME NEW f \in Family, NEW o \in OwnerIdents(f), NEW k \in KeysOf[f]
  PROVE  /\ Node(o, f, k) \in IdentsOf(f) /\ Node(o, f, k) \in Ident
         /\ Node(o, f, k) \in Seq(Pair) /\ Len(Node(o, f, k)) = Len(o) + 1
         /\ Last(Node(o, f, k)) = <<f, k>> /\ FamilyOf(Node(o, f, k)) = f
         /\ Parent(Node(o, f, k)) = o
<1>1. o \in Seq(Pair) /\ <<f, k>> \in Pair
  BY IdentsAre DEF Pair
<1>2. Node(o, f, k) \in IdentsOf(f)
  BY IdentsAre DEF Node
<1>3. /\ Node(o, f, k) \in Seq(Pair) /\ Len(Node(o, f, k)) = Len(o) + 1
      /\ Last(Node(o, f, k)) = <<f, k>> /\ Front(Node(o, f, k)) = o
  BY <1>1, PairsAppend DEF Node
<1>4. Node(o, f, k) \in Ident
  BY <1>2 DEF Ident
<1>5. QED BY <1>2, <1>3, <1>4 DEF FamilyOf, Parent

\* Whose owner is the root, and whose is not.
LEMMA OwnersAre ==
  ASSUME NEW f \in Family, NEW o \in OwnerIdents(f)
  PROVE  /\ o \in Seq(Pair) /\ Len(o) \in Nat
         /\ OwnerId[f] = 0 <=> o = << >>
         /\ OwnerId[f] # 0 => /\ OwnerId[f] \in Family /\ o \in IdentsOf(OwnerId[f])
                              /\ o \in Ident /\ FamilyOf(o) = OwnerId[f]
<1>1. o \in Seq(Pair)
  BY IdentsAre
<1>2. Len(o) \in Nat
  BY <1>1
<1>3. CASE OwnerId[f] = 0
  BY <1>1, <1>2, <1>3 DEF OwnerIdents
<1>4. CASE OwnerId[f] # 0
  <2>1. OwnerId[f] \in Family /\ o \in IdentsOf(OwnerId[f])
    BY <1>4, FamiliesAre DEF OwnerIdents
  <2>2. o # << >> /\ FamilyOf(o) = OwnerId[f] /\ o \in Ident
    BY <2>1, IdentsAre DEF Ident
  <2>3. QED BY <1>1, <1>2, <1>4, <2>1, <2>2
<1>5. QED BY <1>3, <1>4

\* An identity is desired if its owner is and its own key is answered.
LEMMA DesiresAre ==
  ASSUME NEW s, NEW f \in Family, NEW o \in OwnerIdents(f), NEW k \in KeysOf[f]
  PROVE  Node(o, f, k) \in Desires(s) <=>
           /\ o \in Owners(s, f)
           /\ Selector(s, f, o) \notin {Throws, Misshapen}
           /\ k \in Range(Selector(s, f, o))
<1> DEFINE i == Node(o, f, k)
<1>1. /\ i \in Ident /\ i \in Seq(Pair) /\ Len(i) = Len(o) + 1
      /\ Last(i) = <<f, k>> /\ FamilyOf(i) = f /\ Parent(i) = o
  BY NodeIs
<1>2. /\ o \in Seq(Pair) /\ Len(o) \in Nat
      /\ OwnerId[f] = 0 <=> o = << >>
      /\ OwnerId[f] # 0 => o \in Ident /\ FamilyOf(o) = OwnerId[f]
  BY OwnersAre
<1>3. /\ \A n \in 1 .. Len(o) : SubSeq(i, 1, n) = SubSeq(o, 1, n)
      /\ SubSeq(i, 1, Len(o) + 1) = i
  BY <1>2, PairsAppend DEF Pair, Node
<1>4. DOMAIN i = 1 .. (Len(o) + 1) /\ DOMAIN o = 1 .. Len(o)
  BY <1>1, <1>2
<1> HIDE DEF i
<1>5. Answers(s, i) <=> /\ Selector(s, f, o) \notin {Throws, Misshapen}
                        /\ k \in Range(Selector(s, f, o))
  BY <1>1 DEF Answers, Asked
<1>6. i \in Desires(s) <=> /\ \A n \in 1 .. Len(o) : Answers(s, SubSeq(o, 1, n))
                           /\ Answers(s, i)
  <2>1. 1 .. (Len(o) + 1) = (1 .. Len(o)) \cup {Len(o) + 1}
    BY <1>2
  <2>2. i \in Desires(s) <=> \A n \in DOMAIN i : Answers(s, SubSeq(i, 1, n))
    BY <1>1 DEF Desires
  <2>3. QED BY <1>3, <1>4, <2>1, <2>2
<1>7. (\A n \in 1 .. Len(o) : Answers(s, SubSeq(o, 1, n))) <=> o \in Owners(s, f)
  <2>1. CASE OwnerId[f] = 0
    <3>1. 1 .. Len(o) = {}
      BY <1>2, <2>1
    <3>2. QED BY <1>2, <2>1, <3>1 DEF Owners
  <2>2. CASE OwnerId[f] # 0
    BY <1>2, <1>4, <2>2 DEF Owners, Desires
  <2>3. QED BY <2>1, <2>2
<1>8. QED BY <1>5, <1>6, <1>7 DEF i

Below(s, f, o) == {Node(o, f, k) : k \in Range(Selector(s, f, o))}

\* What a selector that is asked may answer.
Fine(s, f, o) ==
  /\ Selector(s, f, o) \notin {Throws, Misshapen}
  /\ IsInjective(Selector(s, f, o))
  /\ f \in Observing => Observe(s, f, o) # Throws
  /\ f \in Incremental => Deps(s, f, o) # Throws

LEMMA AcceptableIs ==
  ASSUME NEW s
  PROVE  Acceptable(s) <=> \A f \in Family : \A o \in Owners(s, f) : Fine(s, f, o)
BY DEF Acceptable, Fine

LEMMA OwnersInIdents ==
  ASSUME NEW s, NEW f \in Family
  PROVE  Owners(s, f) \subseteq OwnerIdents(f)
<1>1. CASE OwnerId[f] = 0
  BY <1>1 DEF Owners, OwnerIdents
<1>2. CASE OwnerId[f] # 0
  <2>1. ASSUME NEW i \in Owners(s, f) PROVE i \in OwnerIdents(f)
    <3>1. i \in Ident /\ FamilyOf(i) = OwnerId[f]
      BY <1>2 DEF Owners, Desires
    <3>2. PICK g \in Family : i \in IdentsOf(g)
      BY <3>1 DEF Ident
    <3>3. g = OwnerId[f]
      BY <3>1, <3>2, IdentsAre
    <3>4. QED BY <1>2, <3>2, <3>3 DEF OwnerIdents
  <2>2. QED BY <2>1
<1>3. QED BY <1>1, <1>2

LEMMA KeysAre ==
  ASSUME NEW s \in State, NEW f \in Family, NEW o \in OwnerIdents(f),
         Selector(s, f, o) \notin {Throws, Misshapen}
  PROVE  /\ Selector(s, f, o) \in Seq(KeysOf[f])
         /\ Range(Selector(s, f, o)) \subseteq KeysOf[f]
         /\ f \in Cardinality1 => Len(Selector(s, f, o)) <= 1
<1>1. /\ Selector(s, f, o) \in Seq(KeysOf[f])
      /\ f \in Cardinality1 => Len(Selector(s, f, o)) <= 1
  BY SelectorAssumption
<1>2. Range(Selector(s, f, o)) \subseteq KeysOf[f]
  BY <1>1 DEF Range
<1>3. QED BY <1>1, <1>2

\* The desired identities of a family, once all its owners' answers are fine.
LEMMA FamilyDesires ==
  ASSUME NEW s \in State, NEW f \in Family, \A o \in Owners(s, f) : Fine(s, f, o)
  PROVE  {i \in Desires(s) : FamilyOf(i) = f} = UNION {Below(s, f, o) : o \in Owners(s, f)}
<1>1. ASSUME NEW i \in Desires(s), FamilyOf(i) = f
      PROVE  \E o \in Owners(s, f) : i \in Below(s, f, o)
  <2>1. PICK g \in Family : i \in IdentsOf(g)
    BY DEF Desires, Ident
  <2>2. g = f
    BY <1>1, <2>1, IdentsAre
  <2>3. /\ Parent(i) \in OwnerIdents(f) /\ Last(i)[2] \in KeysOf[f]
        /\ i = Node(Parent(i), f, Last(i)[2])
    BY <2>1, <2>2, IdentsAre DEF Node
  <2>4. Parent(i) \in Owners(s, f) /\ Last(i)[2] \in Range(Selector(s, f, Parent(i)))
    BY <2>3, DesiresAre
  <2>5. QED BY <2>3, <2>4 DEF Below
<1>2. ASSUME NEW o \in Owners(s, f), NEW i \in Below(s, f, o)
      PROVE  i \in Desires(s) /\ FamilyOf(i) = f
  <2>1. o \in OwnerIdents(f) /\ Selector(s, f, o) \notin {Throws, Misshapen}
    BY OwnersInIdents DEF Fine
  <2>2. PICK k \in Range(Selector(s, f, o)) : i = Node(o, f, k)
    BY DEF Below
  <2>3. k \in KeysOf[f]
    BY <2>1, KeysAre
  <2>4. QED BY <2>1, <2>2, <2>3, DesiresAre, NodeIs
<1>3. QED BY <1>1, <1>2

-----------------------------------------------------------------------------
(***************************************************************************)
(* The memory holds what selectors have answered, so whoever is spared a   *)
(* question gets the answer it would have got.                             *)
(***************************************************************************)
Listed(s, f, o) == [k \in DOMAIN Selector(s, f, o) |-> Node(o, f, Selector(s, f, o)[k])]

Memo(s, f, o) ==
  [deps |-> Deps(s, f, o), keys |-> Selector(s, f, o), idents |-> Listed(s, f, o)]

Recorded(f, o, memo) ==
  \E t \in State : /\ memo = Memo(t, f, o) /\ Deps(t, f, o) # Throws
                   /\ Selector(t, f, o) \notin {Throws, Misshapen}

MemoryIsSound(m) ==
  /\ m = [f \in Incremental |-> m[f]]
  /\ \A f \in Incremental :
       /\ IsFiniteSet(DOMAIN m[f]) /\ DOMAIN m[f] \subseteq OwnerIdents(f)
       /\ \A o \in DOMAIN m[f] : Recorded(f, o, m[f][o])

LEMMA ListedIs ==
  ASSUME NEW s \in State, NEW f \in Family, NEW o \in OwnerIdents(f),
         Selector(s, f, o) \notin {Throws, Misshapen}
  PROVE  /\ Listed(s, f, o) \in Seq(Ident)
         /\ Len(Listed(s, f, o)) = Len(Selector(s, f, o))
         /\ Range(Listed(s, f, o)) = Below(s, f, o)
         /\ IsInjective(Listed(s, f, o)) <=> IsInjective(Selector(s, f, o))
<1> DEFINE keys == Selector(s, f, o)
           is == Listed(s, f, o)
<1>1. keys \in Seq(KeysOf[f])
  BY KeysAre
<1>2. \A k \in DOMAIN keys : keys[k] \in KeysOf[f]
  BY <1>1
<1>3. DOMAIN keys = 1 .. Len(keys) /\ Len(keys) \in Nat
  BY <1>1
<1>4. is = [k \in 1 .. Len(keys) |-> Node(o, f, keys[k])]
  BY <1>3 DEF Listed
<1> HIDE DEF keys, is
<1>5. \A k \in 1 .. Len(keys) : Node(o, f, keys[k]) \in Ident
  BY <1>2, <1>3, NodeIs
<1>6. is \in Seq(Ident) /\ Len(is) = Len(keys) /\ DOMAIN is = 1 .. Len(keys)
  BY <1>3, <1>4, <1>5
<1>7. Range(is) = Below(s, f, o)
  BY <1>3, <1>4 DEF Range, Below, keys
<1>8. \A a, b \in 1 .. Len(keys) : is[a] = is[b] <=> keys[a] = keys[b]
  <2> TAKE a, b \in 1 .. Len(keys)
  <2>1. Last(Node(o, f, keys[a])) = <<f, keys[a]>> /\ Last(Node(o, f, keys[b])) = <<f, keys[b]>>
    BY <1>2, <1>3, NodeIs
  <2>2. is[a] = Node(o, f, keys[a]) /\ is[b] = Node(o, f, keys[b])
    BY <1>4
  <2>3. QED BY <2>1, <2>2
<1>9. IsInjective(is) <=> IsInjective(keys)
  BY <1>3, <1>6, <1>8 DEF IsInjective
<1>10. QED BY <1>6, <1>7, <1>9 DEF keys, is

LEMMA RefusalIs ==
  ASSUME NEW s \in State, NEW f \in Family, NEW o \in OwnerIdents(f), NEW e,
         Fine(s, f, o) => Below(s, f, o) \cap DOMAIN e.observed = {},
         NEW is, ~(f \in Incremental /\ Deps(s, f, o) = Throws) => is = Listed(s, f, o)
  PROVE  refusal(s, f, e, o, Selector(s, f, o), is) = "none" <=> Fine(s, f, o)
<1>1. CASE \/ f \in Observing /\ Observe(s, f, o) = Throws
           \/ f \in Incremental /\ Deps(s, f, o) = Throws
           \/ Selector(s, f, o) \in {Throws, Misshapen}
  BY <1>1 DEF refusal, Fine
<1>2. CASE ~(\/ f \in Observing /\ Observe(s, f, o) = Throws
             \/ f \in Incremental /\ Deps(s, f, o) = Throws
             \/ Selector(s, f, o) \in {Throws, Misshapen})
  <2>1. /\ Range(is) = Below(s, f, o)
        /\ IsInjective(is) <=> IsInjective(Selector(s, f, o))
    BY <1>2, ListedIs
  <2>2. refusal(s, f, e, o, Selector(s, f, o), is) = "none"
          <=> IsInjective(is) /\ Range(is) \cap DOMAIN e.observed = {}
    BY <1>2 DEF refusal
  <2>3. Fine(s, f, o) <=> IsInjective(Selector(s, f, o))
    BY <1>2 DEF Fine
  <2>4. QED BY <2>1, <2>2, <2>3
<1>3. QED BY <1>1, <1>2

LEMMA AskIs ==
  ASSUME NEW s \in State, NEW f \in Family, NEW o \in OwnerIdents(f), NEW e,
         MemoryIsSound(e.memory), e.error = "none",
         Fine(s, f, o) => Below(s, f, o) \cap DOMAIN e.observed = {}
  PROVE  /\ Fine(s, f, o) =>
              ask(s, f, e, o) = accept(s, f, e, o, Selector(s, f, o), Listed(s, f, o))
         /\ ~Fine(s, f, o) =>
              \E wrong : wrong # "none" /\ ask(s, f, e, o) = [e EXCEPT !.error = wrong]
<1> DEFINE same == {memo \in previous(e, f, o) : memo.deps = Deps(s, f, o)}
           memo == CHOOSE memo \in same : TRUE
           keys == IF same # {} THEN memo.keys ELSE Selector(s, f, o)
           is == IF same # {} THEN memo.idents
                 ELSE [k \in DOMAIN keys |-> Append(o, <<f, keys[k]>>)]
           refused == refusal(s, f, e, o, keys, is)
<1>1. ask(s, f, e, o) = IF refused # "none" THEN [e EXCEPT !.error = refused]
                        ELSE accept(s, f, e, o, keys, is)
  BY DEF ask
<1>2. ASSUME same # {}
      PROVE  memo = Memo(s, f, o)
  <2>1. memo \in same
    BY <1>2
  <2>2. f \in Incremental /\ o \in DOMAIN e.memory[f] /\ memo = e.memory[f][o]
    BY <2>1 DEF previous
  <2>3. Recorded(f, o, memo) /\ memo.deps = Deps(s, f, o)
    BY <2>1, <2>2 DEF MemoryIsSound
  <2> HIDE DEF memo, same
  <2>4. PICK t \in State : memo = Memo(t, f, o) /\ Deps(t, f, o) # Throws
    BY <2>3 DEF Recorded
  <2>5. Deps(t, f, o) = Deps(s, f, o)
    BY <2>3, <2>4 DEF Memo
  <2>6. Selector(t, f, o) = Selector(s, f, o)
    BY <2>2, <2>4, <2>5, SelectorAssumption
  <2>7. QED BY <2>4, <2>5, <2>6 DEF Memo, Listed
<1>3. keys = Selector(s, f, o) /\ is = Listed(s, f, o)
  <2>1. CASE same # {}
    <3>1. memo = Memo(s, f, o)
      BY <1>2, <2>1
    <3> HIDE DEF memo, same
    <3>2. memo.keys = Selector(s, f, o) /\ memo.idents = Listed(s, f, o)
      BY <3>1 DEF Memo
    <3>3. QED BY <2>1, <3>2
  <2>2. CASE same = {}
    <3>1. keys = Selector(s, f, o)
      BY <2>2
    <3>2. is = [k \in DOMAIN keys |-> Append(o, <<f, keys[k]>>)]
      BY <2>2
    <3> HIDE DEF same, is, keys
    <3>3. QED BY <3>1, <3>2 DEF Listed, Node
  <2>3. QED BY <2>1, <2>2
<1> HIDE DEF same, memo, keys, is
<1>4. refused = "none" <=> Fine(s, f, o)
  BY <1>3, RefusalIs
<1>5. QED BY <1>1, <1>3, <1>4

-----------------------------------------------------------------------------
(***************************************************************************)
(* What has been built from the questions asked so far.                    *)
(***************************************************************************)
Shape(e) ==
  /\ e = [error |-> e.error, nodes |-> e.nodes, topo |-> e.topo,
          observed |-> e.observed, memory |-> e.memory]
  /\ e.nodes \in [Family -> Seq(Ident)]

Projected(s, i) ==
  IF FamilyOf(i) \in Observing THEN Observe(s, FamilyOf(i), Parent(i)) ELSE NoProjection

\* All the questions of families before f, and of f those about the owners O.
Asks(s, f, O) ==
  {q \in Family \X Seq(Pair) : \/ q[1] < f /\ q[2] \in Owners(s, q[1])
                               \/ q[1] = f /\ q[2] \in O}

Built(s, e, Q) ==
  /\ \A g \in Family :
       /\ IsInjective(e.nodes[g])
       /\ Range(e.nodes[g]) = UNION {Below(s, g, o) : o \in {o \in Seq(Pair) : <<g, o>> \in Q}}
  /\ e.topo \in Seq(Ident) /\ IsInjective(e.topo) /\ OwnersFirst(e.topo)
  /\ Range(e.topo) = UNION {Below(s, q[1], q[2]) : q \in Q}
  /\ e.observed = [i \in Range(e.topo) |-> Projected(s, i)]
  /\ \A q \in Q : /\ Fine(s, q[1], q[2])
                  /\ q[1] \in Incremental => q[2] \in DOMAIN e.memory[q[1]]

Stage(s, e, f, O) ==
  /\ Shape(e)
  /\ MemoryIsSound(e.memory)
  /\ e.error # "none" => ~Acceptable(s)
  /\ e.error = "none" =>
       /\ Built(s, e, Asks(s, f, O))
       /\ \A g \in Incremental : g < f => DOMAIN e.memory[g] = Owners(s, g)

LEMMA RememberIs ==
  ASSUME NEW s \in State, NEW f \in Family, NEW o \in OwnerIdents(f), NEW e,
         MemoryIsSound(e.memory), Fine(s, f, o)
  PROVE  LET m == remember(e, f, o, Memo(s, f, o)) IN
         /\ MemoryIsSound(m)
         /\ \A g \in Incremental : g # f => m[g] = e.memory[g]
         /\ f \in Incremental => DOMAIN m[f] = DOMAIN e.memory[f] \cup {o}
<1> DEFINE m == remember(e, f, o, Memo(s, f, o))
<1>1. CASE f \notin Incremental
  BY <1>1 DEF remember
<1>2. CASE f \in Incremental
  <2> DEFINE mf == [x \in DOMAIN e.memory[f] \cup {o} |->
                      IF x = o THEN Memo(s, f, o) ELSE e.memory[f][x]]
  <2>1. \A x \in DOMAIN mf : mf[x] = IF x = o THEN Memo(s, f, o) ELSE e.memory[f][x]
    OBVIOUS
  <2>2. m = [e.memory EXCEPT ![f] = mf]
    BY <1>2 DEF remember
  <2>3. DOMAIN mf = DOMAIN e.memory[f] \cup {o}
    OBVIOUS
  <2> HIDE DEF mf, m
  <2>4. /\ e.memory = [g \in Incremental |-> e.memory[g]]
        /\ m = [g \in Incremental |-> m[g]] /\ m[f] = mf
        /\ \A g \in Incremental : g # f => m[g] = e.memory[g]
    BY <1>2, <2>2 DEF MemoryIsSound
  <2>5. IsFiniteSet(DOMAIN mf) /\ DOMAIN mf \subseteq OwnerIdents(f)
    <3>1. IsFiniteSet(DOMAIN e.memory[f]) /\ DOMAIN e.memory[f] \subseteq OwnerIdents(f)
      BY <1>2 DEF MemoryIsSound
    <3>2. IsFiniteSet(DOMAIN e.memory[f] \cup {o})
      BY <3>1, FS_AddElement
    <3>3. QED BY <2>3, <3>1, <3>2
  <2>6. ASSUME NEW x \in DOMAIN mf PROVE Recorded(f, x, mf[x])
    <3>1. CASE x = o
      <4>1. mf[x] = Memo(s, f, o)
        BY <2>1, <3>1
      <4>2. QED BY <1>2, <3>1, <4>1 DEF Recorded, Fine
    <3>2. CASE x # o
      <4>1. x \in DOMAIN e.memory[f] /\ mf[x] = e.memory[f][x]
        BY <2>1, <2>3, <3>2
      <4>2. QED BY <1>2, <4>1 DEF MemoryIsSound
    <3>3. QED BY <3>1, <3>2
  <2>7. MemoryIsSound(m)
    <3>1. ASSUME NEW g \in Incremental
          PROVE  /\ IsFiniteSet(DOMAIN m[g]) /\ DOMAIN m[g] \subseteq OwnerIdents(g)
                 /\ \A x \in DOMAIN m[g] : Recorded(g, x, m[g][x])
      <4>1. CASE g = f
        BY <2>4, <2>5, <2>6, <4>1
      <4>2. CASE g # f
        <5>1. m[g] = e.memory[g]
          BY <2>4, <4>2
        <5>2. QED BY <5>1 DEF MemoryIsSound
      <4>3. QED BY <4>1, <4>2
    <3>2. QED BY <2>4, <3>1 DEF MemoryIsSound
  <2>8. DOMAIN m[f] = DOMAIN e.memory[f] \cup {o}
    BY <2>4, <2>3
  <2>9. QED BY <2>4, <2>7, <2>8 DEF m
<1>3. QED BY <1>1, <1>2

\* The fields of an evaluation that has accepted an answer.
LEMMA AcceptIs ==
  ASSUME NEW s \in State, NEW f \in Family, NEW o \in OwnerIdents(f), NEW e, Shape(e),
         Fine(s, f, o), NEW a,
         a = accept(s, f, e, o, Selector(s, f, o), Listed(s, f, o))
  PROVE  /\ Shape(a) /\ a.error = e.error
         /\ a.nodes[f] = e.nodes[f] \o Listed(s, f, o)
         /\ \A g \in Family : g # f => a.nodes[g] = e.nodes[g]
         /\ a.topo = e.topo \o Listed(s, f, o)
         /\ a.observed = [i \in DOMAIN a.observed |-> a.observed[i]]
         /\ DOMAIN a.observed = DOMAIN e.observed \cup Below(s, f, o)
         /\ \A i \in DOMAIN a.observed :
              a.observed[i] = IF i \in DOMAIN e.observed THEN e.observed[i]
                              ELSE IF f \in Observing THEN Observe(s, f, o) ELSE NoProjection
         /\ a.memory = remember(e, f, o, Memo(s, f, o))
<1> DEFINE is == Listed(s, f, o)
           p == IF f \in Observing THEN Observe(s, f, o) ELSE NoProjection
           ns == [e.nodes EXCEPT ![f] = @ \o is]
           os == [i \in DOMAIN e.observed \cup Range(is) |->
                    IF i \in DOMAIN e.observed THEN e.observed[i] ELSE p]
           ms == remember(e, f, o, Memo(s, f, o))
<1>1. is \in Seq(Ident) /\ Range(is) = Below(s, f, o)
  BY ListedIs DEF Fine
<1>2. a = [e EXCEPT !.nodes = ns, !.topo = @ \o is, !.observed = os, !.memory = ms]
  BY DEF accept, Memo
<1> HIDE DEF is, p, ns, os, ms
<1>3. /\ a = [error |-> e.error, nodes |-> ns, topo |-> e.topo \o is, observed |-> os,
              memory |-> ms]
  BY <1>2 DEF Shape
<1>4. /\ ns \in [Family -> Seq(Ident)] /\ ns[f] = e.nodes[f] \o is
      /\ \A g \in Family : g # f => ns[g] = e.nodes[g]
  <2>1. e.nodes \in [Family -> Seq(Ident)]
    BY DEF Shape
  <2>2. e.nodes[f] \o is \in Seq(Ident)
    BY <1>1, <2>1
  <2>3. ns = [e.nodes EXCEPT ![f] = e.nodes[f] \o is]
    BY DEF ns
  <2>4. QED BY <2>1, <2>2, <2>3
<1>5. os = [i \in DOMAIN e.observed \cup Below(s, f, o) |->
              IF i \in DOMAIN e.observed THEN e.observed[i] ELSE p]
  BY <1>1 DEF os
<1>6. Shape(a)
  BY <1>3, <1>4 DEF Shape
<1>7. /\ a.error = e.error /\ a.nodes = ns /\ a.topo = e.topo \o is
      /\ a.observed = os /\ a.memory = ms
  BY <1>3
<1>8. /\ a.observed = [i \in DOMAIN a.observed |-> a.observed[i]]
      /\ DOMAIN a.observed = DOMAIN e.observed \cup Below(s, f, o)
      /\ \A i \in DOMAIN a.observed :
           a.observed[i] = IF i \in DOMAIN e.observed THEN e.observed[i] ELSE p
  BY <1>5, <1>7
<1>9. QED BY <1>4, <1>6, <1>7, <1>8 DEF is, p, ms

LEMMA ConcatIs ==
  ASSUME NEW S, NEW a \in Seq(S), NEW b \in Seq(S)
  PROVE  /\ a \o b \in Seq(S) /\ DOMAIN (a \o b) = 1 .. (Len(a) + Len(b))
         /\ \A n \in 1 .. Len(a) : (a \o b)[n] = a[n]
         /\ \A n \in 1 .. (Len(a) + Len(b)) : n > Len(a) =>
              n - Len(a) \in 1 .. Len(b) /\ (a \o b)[n] = b[n - Len(a)]
         /\ Range(a \o b) = Range(a) \cup Range(b)
         /\ IsInjective(a) /\ IsInjective(b) /\ Range(a) \cap Range(b) = {}
              => IsInjective(a \o b)
<1> DEFINE c == a \o b
           A == Len(a)
           B == Len(b)
<1>1. /\ A \in Nat /\ B \in Nat /\ DOMAIN a = 1 .. A /\ DOMAIN b = 1 .. B
      /\ c \in Seq(S) /\ Len(c) = A + B /\ DOMAIN c = 1 .. (A + B)
  OBVIOUS
<1>2. \A n \in 1 .. A : c[n] = a[n]
  OBVIOUS
<1>3. ASSUME NEW n \in 1 .. (A + B), n > A PROVE n - A \in 1 .. B /\ c[n] = b[n - A]
  <2>1. n - A \in 1 .. B
    BY <1>1, <1>3
  <2>2. c[n] = b[n - A]
    BY <1>1, <1>3, ConcatProperties
  <2>3. QED BY <2>1, <2>2
<1>4. \A m \in 1 .. B : A + m \in 1 .. (A + B) /\ c[A + m] = b[m]
  <2> TAKE m \in 1 .. B
  <2> HIDE DEF A, B, c
  <2>1. A + m \in 1 .. (A + B) /\ A + m > A /\ (A + m) - A = m
    BY <1>1
  <2>2. QED BY <1>3, <2>1
<1> HIDE DEF A, B, c
<1>5. \A n \in 1 .. A : n \in 1 .. (A + B)
  BY <1>1
<1>6. \A n \in 1 .. (A + B) : n > A \/ n \in 1 .. A
  BY <1>1
<1>7. Range(c) = Range(a) \cup Range(b)
  <2>1. ASSUME NEW n \in 1 .. (A + B) PROVE c[n] \in Range(a) \cup Range(b)
    BY <1>1, <1>2, <1>3, <1>6 DEF Range
  <2>2. ASSUME NEW n \in 1 .. A PROVE a[n] \in Range(c)
    BY <1>1, <1>2, <1>5 DEF Range
  <2>3. ASSUME NEW n \in 1 .. B PROVE b[n] \in Range(c)
    BY <1>1, <1>4 DEF Range
  <2>4. \A x \in Range(c) : x \in Range(a) \cup Range(b)
    BY <1>1, <2>1 DEF Range
  <2>5. \A x \in Range(a) \cup Range(b) : x \in Range(c)
    BY <1>1, <2>2, <2>3 DEF Range
  <2>6. QED BY <2>4, <2>5
<1>8. ASSUME IsInjective(a), IsInjective(b), Range(a) \cap Range(b) = {},
             NEW n \in 1 .. (A + B), NEW m \in 1 .. (A + B), c[n] = c[m]
      PROVE  n = m
  <2>1. CASE n \in 1 .. A /\ m \in 1 .. A
    BY <1>1, <1>2, <1>8, <2>1 DEF IsInjective
  <2>2. CASE n > A /\ m > A
    <3>1. n - A \in 1 .. B /\ m - A \in 1 .. B /\ b[n - A] = b[m - A]
      BY <1>3, <1>8, <2>2
    <3>2. n - A = m - A
      BY <1>1, <1>8, <3>1 DEF IsInjective
    <3>3. QED BY <1>1, <3>2
  <2>3. CASE n \in 1 .. A /\ m > A
    BY <1>1, <1>2, <1>3, <1>8, <2>3 DEF Range
  <2>4. CASE n > A /\ m \in 1 .. A
    BY <1>1, <1>2, <1>3, <1>8, <2>4 DEF Range
  <2>5. QED BY <1>6, <2>1, <2>2, <2>3, <2>4
<1>9. IsInjective(a) /\ IsInjective(b) /\ Range(a) \cap Range(b) = {} => IsInjective(c)
  BY <1>1, <1>8 DEF IsInjective
<1>10. QED BY <1>1, <1>2, <1>3, <1>7, <1>9 DEF A, B, c

\* What is below one owner, and below two.
LEMMA BelowIs ==
  ASSUME NEW s \in State, NEW f \in Family, NEW o \in OwnerIdents(f), Fine(s, f, o),
         NEW i \in Below(s, f, o)
  PROVE  /\ i \in Ident /\ FamilyOf(i) = f /\ Parent(i) = o
         /\ Len(i) = Len(o) + 1 /\ Len(o) \in Nat
<1>1. PICK k \in Range(Selector(s, f, o)) : i = Node(o, f, k)
  BY DEF Below
<1>2. k \in KeysOf[f]
  BY KeysAre DEF Fine
<1>3. Len(o) \in Nat
  BY OwnersAre
<1>4. QED BY <1>1, <1>2, <1>3, NodeIs

LEMMA AskedAre ==
  ASSUME NEW s \in State, NEW f \in Family, NEW O \in SUBSET Owners(s, f)
  PROVE  /\ \A q \in Asks(s, f, O) : /\ q[1] \in Family /\ q[2] \in Owners(s, q[1])
                                     /\ q[2] \in OwnerIdents(q[1]) /\ q[2] \in Seq(Pair)
                                     /\ q = <<q[1], q[2]>>
         /\ \A o \in Owners(s, f) :
              /\ <<f, o>> \in Asks(s, f, O) <=> o \in O
              /\ Asks(s, f, O \cup {o}) = Asks(s, f, O) \cup {<<f, o>>}
<1>1. /\ \A g \in Family : Owners(s, g) \subseteq OwnerIdents(g)
      /\ \A g \in Family : OwnerIdents(g) \subseteq Seq(Pair)
  BY OwnersInIdents, IdentsAre
<1>2. f \in Nat /\ \A g \in Family : g \in Nat
  BY FamiliesAre
<1>3. \A q \in Asks(s, f, O) : q[1] \in Family /\ q[2] \in Owners(s, q[1]) /\ q = <<q[1], q[2]>>
  BY DEF Asks
<1>4. ASSUME NEW o \in Owners(s, f)
      PROVE  /\ <<f, o>> \in Asks(s, f, O) <=> o \in O
             /\ Asks(s, f, O \cup {o}) = Asks(s, f, O) \cup {<<f, o>>}
  <2>1. <<f, o>> \in Family \X Seq(Pair) /\ ~(f < f)
    BY <1>1, <1>2
  <2>2. <<f, o>> \in Asks(s, f, O) <=> o \in O
    BY <2>1 DEF Asks
  <2>3. ASSUME NEW q \in Family \X Seq(Pair)
        PROVE  q \in Asks(s, f, O \cup {o}) <=> q \in Asks(s, f, O) \/ q = <<f, o>>
    BY <2>1 DEF Asks
  <2>4. QED BY <2>1, <2>2, <2>3 DEF Asks
<1>5. QED BY <1>1, <1>3, <1>4

\* What is projected onto the desired, and listed owners first, as answers come in.
LEMMA BuiltIs ==
  ASSUME NEW s \in State, NEW f \in Family, NEW O \in SUBSET Owners(s, f),
         NEW e, Shape(e), Built(s, e, Asks(s, f, O))
  PROVE  /\ DOMAIN e.observed = Range(e.topo)
         /\ \A i \in Range(e.topo) :
              \E q \in Asks(s, f, O) : i \in Below(s, q[1], q[2])
         /\ \A o \in Owners(s, f) : o # << >> => o \in Range(e.topo)
<1>1. DOMAIN e.observed = Range(e.topo)
  BY DEF Built
<1>2. Range(e.topo) = UNION {Below(s, q[1], q[2]) : q \in Asks(s, f, O)}
  BY DEF Built
<1>3. ASSUME NEW o \in Owners(s, f), o # << >> PROVE o \in Range(e.topo)
  <2> DEFINE g == OwnerId[f]
  <2>1. o \in OwnerIdents(f)
    BY OwnersInIdents
  <2>2. g # 0 /\ g \in Family /\ g < f /\ FamilyOf(o) = g
    BY <1>3, <2>1, FamiliesAre, OwnersAre
  <2>3. o \in Desires(s)
    BY <2>2 DEF Owners
  <2> HIDE DEF g
  <2>4. \A p \in Owners(s, g) : <<g, p>> \in Asks(s, f, O)
    <3>1. Owners(s, g) \subseteq Seq(Pair)
      BY <2>2, OwnersInIdents, IdentsAre
    <3>2. QED BY <2>2, <3>1 DEF Asks
  <2>5. \A p \in Owners(s, g) : Fine(s, g, p)
    BY <2>4 DEF Built
  <2>6. PICK p \in Owners(s, g) : o \in Below(s, g, p)
    BY <2>2, <2>3, <2>5, FamilyDesires
  <2>7. \A q \in Asks(s, f, O) : Below(s, q[1], q[2]) \subseteq Range(e.topo)
    BY <1>2
  <2>8. Below(s, g, p) \subseteq Range(e.topo)
    <3>1. <<g, p>>[1] = g /\ <<g, p>>[2] = p /\ <<g, p>> \in Asks(s, f, O)
      BY <2>4
    <3>2. QED BY <2>7, <3>1
  <2>9. QED BY <2>6, <2>8
<1>4. QED BY <1>1, <1>2, <1>3

LEMMA AcceptKeeps ==
  ASSUME NEW s \in State, NEW f \in Family, NEW O \in SUBSET Owners(s, f),
         NEW o \in Owners(s, f), o \notin O, Fine(s, f, o),
         NEW e, Stage(s, e, f, O), e.error = "none"
  PROVE  /\ Below(s, f, o) \cap DOMAIN e.observed = {}
         /\ Stage(s, accept(s, f, e, o, Selector(s, f, o), Listed(s, f, o)), f, O \cup {o})
<1> DEFINE Q == Asks(s, f, O)
           is == Listed(s, f, o)
           a == accept(s, f, e, o, Selector(s, f, o), is)
           ms == remember(e, f, o, Memo(s, f, o))
<1>1. /\ Shape(e) /\ MemoryIsSound(e.memory) /\ Built(s, e, Q)
      /\ \A g \in Incremental : g < f => DOMAIN e.memory[g] = Owners(s, g)
  BY DEF Stage
<1>2. /\ o \in OwnerIdents(f) /\ o \in Seq(Pair) /\ Len(o) \in Nat
  BY OwnersInIdents, OwnersAre
<1>3. /\ Shape(a) /\ a.error = "none"
      /\ a.nodes[f] = e.nodes[f] \o is
      /\ \A g \in Family : g # f => a.nodes[g] = e.nodes[g]
      /\ a.topo = e.topo \o is
      /\ a.observed = [i \in DOMAIN a.observed |-> a.observed[i]]
      /\ DOMAIN a.observed = DOMAIN e.observed \cup Below(s, f, o)
      /\ \A i \in DOMAIN a.observed :
           a.observed[i] = IF i \in DOMAIN e.observed THEN e.observed[i]
                           ELSE IF f \in Observing THEN Observe(s, f, o) ELSE NoProjection
      /\ a.memory = ms
  <2>1. a = accept(s, f, e, o, Selector(s, f, o), Listed(s, f, o))
    OBVIOUS
  <2>2. Shape(e) /\ o \in OwnerIdents(f)
    BY <1>1, <1>2
  <2> HIDE DEF Q, a
  <2>3. QED BY <2>1, <2>2, AcceptIs, SMTT(30)
<1>4. /\ MemoryIsSound(ms)
      /\ \A g \in Incremental : g # f => ms[g] = e.memory[g]
      /\ f \in Incremental => DOMAIN ms[f] = DOMAIN e.memory[f] \cup {o}
  BY <1>1, <1>2, RememberIs
<1>5. /\ is \in Seq(Ident) /\ Range(is) = Below(s, f, o) /\ IsInjective(is)
  BY <1>2, ListedIs DEF Fine
<1>6. /\ DOMAIN e.observed = Range(e.topo)
      /\ \A i \in Range(e.topo) : \E q \in Q : i \in Below(s, q[1], q[2])
      /\ o # << >> => o \in Range(e.topo)
  BY <1>1, BuiltIs
<1>7. /\ \A q \in Q : /\ q[1] \in Family /\ q[2] \in Owners(s, q[1])
                      /\ q[2] \in OwnerIdents(q[1]) /\ q[2] \in Seq(Pair)
                      /\ q = <<q[1], q[2]>>
      /\ <<f, o>> \notin Q
      /\ Asks(s, f, O \cup {o}) = Q \cup {<<f, o>>}
  BY AskedAre
<1>8. \A q \in Q : Fine(s, q[1], q[2])
  BY <1>1 DEF Built
<1> HIDE DEF Q, is, a, ms
<1>9. Below(s, f, o) \cap Range(e.topo) = {}
  <2> SUFFICES ASSUME NEW i \in Below(s, f, o), i \in Range(e.topo) PROVE FALSE
    OBVIOUS
  <2>1. PICK q \in Q : i \in Below(s, q[1], q[2])
    BY <1>6
  <2>2. FamilyOf(i) = q[1] /\ Parent(i) = q[2]
    BY <1>7, <1>8, <2>1, BelowIs
  <2>3. FamilyOf(i) = f /\ Parent(i) = o
    BY <1>2, BelowIs
  <2>4. QED BY <1>7, <2>2, <2>3
<1>10. e.nodes \in [Family -> Seq(Ident)]
  BY <1>1 DEF Shape
<1>11. /\ e.topo \in Seq(Ident) /\ IsInjective(e.topo) /\ OwnersFirst(e.topo)
       /\ Range(e.topo) = UNION {Below(s, q[1], q[2]) : q \in Q}
  BY <1>1 DEF Built
<1>12. ASSUME NEW g \in Family
       PROVE  /\ IsInjective(a.nodes[g])
              /\ Range(a.nodes[g]) = UNION {Below(s, g, p) : p \in
                   {p \in Seq(Pair) : <<g, p>> \in Q \cup {<<f, o>>}}}
  <2>1. /\ IsInjective(e.nodes[g]) /\ e.nodes[g] \in Seq(Ident)
        /\ Range(e.nodes[g]) = UNION {Below(s, g, p) : p \in {p \in Seq(Pair) : <<g, p>> \in Q}}
    BY <1>1, <1>10 DEF Built
  <2>2. CASE g # f
    <3>1. \A p \in Seq(Pair) : <<g, p>> \in Q \cup {<<f, o>>} <=> <<g, p>> \in Q
      BY <2>2
    <3>2. QED BY <1>3, <2>1, <2>2, <3>1
  <2>3. CASE g = f
    <3>1. \A p \in Seq(Pair) : <<g, p>> \in Q \cup {<<f, o>>} <=> <<g, p>> \in Q \/ p = o
      BY <2>3
    <3>2. UNION {Below(s, g, p) : p \in {p \in Seq(Pair) : <<g, p>> \in Q \cup {<<f, o>>}}}
            = Range(e.nodes[g]) \cup Below(s, f, o)
      BY <1>2, <2>1, <2>3, <3>1
    <3>3. \A p \in Seq(Pair) : <<g, p>> \in Q => Below(s, g, p) \subseteq Range(e.topo)
      BY <1>11
    <3>4. Range(e.nodes[g]) \cap Range(is) = {}
      BY <1>5, <1>9, <2>1, <3>3
    <3>5. /\ Range(e.nodes[g] \o is) = Range(e.nodes[g]) \cup Range(is)
          /\ IsInjective(e.nodes[g] \o is)
      <4> DEFINE x == e.nodes[g]
      <4>1. /\ x \in Seq(Ident) /\ is \in Seq(Ident)
            /\ IsInjective(x) /\ IsInjective(is) /\ Range(x) \cap Range(is) = {}
        BY <1>5, <2>1, <3>4
      <4> HIDE DEF x, is
      <4>2. QED BY <4>1, ConcatIs DEF x
    <3>6. QED BY <1>3, <1>5, <2>3, <3>2, <3>5
  <2>4. QED BY <2>2, <2>3
<1>13. /\ a.topo \in Seq(Ident) /\ IsInjective(a.topo)
       /\ Range(a.topo) = Range(e.topo) \cup Below(s, f, o)
  BY <1>3, <1>5, <1>9, <1>11, ConcatIs
<1>14. OwnersFirst(a.topo)
  <2> DEFINE A == Len(e.topo)
             B == Len(is)
  <2>1. /\ A \in Nat /\ B \in Nat /\ DOMAIN e.topo = 1 .. A /\ DOMAIN is = 1 .. B
    BY <1>5, <1>11
  <2>2. /\ DOMAIN a.topo = 1 .. (A + B) /\ \A n \in 1 .. A : a.topo[n] = e.topo[n]
        /\ \A n \in 1 .. (A + B) : n > A => n - A \in 1 .. B /\ a.topo[n] = is[n - A]
    BY <1>3, <1>5, <1>11, ConcatIs
  <2> HIDE DEF A, B
  <2>3. ASSUME NEW n \in 1 .. (A + B)
        PROVE  IsRoot(a.topo[n]) \/ \E m \in 1 .. (n - 1) : a.topo[m] = Parent(a.topo[n])
    <3>1. CASE n <= A
      <4>1. n \in 1 .. A /\ \A m \in 1 .. (n - 1) : m \in 1 .. A
        BY <2>1, <3>1
      <4>2. IsRoot(e.topo[n]) \/ \E m \in 1 .. (n - 1) : e.topo[m] = Parent(e.topo[n])
        BY <1>11, <2>1, <4>1 DEF OwnersFirst
      <4>3. QED BY <2>2, <4>1, <4>2
    <3>2. CASE ~(n <= A)
      <4>1. n > A
        BY <2>1, <3>2
      <4>2. a.topo[n] \in Below(s, f, o)
        BY <1>5, <2>1, <2>2, <4>1 DEF Range
      <4>3. Parent(a.topo[n]) = o /\ Len(a.topo[n]) = Len(o) + 1
        BY <1>2, <4>2, BelowIs
      <4>4. CASE o = << >>
        <5>1. Len(a.topo[n]) = 1
          BY <4>3, <4>4
        <5>2. QED BY <5>1 DEF IsRoot
      <4>5. CASE o # << >>
        <5>1. PICK m \in 1 .. A : e.topo[m] = o
          BY <1>6, <2>1, <4>5 DEF Range
        <5>2. m \in 1 .. (n - 1)
          BY <2>1, <4>1
        <5>3. QED BY <2>2, <4>3, <5>1, <5>2
      <4>6. QED BY <4>4, <4>5
    <3>3. QED BY <3>1, <3>2
  <2>4. QED BY <2>2, <2>3 DEF OwnersFirst
<1>15. a.observed = [i \in Range(a.topo) |-> Projected(s, i)]
  <2>1. DOMAIN e.observed \cup Below(s, f, o) = Range(a.topo)
    BY <1>6, <1>13
  <2>2. ASSUME NEW i \in Range(a.topo) PROVE a.observed[i] = Projected(s, i)
    <3>1. CASE i \in DOMAIN e.observed
      <4>1. e.observed[i] = Projected(s, i)
        BY <1>1, <1>6, <3>1 DEF Built
      <4>2. QED BY <1>3, <2>1, <3>1, <4>1
    <3>2. CASE i \notin DOMAIN e.observed
      <4>1. i \in Below(s, f, o)
        BY <2>1, <3>2
      <4>2. FamilyOf(i) = f /\ Parent(i) = o
        BY <1>2, <4>1, BelowIs
      <4>3. QED BY <1>3, <2>1, <3>2, <4>2 DEF Projected
    <3>3. QED BY <3>1, <3>2
  <2>3. /\ DOMAIN a.observed = Range(a.topo)
        /\ a.observed = [i \in DOMAIN a.observed |-> a.observed[i]]
    BY <1>3, <2>1
  <2>4. QED BY <2>2, <2>3
<1>16. ASSUME NEW q \in Q \cup {<<f, o>>}
       PROVE  /\ Fine(s, q[1], q[2])
              /\ q[1] \in Incremental => q[2] \in DOMAIN a.memory[q[1]]
  <2>1. CASE q = <<f, o>>
    BY <1>3, <1>4, <2>1
  <2>2. CASE q \in Q
    <3>1. q[1] \in Incremental => q[2] \in DOMAIN e.memory[q[1]]
      BY <1>1, <2>2 DEF Built
    <3>2. q[1] \in Incremental => q[2] \in DOMAIN ms[q[1]]
      BY <1>4, <3>1
    <3>3. QED BY <1>3, <1>8, <2>2, <3>2
  <2>3. QED BY <2>1, <2>2
<1>17. Range(a.topo) = UNION {Below(s, q[1], q[2]) : q \in Q \cup {<<f, o>>}}
  <2>1. <<f, o>>[1] = f /\ <<f, o>>[2] = o
    OBVIOUS
  <2>2. \A i : i \in Range(e.topo) <=> \E q \in Q : i \in Below(s, q[1], q[2])
    BY <1>11
  <2>3. \A i : i \in Range(a.topo) <=> \E q \in Q \cup {<<f, o>>} : i \in Below(s, q[1], q[2])
    BY <1>13, <2>1, <2>2
  <2>4. QED BY <2>3
<1>18. Built(s, a, Q \cup {<<f, o>>})
  BY <1>12, <1>13, <1>14, <1>15, <1>16, <1>17 DEF Built
<1>19. \A g \in Incremental : g < f => DOMAIN a.memory[g] = Owners(s, g)
  <2>1. f \in Nat /\ ~(f < f)
    BY FamiliesAre
  <2>2. QED BY <1>1, <1>3, <1>4, <2>1
<1>20. Stage(s, a, f, O \cup {o})
  BY <1>3, <1>4, <1>7, <1>18, <1>19 DEF Stage
<1>21. QED BY <1>6, <1>9, <1>20 DEF a, is

\* One question leads from stage to stage.
LEMMA AskKeeps ==
  ASSUME NEW s \in State, NEW f \in Family, NEW O \in SUBSET Owners(s, f),
         NEW o \in Owners(s, f), o \notin O, NEW e, Stage(s, e, f, O)
  PROVE  Stage(s, ask(s, f, e, o), f, O \cup {o})
<1>1. CASE e.error # "none"
  BY <1>1 DEF Stage, ask
<1>2. CASE e.error = "none"
  <2>1. o \in OwnerIdents(f)
    BY OwnersInIdents
  <2>2. Fine(s, f, o) => Below(s, f, o) \cap DOMAIN e.observed = {}
    BY <1>2, AcceptKeeps
  <2>3. Shape(e) /\ MemoryIsSound(e.memory)
    BY DEF Stage
  <2>4. CASE Fine(s, f, o)
    <3>1. ask(s, f, e, o) = accept(s, f, e, o, Selector(s, f, o), Listed(s, f, o))
      BY <1>2, <2>1, <2>2, <2>3, <2>4, AskIs
    <3>2. QED BY <1>2, <2>4, <3>1, AcceptKeeps
  <2>5. CASE ~Fine(s, f, o)
    <3>1. PICK wrong : wrong # "none" /\ ask(s, f, e, o) = [e EXCEPT !.error = wrong]
      BY <1>2, <2>1, <2>2, <2>3, <2>5, AskIs
    <3> DEFINE a == ask(s, f, e, o)
    <3> HIDE DEF a
    <3>2. a = [e EXCEPT !.error = wrong]
      BY <3>1 DEF a
    <3>3. a = [error |-> wrong, nodes |-> e.nodes, topo |-> e.topo,
               observed |-> e.observed, memory |-> e.memory]
      BY <2>3, <3>2 DEF Shape
    <3>4. Shape(a) /\ a.error = wrong /\ a.memory = e.memory
      BY <2>3, <3>3 DEF Shape
    <3>5. ~Acceptable(s)
      BY <2>5, AcceptableIs
    <3>6. Stage(s, a, f, O \cup {o})
      BY <2>3, <3>1, <3>4, <3>5 DEF Stage
    <3>7. QED BY <3>6 DEF a
  <2>6. QED BY <2>4, <2>5
<1>3. QED BY <1>1, <1>2

-----------------------------------------------------------------------------
(***************************************************************************)
(* One family: its owners, once each, and then the sweep.                  *)
(***************************************************************************)
LEMMA OwnersListed ==
  ASSUME NEW s \in State, NEW f \in Family, NEW O \in SUBSET Owners(s, f),
         NEW e, Stage(s, e, f, O), e.error = "none"
  PROVE  /\ owners(e, f) \in Seq(Seq(Pair)) /\ IsInjective(owners(e, f))
         /\ Range(owners(e, f)) = Owners(s, f)
<1>1. CASE OwnerId[f] = 0
  <2>1. owners(e, f) = << << >> >> /\ Owners(s, f) = {<< >>}
    BY <1>1 DEF owners, Owners
  <2>2. << << >> >> \in Seq(Seq(Pair)) /\ DOMAIN << << >> >> = {1} /\ << << >> >>[1] = << >>
    OBVIOUS
  <2>3. QED BY <2>1, <2>2 DEF IsInjective, Range
<1>2. CASE OwnerId[f] # 0
  <2> DEFINE g == OwnerId[f]
             Q == Asks(s, f, O)
  <2>1. g \in Family /\ g < f
    BY <1>2, FamiliesAre
  <2>2. owners(e, f) = e.nodes[g] /\ Owners(s, f) = {i \in Desires(s) : FamilyOf(i) = g}
    BY <1>2 DEF owners, Owners
  <2> HIDE DEF g, Q
  <2>3. Shape(e) /\ Built(s, e, Q)
    BY DEF Stage, Q
  <2>4. e.nodes[g] \in Seq(Ident)
    BY <2>1, <2>3 DEF Shape
  <2>5. Owners(s, g) \subseteq Seq(Pair)
    BY <2>1, OwnersInIdents, IdentsAre
  <2>6. \A p \in Seq(Pair) : <<g, p>> \in Q <=> p \in Owners(s, g)
    <3>1. ~(g = f)
      BY <2>1, FamiliesAre
    <3>2. QED BY <2>1, <3>1 DEF Asks, Q
  <2>7. \A p \in Owners(s, g) : Fine(s, g, p)
    <3>1. ASSUME NEW p \in Owners(s, g) PROVE Fine(s, g, p)
      <4>1. <<g, p>> \in Q /\ <<g, p>>[1] = g /\ <<g, p>>[2] = p
        BY <2>5, <2>6
      <4>2. QED BY <2>3, <4>1 DEF Built
    <3>2. QED BY <3>1
  <2>8. {i \in Desires(s) : FamilyOf(i) = g} = UNION {Below(s, g, p) : p \in Owners(s, g)}
    BY <2>1, <2>7, FamilyDesires
  <2>9. /\ IsInjective(e.nodes[g])
        /\ Range(e.nodes[g]) = UNION {Below(s, g, p) : p \in {p \in Seq(Pair) : <<g, p>> \in Q}}
    BY <2>1, <2>3 DEF Built
  <2>10. {p \in Seq(Pair) : <<g, p>> \in Q} = Owners(s, g)
    BY <2>5, <2>6
  <2>11. Range(e.nodes[g]) = Owners(s, f)
    BY <2>2, <2>8, <2>9, <2>10
  <2>12. owners(e, f) \in Seq(Seq(Pair))
    <3>1. e.nodes[g] \in Seq(Owners(s, f))
      BY <2>4, <2>11, SeqOfRange
    <3>2. Owners(s, f) \subseteq Seq(Pair)
      BY OwnersInIdents, IdentsAre
    <3>3. QED BY <2>2, <3>1, <3>2, SeqMonotonic
  <2>13. QED BY <2>2, <2>9, <2>11, <2>12
<1>3. QED BY <1>1, <1>2

\* An injective list of a set is as long as the set is large.
LEMMA ListedOnce ==
  ASSUME NEW S, NEW l \in Seq(S), IsInjective(l)
  PROVE  IsFiniteSet(Range(l)) /\ Cardinality(Range(l)) = Len(l)
<1>1. Len(l) \in Nat /\ DOMAIN l = 1 .. Len(l) /\ l \in [1 .. Len(l) -> S]
  BY LenProperties
<1>2. l \in [1 .. Len(l) -> Range(l)]
  BY <1>1 DEF Range
<1>3. l \in Bijection(1 .. Len(l), Range(l))
  BY <1>1, <1>2 DEF Bijection, Injection, Surjection, IsInjective, Range
<1>4. ExistsBijection(1 .. Len(l), Range(l))
  BY <1>3 DEF ExistsBijection
<1>5. IsFiniteSet(1 .. Len(l)) /\ Cardinality(1 .. Len(l)) = Len(l)
  <2>1. 1 \in Int /\ Len(l) \in Int
    BY <1>1
  <2>2. QED BY <1>1, <2>1, FS_Interval
<1>6. QED BY <1>4, <1>5, FS_Bijection

LEMMA PruneKeeps ==
  ASSUME NEW s \in State, NEW f \in Family, NEW e, Stage(s, e, f, Owners(s, f))
  PROVE  Stage(s, prune(f, e), f + 1, {})
<1> DEFINE D == DOMAIN e.memory[f]
           W == Owners(s, f)
<1>1. f \in Nat /\ \A g \in Family : g \in Nat
  BY FamiliesAre
<1>2. Asks(s, f + 1, {}) = Asks(s, f, W)
  <2>1. \A g \in Family : g < f + 1 <=> g < f \/ g = f
    BY <1>1
  <2>2. QED BY <2>1 DEF Asks
<1>3. CASE e.error # "none"
  BY <1>3 DEF prune, Stage
<1>4. CASE e.error = "none"
  <2>1. /\ Shape(e) /\ MemoryIsSound(e.memory) /\ Built(s, e, Asks(s, f, W))
        /\ \A g \in Incremental : g < f => DOMAIN e.memory[g] = Owners(s, g)
    BY <1>4 DEF Stage
  <2>2. W \subseteq OwnerIdents(f) /\ W \subseteq Seq(Pair)
    BY OwnersInIdents, IdentsAre
  <2>3. ASSUME f \in Incremental
        PROVE  IsFiniteSet(D) /\ W \subseteq D /\ D \subseteq OwnerIdents(f)
    <3>1. ASSUME NEW o \in W PROVE o \in D
      <4>1. <<f, o>> \in Asks(s, f, W) /\ <<f, o>>[1] = f /\ <<f, o>>[2] = o
        BY <2>2, AskedAre
      <4>2. QED BY <2>1, <2>3, <4>1 DEF Built
    <3>2. QED BY <2>1, <2>3, <3>1 DEF MemoryIsSound
  <2> HIDE DEF D
  <2>4. \A g \in Incremental : g < f + 1 /\ g # f => g < f
    BY <1>1, SelectorAssumption
  <2>5. ASSUME f \in Incremental => D = W
        PROVE  Stage(s, e, f + 1, {})
    <3>1. \A g \in Incremental : g < f + 1 => DOMAIN e.memory[g] = Owners(s, g)
      BY <2>1, <2>4, <2>5 DEF D
    <3>2. QED BY <1>2, <1>4, <2>1, <3>1 DEF Stage
  <2>6. CASE f \notin Incremental
    BY <2>5, <2>6 DEF prune
  <2>7. CASE f \in Incremental /\ OwnerId[f] = 0
    <3>1. D = W
      BY <2>3, <2>7 DEF Owners, OwnerIdents
    <3>2. prune(f, e) = e
      BY <2>7 DEF prune
    <3>3. QED BY <2>5, <3>1, <3>2
  <2>8. CASE f \in Incremental /\ Cardinality(D) <= Len(owners(e, f))
    <3>1. IsFiniteSet(W) /\ Cardinality(W) = Len(owners(e, f))
      BY <1>4, OwnersListed, ListedOnce
    <3>2. W \in SUBSET D /\ IsFiniteSet(D)
      BY <2>3, <2>8
    <3>3. Cardinality(W) <= Cardinality(D) /\ (Cardinality(W) = Cardinality(D) => W = D)
      BY <3>2, FS_Subset
    <3>4. Cardinality(W) \in Nat /\ Cardinality(D) \in Nat
      BY <3>1, <3>2, FS_CardinalityType
    <3>5. D = W
      BY <2>8, <3>1, <3>3, <3>4
    <3>6. prune(f, e) = e
      BY <2>8 DEF prune, D
    <3>7. QED BY <2>5, <3>5, <3>6
  <2>9. CASE /\ f \in Incremental /\ OwnerId[f] # 0
             /\ ~(Cardinality(D) <= Len(owners(e, f)))
    <3> DEFINE a == prune(f, e)
               mf == Restrict(e.memory[f], D \cap DOMAIN e.observed)
               m == [e.memory EXCEPT ![f] = mf]
    <3>1. a = [e EXCEPT !.memory = m]
      BY <1>4, <2>9 DEF prune, D
    <3>2. /\ DOMAIN mf = D \cap DOMAIN e.observed
          /\ \A o \in DOMAIN mf : mf[o] = e.memory[f][o]
      BY DEF Restrict
    <3> HIDE DEF a, mf, m
    <3>3. /\ DOMAIN e.observed = Range(e.topo)
          /\ \A o \in W : o # << >> => o \in Range(e.topo)
          /\ \A i \in Range(e.topo) : \E q \in Asks(s, f, W) : i \in Below(s, q[1], q[2])
      BY <2>1, BuiltIs
    <3>4. D \cap DOMAIN e.observed = W
      <4>1. ASSUME NEW o \in W PROVE o \in D /\ o \in DOMAIN e.observed
        <5>1. o # << >>
          BY <2>2, <2>9, OwnersAre
        <5>2. QED BY <2>3, <2>9, <3>3, <5>1
      <4>2. ASSUME NEW o \in D, o \in DOMAIN e.observed PROVE o \in W
        <5>1. PICK q \in Asks(s, f, W) : o \in Below(s, q[1], q[2])
          BY <3>3, <4>2
        <5>2. q[1] \in Family /\ q[2] \in Owners(s, q[1]) /\ q[2] \in OwnerIdents(q[1])
          BY AskedAre
        <5>3. Fine(s, q[1], q[2])
          BY <2>1 DEF Built
        <5>4. PICK k \in Range(Selector(s, q[1], q[2])) : o = Node(q[2], q[1], k)
          BY <5>1 DEF Below
        <5>5. k \in KeysOf[q[1]] /\ Selector(s, q[1], q[2]) \notin {Throws, Misshapen}
          BY <5>2, <5>3, KeysAre DEF Fine
        <5>6. o \in Desires(s)
          BY <5>2, <5>4, <5>5, DesiresAre
        <5>7. o \in OwnerIdents(f)
          BY <2>3, <2>9
        <5>8. FamilyOf(o) = OwnerId[f]
          BY <2>9, <5>7, OwnersAre
        <5>9. QED BY <2>9, <5>6, <5>8 DEF Owners
      <4>3. QED BY <4>1, <4>2
    <3>5. /\ m = [g \in Incremental |-> m[g]] /\ m[f] = mf
          /\ \A g \in Incremental : g # f => m[g] = e.memory[g]
      BY <2>1, <2>9 DEF m, MemoryIsSound
    <3>6. MemoryIsSound(m)
      <4>1. ASSUME NEW g \in Incremental
            PROVE  /\ IsFiniteSet(DOMAIN m[g]) /\ DOMAIN m[g] \subseteq OwnerIdents(g)
                   /\ \A o \in DOMAIN m[g] : Recorded(g, o, m[g][o])
        <5>1. CASE g # f
          BY <2>1, <3>5, <5>1 DEF MemoryIsSound
        <5>2. CASE g = f
          <6>1. DOMAIN mf \subseteq D
            BY <3>2
          <6>2. IsFiniteSet(DOMAIN mf)
            BY <2>3, <2>9, <6>1, FS_Subset
          <6>3. \A o \in D : Recorded(f, o, e.memory[f][o])
            BY <2>1, <2>9 DEF MemoryIsSound, D
          <6>4. \A o \in DOMAIN mf : Recorded(f, o, mf[o])
            BY <3>2, <6>1, <6>3
          <6>5. QED BY <2>3, <2>9, <3>5, <5>2, <6>1, <6>2, <6>4
        <5>3. QED BY <5>1, <5>2
      <4>2. QED BY <3>5, <4>1 DEF MemoryIsSound
    <3>7. a = [error |-> e.error, nodes |-> e.nodes, topo |-> e.topo,
               observed |-> e.observed, memory |-> m]
      BY <2>1, <3>1 DEF Shape
    <3>8. /\ Shape(a) /\ a.error = "none" /\ a.nodes = e.nodes /\ a.topo = e.topo
          /\ a.observed = e.observed /\ a.memory = m
      BY <1>4, <2>1, <3>7 DEF Shape
    <3>9. ASSUME NEW q \in Asks(s, f, W), q[1] \in Incremental
          PROVE  q[2] \in DOMAIN m[q[1]]
      <4>1. q[2] \in DOMAIN e.memory[q[1]] /\ q[2] \in Owners(s, q[1])
        BY <2>1, <3>9, AskedAre DEF Built
      <4>2. QED BY <3>2, <3>4, <3>5, <3>9, <4>1
    <3>10. Built(s, a, Asks(s, f, W))
      BY <2>1, <3>8, <3>9 DEF Built
    <3>11. \A g \in Incremental : g < f + 1 => DOMAIN a.memory[g] = Owners(s, g)
      BY <2>1, <2>4, <3>2, <3>4, <3>5, <3>8
    <3>12. Stage(s, a, f + 1, {})
      BY <1>2, <3>6, <3>8, <3>10, <3>11 DEF Stage
    <3>13. QED BY <3>12 DEF a
  <2>10. QED BY <2>6, <2>7, <2>8, <2>9
<1>5. QED BY <1>3, <1>4

\* v tells what has been evaluated after the first n owners of f.
Visits(s, e, f, v) ==
  v = [n \in 0 .. Len(owners(e, f)) |->
         IF n = 0 THEN e ELSE ask(s, f, v[n - 1], owners(e, f)[n])]

LEMMA VisitsRun ==
  ASSUME NEW s, NEW e, NEW f, Len(owners(e, f)) \in Nat
  PROVE  \E v : Visits(s, e, f, v) /\ evaluateFamily(s, e, f) = prune(f, v[Len(owners(e, f))])
<1> DEFINE N == Len(owners(e, f))
           By(v, n) == IF n = 0 THEN e ELSE ask(s, f, v[n - 1], owners(e, f)[n])
           Solves(v, m) == v = [n \in 0 .. m |-> By(v, n)]
           T == {m \in 0 .. N : \E v : Solves(v, m)}
<1>1. 0 \in T
  <2> DEFINE v == [n \in 0 .. 0 |-> e]
  <2>1. v = [n \in 0 .. 0 |-> By(v, n)]
    OBVIOUS
  <2>2. Solves(v, 0)
    BY <2>1
  <2> HIDE DEF v, Solves
  <2>3. QED BY <2>2
<1>2. ASSUME NEW m \in 1 .. N, m - 1 \in T PROVE m \in T
  <2>1. m \in Nat /\ m \in 0 .. N
    OBVIOUS
  <2>2. PICK v : Solves(v, m - 1)
    BY <1>2
  <2> DEFINE w == [n \in 0 .. m |-> IF n < m THEN v[n] ELSE By(v, n)]
  <2>3. ASSUME NEW n \in 0 .. m PROVE w[n] = By(w, n)
    <3>1. n # 0 => n - 1 \in 0 .. m /\ n - 1 < m
      BY <2>1
    <3>2. n # 0 => w[n - 1] = v[n - 1]
      BY <3>1
    <3>3. By(w, n) = By(v, n)
      BY <3>2
    <3>4. CASE n < m
      <4>1. n \in 0 .. (m - 1)
        BY <2>1, <3>4
      <4>2. v[n] = By(v, n)
        BY <2>2, <4>1
      <4>3. w[n] = v[n]
        BY <3>4
      <4> HIDE DEF w, By
      <4>4. QED BY <3>3, <4>2, <4>3
    <3>5. CASE ~(n < m)
      <4>1. w[n] = By(v, n)
        BY <3>5
      <4> HIDE DEF w, By
      <4>2. QED BY <3>3, <4>1
    <3>6. QED BY <3>4, <3>5
  <2>4. w = [n \in 0 .. m |-> By(w, n)]
    <3> HIDE DEF By
    <3>1. QED BY <2>3
  <2>5. Solves(w, m)
    BY <2>4
  <2> HIDE DEF w, Solves
  <2>6. QED BY <2>1, <2>5
<1>3. N \in T
  <2> HIDE DEF T
  <2>1. QED BY <1>1, <1>2, ByStages
<1>4. \A v : Solves(v, N) <=> Visits(s, e, f, v)
  BY DEF Visits
<1>5. \E v : Visits(s, e, f, v)
  <2> HIDE DEF Solves
  <2>1. QED BY <1>3, <1>4
<1> DEFINE V == CHOOSE u : Visits(s, e, f, u)
<1>6. evaluateFamily(s, e, f) = prune(f, V[N])
  BY DEF evaluateFamily, Visits
<1>7. Visits(s, e, f, V)
  BY <1>5
<1> HIDE DEF V
<1>8. QED BY <1>6, <1>7

LEMMA FamilyKeeps ==
  ASSUME NEW s \in State, NEW f \in Family, NEW e, Stage(s, e, f, {})
  PROVE  Stage(s, evaluateFamily(s, e, f), f + 1, {})
<1> DEFINE os == owners(e, f)
           N == Len(os)
<1>1. N \in Nat
  <2>1. CASE OwnerId[f] = 0
    BY <2>1 DEF owners
  <2>2. CASE OwnerId[f] # 0
    <3>1. OwnerId[f] \in Family /\ e.nodes \in [Family -> Seq(Ident)]
      BY <2>2, FamiliesAre DEF Stage, Shape
    <3>2. e.nodes[OwnerId[f]] \in Seq(Ident)
      BY <3>1
    <3>3. QED BY <2>2, <3>2 DEF owners
  <2>3. QED BY <2>1, <2>2
<1>2. PICK v : Visits(s, e, f, v) /\ evaluateFamily(s, e, f) = prune(f, v[N])
  BY <1>1, VisitsRun
<1>3. v[0] = e /\ \A n \in 1 .. N : v[n] = ask(s, f, v[n - 1], os[n])
  <2> HIDE DEF os
  <2>1. v = [n \in 0 .. N |-> IF n = 0 THEN e ELSE ask(s, f, v[n - 1], os[n])]
    BY <1>2 DEF Visits, os
  <2>2. 0 \in 0 .. N /\ \A n \in 1 .. N : n \in 0 .. N /\ n # 0
    BY <1>1
  <2>3. v[0] = e
    BY <2>1, <2>2
  <2>4. ASSUME NEW n \in 1 .. N PROVE v[n] = ask(s, f, v[n - 1], os[n])
    BY <2>1, <2>2
  <2>5. QED BY <2>3, <2>4
<1>4. CASE e.error # "none"
  <2> DEFINE T == {n \in 0 .. N : v[n] = e}
  <2>1. 0 \in T
    BY <1>1, <1>3
  <2>2. ASSUME NEW n \in 1 .. N, n - 1 \in T PROVE n \in T
    <3>1. v[n] = ask(s, f, v[n - 1], os[n]) /\ v[n - 1] = e /\ n \in 0 .. N
      BY <1>1, <1>3, <2>2
    <3> HIDE DEF os
    <3>2. ask(s, f, e, os[n]) = e
      BY <1>4 DEF ask
    <3>3. QED BY <3>1, <3>2
  <2>3. N \in T
    <3> HIDE DEF T
    <3>1. QED BY <1>1, <2>1, <2>2, ByStages
  <2>4. v[N] = e
    BY <2>3
  <2>5. Stage(s, e, f, Owners(s, f))
    BY <1>4 DEF Stage
  <2>6. QED BY <1>2, <2>4, <2>5, PruneKeeps
<1>5. CASE e.error = "none"
  <2>1. os \in Seq(Seq(Pair)) /\ IsInjective(os) /\ Range(os) = Owners(s, f)
    BY <1>5, OwnersListed
  <2> DEFINE Seen(n) == {os[m] : m \in 1 .. n}
             T == {n \in 0 .. N : Stage(s, v[n], f, Seen(n))}
  <2>2. 0 \in T
    <3>1. Seen(0) = {}
      OBVIOUS
    <3> HIDE DEF Seen
    <3>2. Stage(s, v[0], f, Seen(0))
      <4> HIDE DEF N
      <4>1. v[0] = e
        BY <1>3
      <4>2. QED BY <3>1, <4>1
    <3>3. 0 \in 0 .. N
      BY <1>1
    <3> HIDE DEF N
    <3>4. QED BY <3>2, <3>3
  <2>3. ASSUME NEW n \in 1 .. N, n - 1 \in T PROVE n \in T
    <3>1. DOMAIN os = 1 .. N
      BY <2>1
    <3>2. os[n] \in Owners(s, f) /\ Seen(n - 1) \in SUBSET Owners(s, f)
      <4>1. \A m \in 1 .. (n - 1) : m \in 1 .. N
        BY <1>1
      <4> HIDE DEF os, N
      <4>2. \A m \in 1 .. N : os[m] \in Owners(s, f)
        BY <2>1, <3>1 DEF Range
      <4>3. QED BY <4>1, <4>2
    <3>3. os[n] \notin Seen(n - 1)
      <4>1. \A m \in 1 .. (n - 1) : m \in 1 .. N /\ m # n
        BY <1>1
      <4>2. \A m \in 1 .. (n - 1) : os[m] # os[n]
        BY <2>1, <3>1, <4>1 DEF IsInjective
      <4>3. QED BY <4>2
    <3>4. Seen(n) = Seen(n - 1) \cup {os[n]}
      <4>1. 1 .. n = (1 .. (n - 1)) \cup {n}
        BY <1>1
      <4>2. QED BY <4>1
    <3>5. Stage(s, v[n - 1], f, Seen(n - 1))
      BY <2>3
    <3> HIDE DEF Seen, os
    <3>6. Stage(s, ask(s, f, v[n - 1], os[n]), f, Seen(n - 1) \cup {os[n]})
      BY <3>2, <3>3, <3>5, AskKeeps
    <3>7. Stage(s, v[n], f, Seen(n))
      BY <1>3, <3>4, <3>6
    <3>8. n \in 0 .. N
      BY <1>1
    <3>9. QED BY <3>7, <3>8
  <2>4. N \in T
    <3> HIDE DEF T
    <3>1. QED BY <1>1, <2>2, <2>3, ByStages
  <2>5. Seen(N) = Owners(s, f)
    BY <2>1 DEF Range
  <2>6. Stage(s, v[N], f, Owners(s, f))
    BY <2>4, <2>5
  <2>7. QED BY <1>2, <2>6, PruneKeeps
<1>6. QED BY <1>4, <1>5

-----------------------------------------------------------------------------
(***************************************************************************)
(* All the families, in compiled order.                                    *)
(***************************************************************************)
Families(s, m, v) ==
  v = [f \in 0 .. NFamilies |-> IF f = 0 THEN Start(m) ELSE evaluateFamily(s, v[f - 1], f)]

LEMMA FamiliesRun ==
  ASSUME NEW s, NEW m
  PROVE  \E v : Families(s, m, v) /\ evaluate(s, m) = v[NFamilies]
<1> DEFINE N == NFamilies
           By(v, n) == IF n = 0 THEN Start(m) ELSE evaluateFamily(s, v[n - 1], n)
           Solves(v, k) == v = [n \in 0 .. k |-> By(v, n)]
           T == {k \in 0 .. N : \E v : Solves(v, k)}
<1> N \in Nat
  BY FamiliesAre
<1>1. 0 \in T
  <2> DEFINE v == [n \in 0 .. 0 |-> Start(m)]
  <2>1. v = [n \in 0 .. 0 |-> By(v, n)]
    OBVIOUS
  <2>2. Solves(v, 0)
    BY <2>1
  <2> HIDE DEF v, Solves
  <2>3. QED BY <2>2
<1>2. ASSUME NEW k \in 1 .. N, k - 1 \in T PROVE k \in T
  <2>1. k \in Nat /\ k \in 0 .. N
    OBVIOUS
  <2>2. PICK v : Solves(v, k - 1)
    BY <1>2
  <2> DEFINE w == [n \in 0 .. k |-> IF n < k THEN v[n] ELSE By(v, n)]
  <2>3. ASSUME NEW n \in 0 .. k PROVE w[n] = By(w, n)
    <3>1. n # 0 => n - 1 \in 0 .. k /\ n - 1 < k
      BY <2>1
    <3>2. n # 0 => w[n - 1] = v[n - 1]
      BY <3>1
    <3>3. By(w, n) = By(v, n)
      BY <3>2
    <3>4. CASE n < k
      <4>1. n \in 0 .. (k - 1)
        BY <2>1, <3>4
      <4>2. v[n] = By(v, n)
        BY <2>2, <4>1
      <4>3. w[n] = v[n]
        BY <3>4
      <4> HIDE DEF w, By
      <4>4. QED BY <3>3, <4>2, <4>3
    <3>5. CASE ~(n < k)
      <4>1. w[n] = By(v, n)
        BY <3>5
      <4> HIDE DEF w, By
      <4>2. QED BY <3>3, <4>1
    <3>6. QED BY <3>4, <3>5
  <2>4. w = [n \in 0 .. k |-> By(w, n)]
    <3> HIDE DEF By
    <3>1. QED BY <2>3
  <2>5. Solves(w, k)
    BY <2>4
  <2> HIDE DEF w, Solves
  <2>6. QED BY <2>1, <2>5
<1>3. N \in T
  <2> HIDE DEF T
  <2>1. QED BY <1>1, <1>2, ByStages
<1>4. \A v : Solves(v, N) <=> Families(s, m, v)
  BY DEF Families
<1>5. \E v : Families(s, m, v)
  <2> HIDE DEF Solves
  <2>1. QED BY <1>3, <1>4
<1> DEFINE V == CHOOSE u : Families(s, m, u)
<1>6. evaluate(s, m) = V[N]
  BY DEF evaluate, Families
<1>7. Families(s, m, V)
  BY <1>5
<1> HIDE DEF V
<1>8. QED BY <1>6, <1>7

LEMMA StartIsBuilt ==
  ASSUME NEW s \in State, NEW m, MemoryIsSound(m)
  PROVE  Stage(s, Start(m), 1, {})
<1> DEFINE e == Start(m)
<1>1. /\ Shape(e) /\ e.memory = m /\ e.error = "none" /\ e.topo = << >>
      /\ e.observed = << >> /\ \A g \in Family : e.nodes[g] = << >>
  BY DEF Start, Shape
<1> HIDE DEF e
<1>2. Asks(s, 1, {}) = {}
  BY FamiliesAre DEF Asks
<1>3. /\ IsInjective(<< >>) /\ Range(<< >>) = {} /\ << >> \in Seq(Ident) /\ OwnersFirst(<< >>)
  BY DEF IsInjective, Range, OwnersFirst
<1>4. << >> = [i \in {} |-> Projected(s, i)]
  OBVIOUS
<1>5. Built(s, e, {})
  BY <1>1, <1>3, <1>4 DEF Built
<1>6. \A g \in Incremental : ~(g < 1)
  BY FamiliesAre, SelectorAssumption
<1>7. Stage(s, e, 1, {})
  BY <1>1, <1>2, <1>5, <1>6 DEF Stage
<1>8. QED BY <1>7 DEF e

LEMMA EvaluateStages ==
  ASSUME NEW s \in State, NEW m, MemoryIsSound(m)
  PROVE  Stage(s, evaluate(s, m), NFamilies + 1, {})
<1>1. PICK v : Families(s, m, v) /\ evaluate(s, m) = v[NFamilies]
  BY FamiliesRun
<1> DEFINE T == {f \in 0 .. NFamilies : Stage(s, v[f], f + 1, {})}
<1>2. NFamilies \in Nat /\ Family = 1 .. NFamilies
  BY FamiliesAre
<1>3. v[0] = Start(m) /\ \A f \in 1 .. NFamilies : v[f] = evaluateFamily(s, v[f - 1], f)
  <2>1. v = [f \in 0 .. NFamilies |->
               IF f = 0 THEN Start(m) ELSE evaluateFamily(s, v[f - 1], f)]
    BY <1>1 DEF Families
  <2>2. 0 \in 0 .. NFamilies /\ \A n \in 1 .. NFamilies : n \in 0 .. NFamilies /\ n # 0
    BY <1>2
  <2>3. QED BY <2>1, <2>2
<1>4. 0 \in T
  <2>1. Stage(s, v[0], 1, {}) /\ 0 + 1 = 1 /\ 0 \in 0 .. NFamilies
    BY <1>2, <1>3, StartIsBuilt
  <2>2. QED BY <2>1
<1>5. ASSUME NEW f \in 1 .. NFamilies, f - 1 \in T PROVE f \in T
  <2>1. (f - 1) + 1 = f /\ f \in Family /\ f \in 0 .. NFamilies
    BY <1>2
  <2>2. Stage(s, v[f - 1], f, {})
    BY <1>5, <2>1
  <2>3. Stage(s, evaluateFamily(s, v[f - 1], f), f + 1, {})
    BY <2>1, <2>2, FamilyKeeps
  <2>4. QED BY <1>3, <2>1, <2>3
<1>6. NFamilies \in T
  <2> HIDE DEF T
  <2>1. QED BY <1>2, <1>4, <1>5, ByStages
<1>7. QED BY <1>1, <1>6

\* An evaluation over a sound memory answers what the state itself desires.
LEMMA EvaluateIs ==
  ASSUME NEW s \in State, NEW m, MemoryIsSound(m),
         NEW e, e = evaluate(s, m)
  PROVE  /\ MemoryIsSound(e.memory)
         /\ e.error = "none" <=> Acceptable(s)
         /\ e.error = "none" => /\ Faithful(e, s)
                                /\ \A f \in Incremental : DOMAIN e.memory[f] = Owners(s, f)
<1> DEFINE N == NFamilies
           Q == Asks(s, N + 1, {})
<1>1. Stage(s, e, N + 1, {})
  BY EvaluateStages
<1>2. MemoryIsSound(e.memory) /\ (e.error # "none" => ~Acceptable(s))
  BY <1>1 DEF Stage
<1>3. CASE e.error # "none"
  BY <1>2, <1>3
<1>4. CASE e.error = "none"
  <2>1. Built(s, e, Q) /\ \A g \in Incremental : g < N + 1 => DOMAIN e.memory[g] = Owners(s, g)
    BY <1>1, <1>4 DEF Stage
  <2>2. \A g \in Family : g \in Nat /\ g < N + 1
    BY FamiliesAre
  <2>3. \A f \in Incremental : DOMAIN e.memory[f] = Owners(s, f)
    BY <2>1, <2>2, SelectorAssumption
  <2>4. \A g \in Family : \A o \in Owners(s, g) : <<g, o>> \in Q
    <3>1. ASSUME NEW g \in Family, NEW o \in Owners(s, g) PROVE <<g, o>> \in Q
      <4>1. o \in Seq(Pair)
        BY OwnersInIdents, IdentsAre
      <4>2. <<g, o>>[1] = g /\ <<g, o>>[2] = o
        OBVIOUS
      <4>3. QED BY <2>2, <4>1, <4>2 DEF Asks
    <3>2. QED BY <3>1
  <2>5. ASSUME NEW q \in Q
        PROVE  q[1] \in Family /\ q[2] \in Owners(s, q[1])
    BY DEF Asks
  <2> HIDE DEF Q, N
  <2>6. ASSUME NEW g \in Family, NEW o \in Owners(s, g) PROVE Fine(s, g, o)
    <3>1. <<g, o>> \in Q /\ <<g, o>>[1] = g /\ <<g, o>>[2] = o
      BY <2>4
    <3>2. QED BY <2>1, <3>1 DEF Built
  <2>7. Acceptable(s)
    BY <2>6, AcceptableIs
  <2>8. Range(e.topo) = UNION {Below(s, q[1], q[2]) : q \in Q}
    BY <2>1 DEF Built
  <2>9. \A g \in Family : {i \in Desires(s) : FamilyOf(i) = g}
                            = UNION {Below(s, g, o) : o \in Owners(s, g)}
    BY <2>6, FamilyDesires
  <2>10. ASSUME NEW i \in Range(e.topo) PROVE i \in Desires(s)
    <3>1. PICK q \in Q : i \in Below(s, q[1], q[2])
      BY <2>8
    <3>2. q[1] \in Family /\ q[2] \in Owners(s, q[1])
      BY <2>5
    <3>3. i \in {j \in Desires(s) : FamilyOf(j) = q[1]}
      BY <2>9, <3>1, <3>2
    <3>4. QED BY <3>3
  <2>11. ASSUME NEW i \in Desires(s) PROVE i \in Range(e.topo)
    <3>1. PICK g \in Family : i \in IdentsOf(g)
      BY DEF Desires, Ident
    <3>2. FamilyOf(i) = g
      BY <3>1, IdentsAre
    <3>3. PICK o \in Owners(s, g) : i \in Below(s, g, o)
      BY <2>9, <3>2
    <3>4. <<g, o>> \in Q /\ <<g, o>>[1] = g /\ <<g, o>>[2] = o
      BY <2>4
    <3>5. QED BY <2>8, <3>3, <3>4
  <2>12. Range(e.topo) = Desires(s)
    BY <2>10, <2>11
  <2>13. e.observed = [i \in Range(e.topo) |-> Projected(s, i)]
         /\ IsInjective(e.topo) /\ OwnersFirst(e.topo)
    BY <2>1 DEF Built
  <2>14. Faithful(e, s)
    BY <2>12, <2>13 DEF Faithful, Projected
  <2>15. QED BY <1>2, <1>4, <2>3, <2>7, <2>14
<1>5. QED BY <1>3, <1>4

-----------------------------------------------------------------------------
(***************************************************************************)
(* What a state desires is coherent: every owner is there, and no two      *)
(* nodes compete for a slot.                                               *)
(***************************************************************************)
LEMMA DesireIs ==
  ASSUME NEW s \in State, NEW i \in Desires(s)
  PROVE  \E f \in Family : \E o \in OwnerIdents(f) : \E k \in KeysOf[f] :
           /\ i = Node(o, f, k) /\ o \in Owners(s, f)
           /\ Selector(s, f, o) \notin {Throws, Misshapen} /\ k \in Range(Selector(s, f, o))
<1>1. PICK f \in Family : i \in IdentsOf(f)
  BY DEF Desires, Ident
<1> DEFINE o == Parent(i)
           k == Last(i)[2]
<1>2. o \in OwnerIdents(f) /\ k \in KeysOf[f] /\ i = Node(o, f, k)
  BY <1>1, IdentsAre DEF Node
<1> HIDE DEF o, k
<1>3. QED BY <1>2, DesiresAre

\* The slot of a node is its own identity with, in a "one" family, OneSlot as key.
LEMMA SlotIs ==
  ASSUME NEW f \in Family, NEW o \in OwnerIdents(f), NEW k \in KeysOf[f]
  PROVE  SlotIdent(Node(o, f, k)) = Append(o, <<f, IF f \in Cardinality1 THEN OneSlot ELSE k>>)
<1> DEFINE i == Node(o, f, k)
<1>1. /\ o \in Seq(Pair) /\ i = Append(o, <<f, k>>) /\ FamilyOf(i) = f /\ Len(i) = Len(o) + 1
  BY NodeIs, OwnersAre DEF Node
<1>2. [Append(o, <<f, k>>) EXCEPT ![Len(o) + 1] = <<f, OneSlot>>] = Append(o, <<f, OneSlot>>)
  <2> DEFINE a == Append(o, <<f, k>>)
             b == Append(o, <<f, OneSlot>>)
             c == [a EXCEPT ![Len(o) + 1] = <<f, OneSlot>>]
  <2>1. /\ Len(o) \in Nat
        /\ DOMAIN a = 1 .. (Len(o) + 1) /\ DOMAIN b = 1 .. (Len(o) + 1)
    BY <1>1
  <2>2. /\ \A n \in 1 .. Len(o) : a[n] = o[n] /\ b[n] = o[n]
        /\ b[Len(o) + 1] = <<f, OneSlot>>
    BY <1>1
  <2>3. a = [n \in 1 .. (Len(o) + 1) |-> a[n]] /\ b = [n \in 1 .. (Len(o) + 1) |-> b[n]]
    BY <1>1
  <2> HIDE DEF a, b
  <2>4. /\ c = [n \in 1 .. (Len(o) + 1) |-> c[n]]
        /\ \A n \in 1 .. (Len(o) + 1) :
             c[n] = IF n = Len(o) + 1 THEN <<f, OneSlot>> ELSE a[n]
    BY <2>1
  <2> HIDE DEF c
  <2>5. ASSUME NEW n \in 1 .. (Len(o) + 1) PROVE c[n] = b[n]
    <3>1. n = Len(o) + 1 \/ (n \in 1 .. Len(o) /\ n # Len(o) + 1)
      BY <2>1
    <3>2. QED BY <2>2, <2>4, <3>1
  <2>6. c = b
    BY <2>3, <2>4, <2>5
  <2>7. QED BY <2>6 DEF a, b, c
<1> HIDE DEF i
<1>3. SlotIdent(i) = IF f \in Cardinality1 THEN [i EXCEPT ![Len(i)] = <<f, OneSlot>>] ELSE i
  BY <1>1 DEF SlotIdent
<1>4. SlotIdent(i) = Append(o, <<f, IF f \in Cardinality1 THEN OneSlot ELSE k>>)
  <2>1. CASE f \in Cardinality1
    BY <1>1, <1>2, <1>3, <2>1
  <2>2. CASE f \notin Cardinality1
    BY <1>1, <1>3, <2>2
  <2>3. QED BY <2>1, <2>2
<1>5. QED BY <1>4 DEF i

LEMMA AppendsDiffer ==
  ASSUME NEW S, NEW a \in Seq(S), NEW b \in Seq(S), NEW x, NEW y,
         Append(a, x) = Append(b, y)
  PROVE  a = b /\ x = y
<1>1. /\ Len(Append(a, x)) = Len(a) + 1 /\ Len(Append(b, y)) = Len(b) + 1
      /\ Len(a) \in Nat /\ Len(b) \in Nat
  OBVIOUS
<1>2. Len(a) = Len(b)
  BY <1>1
<1>3. \A n \in 1 .. Len(a) : a[n] = b[n]
  <2>1. ASSUME NEW n \in 1 .. Len(a) PROVE a[n] = b[n]
    <3>1. Append(a, x)[n] = a[n] /\ Append(b, y)[n] = b[n]
      BY <1>2
    <3>2. QED BY <3>1
  <2>2. QED BY <2>1
<1>4. a = b
  BY <1>2, <1>3
<1>5. Append(a, x)[Len(a) + 1] = x /\ Append(b, y)[Len(b) + 1] = y
  OBVIOUS
<1>6. QED BY <1>2, <1>4, <1>5

LEMMA DesiresCohere ==
  ASSUME NEW s \in State
  PROVE  Coherent(Desires(s))
<1>1. Desires(s) \subseteq Ident
  BY DEF Desires
<1>2. ASSUME NEW i \in Desires(s) PROVE IsRoot(i) \/ Parent(i) \in Desires(s)
  <2>1. PICK f, o, k : /\ f \in Family /\ o \in OwnerIdents(f) /\ k \in KeysOf[f]
                         /\ i = Node(o, f, k) /\ o \in Owners(s, f)
    BY DesireIs
  <2>2. Len(i) = Len(o) + 1 /\ Parent(i) = o
    BY <2>1, NodeIs
  <2>3. CASE OwnerId[f] = 0
    <3>1. o = << >>
      BY <2>1, <2>3, OwnersAre
    <3>2. QED BY <2>2, <3>1 DEF IsRoot
  <2>4. CASE OwnerId[f] # 0
    BY <2>1, <2>2, <2>4 DEF Owners
  <2>5. QED BY <2>3, <2>4
<1>3. ASSUME NEW i \in Desires(s), NEW j \in Desires(s), SlotIdent(i) = SlotIdent(j)
      PROVE  i = j
  <2>1. PICK f, o, k :
             /\ f \in Family /\ o \in OwnerIdents(f) /\ k \in KeysOf[f]
             /\ i = Node(o, f, k) /\ Selector(s, f, o) \notin {Throws, Misshapen}
             /\ k \in Range(Selector(s, f, o))
    BY DesireIs
  <2>2. PICK g, p, l :
             /\ g \in Family /\ p \in OwnerIdents(g) /\ l \in KeysOf[g]
             /\ j = Node(p, g, l) /\ Selector(s, g, p) \notin {Throws, Misshapen}
             /\ l \in Range(Selector(s, g, p))
    BY DesireIs
  <2> DEFINE x == <<f, IF f \in Cardinality1 THEN OneSlot ELSE k>>
             y == <<g, IF g \in Cardinality1 THEN OneSlot ELSE l>>
  <2>3. SlotIdent(i) = Append(o, x) /\ SlotIdent(j) = Append(p, y)
    BY <2>1, <2>2, SlotIs
  <2>4. o \in Seq(Pair) /\ p \in Seq(Pair)
    BY <2>1, <2>2, OwnersAre
  <2>5. o = p /\ x = y
    <3> HIDE DEF x, y
    <3>1. Append(o, x) = Append(p, y)
      BY <1>3, <2>3
    <3>2. QED BY <2>4, <3>1, AppendsDiffer
  <2>6. f = g /\ (f \notin Cardinality1 => k = l)
    BY <2>5
  <2>7. CASE f \notin Cardinality1
    BY <2>1, <2>2, <2>5, <2>6, <2>7
  <2>8. CASE f \in Cardinality1
    <3> DEFINE keys == Selector(s, f, o)
    <3>1. keys \in Seq(KeysOf[f]) /\ Len(keys) <= 1
      BY <2>1, <2>8, KeysAre
    <3>2. k \in Range(keys) /\ l \in Range(keys)
      BY <2>1, <2>2, <2>5, <2>6
    <3> HIDE DEF keys
    <3>3. PICK a \in DOMAIN keys, b \in DOMAIN keys : k = keys[a] /\ l = keys[b]
      BY <3>2 DEF Range
    <3>4. DOMAIN keys = 1 .. Len(keys) /\ Len(keys) \in Nat
      BY <3>1
    <3>5. a = b
      BY <3>1, <3>3, <3>4
    <3>6. QED BY <2>1, <2>2, <2>5, <2>6, <3>3, <3>5
  <2>9. QED BY <2>7, <2>8
<1>4. QED BY <1>1, <1>2, <1>3 DEF Coherent

-----------------------------------------------------------------------------
(***************************************************************************)
(* The invariant: the memory holds nothing but what selectors answered in  *)
(* states of the application, and each evaluation that waits for the mutex *)
(* and the one that was published are faithful to their state.             *)
(***************************************************************************)
EvalInv ==
  /\ MemoryIsSound(memory)
  /\ DOMAIN call = Caller
  /\ \A c \in Caller : call[c] # Idle => call[c].state \in State
  /\ EvaluationIsPure
  /\ desired.state # NoState => desired.state \in State /\ Faithful(desired, desired.state)

\* Faithfulness is a matter of the order and the projections alone.
LEMMA FaithfulIs ==
  ASSUME NEW x, NEW y, NEW s, x.topo = y.topo, x.observed = y.observed, Faithful(x, s)
  PROVE  Faithful(y, s)
BY DEF Faithful

LEMMA EvalInit == Init => EvalInv
<1> SUFFICES ASSUME Init PROVE EvalInv
  OBVIOUS
<1>1. /\ memory = EmptyMemory /\ call = [c \in Caller |-> Idle] /\ desired.state = NoState
  BY DEF Init
<1>2. MemoryIsSound(EmptyMemory)
  <2>1. EmptyMemory = [f \in Incremental |-> << >>]
    BY DEF EmptyMemory
  <2>2. IsFiniteSet({})
    BY FS_EmptySet
  <2>3. DOMAIN << >> = {}
    OBVIOUS
  <2>4. \A f \in Incremental : DOMAIN EmptyMemory[f] = {}
    BY <2>1, <2>3
  <2>5. QED BY <2>1, <2>2, <2>4 DEF MemoryIsSound
<1>3. DOMAIN call = Caller /\ \A c \in Caller : call[c] = Idle
  BY <1>1
<1>4. QED BY <1>1, <1>2, <1>3 DEF EvalInv, EvaluationIsPure

\* The step that evaluates, and what it does to the memory and to its caller.
LEMMA EvaluateStep ==
  ASSUME EvalInv, NEW c \in Caller, NEW s \in State, Evaluate(c, s)
  PROVE  /\ EvalInv'
         /\ call'[c].state = s /\ \A d \in Caller : d # c => call'[d] = call[d]
         /\ call'[c].error = "none" => \A f \in Incremental : DOMAIN memory'[f] = Owners(s, f)
<1> DEFINE e == evaluate(s, memory)
           r == [state |-> s, error |-> e.error, topo |-> e.topo, observed |-> e.observed]
<1>1. MemoryIsSound(memory) /\ DOMAIN call = Caller
  BY DEF EvalInv
<1>2. /\ MemoryIsSound(e.memory)
      /\ e.error = "none" <=> Acceptable(s)
      /\ e.error = "none" => /\ Faithful(e, s)
                             /\ \A f \in Incremental : DOMAIN e.memory[f] = Owners(s, f)
  <2> HIDE DEF e
  <2>1. e = evaluate(s, memory)
    BY DEF e
  <2>2. QED BY <1>1, <2>1, EvaluateIs
<1>3. memory' = e.memory /\ call' = [call EXCEPT ![c] = r] /\ desired' = desired
  BY DEF Evaluate
<1> HIDE DEF e
<1>4. /\ DOMAIN call' = Caller /\ call'[c] = r
      /\ \A d \in Caller : d # c => call'[d] = call[d]
  <2> HIDE DEF r
  <2>1. QED BY <1>1, <1>3
<1>5. /\ call'[c].state = s /\ call'[c].error = e.error /\ call'[c].topo = e.topo
      /\ call'[c].observed = e.observed
  BY <1>4
<1> HIDE DEF r
<1>6. e.error = "none" => Faithful(call'[c], s)
  BY <1>2, <1>5, FaithfulIs
<1>7. ASSUME NEW d \in Caller, call'[d] # Idle
      PROVE  /\ call'[d].state \in State
             /\ call'[d].error = "none" <=> Acceptable(call'[d].state)
             /\ call'[d].error = "none" => Faithful(call'[d], call'[d].state)
  <2>1. CASE d = c
    BY <1>2, <1>5, <1>6, <2>1
  <2>2. CASE d # c
    BY <1>4, <1>7, <2>2 DEF EvalInv, EvaluationIsPure
  <2>3. QED BY <2>1, <2>2
<1>8. EvaluationIsPure'
  BY <1>7 DEF EvaluationIsPure, Acceptable, Owners, Desires, Answers, Asked
<1>9. (desired.state # NoState => desired.state \in State /\ Faithful(desired, desired.state))'
  BY <1>3 DEF EvalInv, Faithful, Desires, Answers, Asked
<1>10. EvalInv'
  BY <1>2, <1>3, <1>4, <1>7, <1>8, <1>9 DEF EvalInv
<1>11. QED BY <1>2, <1>3, <1>4, <1>5, <1>10

\* Neither an answer, a publication nor the end of a scope touches the memory.
LEMMA OtherStep ==
  ASSUME EvalInv,
         \/ \E c \in Caller : Publish(c) \/ Interrupted(c)
         \/ Shutdown \/ Terminated \/ UNCHANGED vars
  PROVE  EvalInv' /\ \A d \in Caller : call'[d] = call[d] \/ call'[d] = Idle
<1>1. memory' = memory
  BY DEF Publish, Interrupted, Shutdown, Terminated, vars
<1>2. DOMAIN call = Caller
  BY DEF EvalInv
<1>3. /\ DOMAIN call' = Caller
      /\ \A d \in Caller : call'[d] = call[d] \/ call'[d] = Idle
  BY <1>2 DEF Publish, Interrupted, Shutdown, Terminated, vars
<1>4. ASSUME NEW d \in Caller, call'[d] # Idle
      PROVE  /\ call'[d].state \in State
             /\ call'[d].error = "none" <=> Acceptable(call'[d].state)
             /\ call'[d].error = "none" => Faithful(call'[d], call'[d].state)
  BY <1>3, <1>4 DEF EvalInv, EvaluationIsPure
<1>5. EvaluationIsPure'
  BY <1>4 DEF EvaluationIsPure
<1>6. desired'.state # NoState =>
        desired'.state \in State /\ Faithful(desired', desired'.state)
  <2>1. CASE desired' = desired
    BY <2>1 DEF EvalInv
  <2>2. ASSUME NEW c \in Caller, Publish(c), desired' # desired
        PROVE  desired'.state \in State /\ Faithful(desired', desired'.state)
    <3>1. /\ call[c] # Idle /\ call[c].error = "none"
          /\ desired' = [state |-> call[c].state, topo |-> call[c].topo,
                         observed |-> call[c].observed]
      BY <2>2 DEF Publish
    <3>2. call[c].state \in State /\ Faithful(call[c], call[c].state)
      BY <3>1 DEF EvalInv, EvaluationIsPure
    <3>3. /\ desired'.state = call[c].state /\ desired'.topo = call[c].topo
          /\ desired'.observed = call[c].observed
      BY <3>1
    <3>4. QED BY <3>2, <3>3, FaithfulIs
  <2>3. desired' = desired \/ \E c \in Caller : Publish(c)
    BY DEF Interrupted, Shutdown, Terminated, vars
  <2>4. QED BY <2>1, <2>2, <2>3
<1>7. EvalInv'
  BY <1>1, <1>3, <1>4, <1>5, <1>6 DEF EvalInv
<1>8. QED BY <1>3, <1>7

\* The inductive invariant: whatever was evaluated before, in whatever order,
\* the memory holds only what selectors did answer in some state.
THEOREM EvaluationInvariant == Spec => []EvalInv
<1>1. EvalInv /\ [Next]_vars => EvalInv'
  BY EvaluateStep, OtherStep DEF Next
<1>2. QED BY EvalInit, <1>1, PTL DEF Spec

\* Reuse is invisible: an evaluation accepts exactly the acceptable states and
\* answers what the selectors themselves would, whatever the memory went through.
THEOREM EvaluationAlwaysPure == Spec => []EvaluationIsPure
<1>1. EvalInv => EvaluationIsPure
  BY DEF EvalInv
<1>2. QED BY EvaluationInvariant, <1>1, PTL

\* What is published is the whole of one committed state, and a coherent
\* snapshot, which is what the controller's modules assume of their desire.
THEOREM PublishedAlwaysCoherent == Spec => []PublishedIsCoherent
<1>1. EvalInv => PublishedIsCoherent
  <2>1. ASSUME EvalInv, desired.state # NoState
        PROVE  Faithful(desired, desired.state) /\ Coherent(DOMAIN desired.observed)
    <3>1. desired.state \in State /\ Faithful(desired, desired.state)
      BY <2>1 DEF EvalInv
    <3>2. DOMAIN desired.observed = Desires(desired.state)
      BY <3>1 DEF Faithful
    <3>3. QED BY <3>1, <3>2, DesiresCohere
  <2>2. QED BY <2>1 DEF PublishedIsCoherent
<1>2. QED BY EvaluationInvariant, <1>1, PTL

\* After an evaluation that succeeds the memory knows the desired owners and no
\* others: it cannot grow with the owners that came and went.
THEOREM MemoryAlwaysFollowsDesire == Spec => MemoryFollowsDesire
<1> DEFINE Follows ==
      \A c \in Caller :
        call[c] = Idle /\ call'[c] # Idle /\ call'[c].error = "none" =>
          \A f \in Incremental : DOMAIN memory'[f] = Owners(call'[c].state, f)
<1>1. ASSUME EvalInv, [Next]_vars PROVE Follows
  <2>1. ASSUME NEW d \in Caller, NEW s \in State, Evaluate(d, s) PROVE Follows
    <3>1. /\ call'[d].state = s /\ \A c \in Caller : c # d => call'[c] = call[c]
          /\ call'[d].error = "none" => \A f \in Incremental : DOMAIN memory'[f] = Owners(s, f)
      BY <1>1, <2>1, EvaluateStep
    <3>2. QED BY <3>1
  <2>2. CASE \/ \E c \in Caller : Publish(c) \/ Interrupted(c)
             \/ Shutdown \/ Terminated \/ UNCHANGED vars
    <3>1. \A c \in Caller : call'[c] = call[c] \/ call'[c] = Idle
      BY <1>1, <2>2, OtherStep
    <3>2. QED BY <3>1
  <2> HIDE DEF Follows
  <2>3. QED BY <1>1, <2>1, <2>2 DEF Next
<1>2. QED BY EvaluationInvariant, <1>1, PTL DEF Spec, MemoryFollowsDesire
=============================================================================
