---------------------------- MODULE EditorProofs -----------------------------
(***************************************************************************)
(* The editor runtime, for any identities, models and bounds.  To the      *)
(* invariant of generations (ClosingProofs) it adds that each place of the *)
(* six indexes has at most one holder, standing where its identity says;   *)
(* that after a pass all of them match desire; and that a settled runtime  *)
(* has nothing left to start.                                              *)
(***************************************************************************)
EXTENDS Editor, ClosingProofs, FiniteSetTheorems

-----------------------------------------------------------------------------
(***************************************************************************)
(* The invariant.                                                          *)
(***************************************************************************)
Families == {"Settings", "Session", "Workspace", "Language", "Document", "Diagnostics"}

samePlace(r, s) ==
  /\ family(r) = family(s)
  /\ family(r) \in PerUri => key(r) = key(s)

\* No two with authority claim one place of the indexes.
Places(is) == \A g, h \in Live(is) : samePlace(refOf(g), refOf(h)) => g = h

beneath(o) == IF o = NoGen THEN << >> ELSE refOf(o)

\* r is a name: desire asks for it, beneath the owner there is.
NameOf(is, r) ==
  /\ family(r) \in Families
  /\ family(r) = "Session" => key(r) # Null
  /\ wanted(r)
  /\ r = Append(beneath(ownerNow(is, r)), <<family(r), key(r)>>)

\* g stands beneath its owner, and has an owner and providers of the right families.
Stands(g) ==
  LET r == refOf(g)
      o == inst[g].owner
      ps == inst[g].providers
  IN /\ r = Append(beneath(o), <<family(r), key(r)>>)
     /\ \/ /\ family(r) = "Settings"
           /\ o = NoGen /\ ps = << >>
        \/ /\ family(r) = "Session" /\ key(r) # Null
           /\ o = NoGen /\ ps = << >>
        \/ /\ family(r) = "Workspace" /\ key(r) # Null
           /\ o \in Gen /\ family(refOf(o)) = "Session" /\ ps = << >>
        \/ /\ family(r) \in {"Language", "Document"}
           /\ o \in Gen /\ family(refOf(o)) = "Workspace" /\ ps = << >>
        \/ /\ family(r) = "Diagnostics"
           /\ o \in Gen /\ family(refOf(o)) = "Document" /\ key(refOf(o)) = key(r)
           /\ \E s, l \in Gen : /\ ps = <<s, l>>
                                /\ family(refOf(s)) = "Settings"
                                /\ family(refOf(l)) = "Language"

Placed == \A g \in Live(inst) : Stands(g)

\* Between a pass and the next wake, everything still stands on what it would now.
Matched == phase = "open" /\ ~owed => \A g \in Live(inst) : keeps(inst, g)

\* A settled runtime has nothing left to start.
Complete ==
  phase = "open" /\ mutex /\ isSettled(inst, Range(all)) =>
    \A r : NameOf(inst, r) => ~admissible(inst, r)

Modelled == desired \in {desiredBy(m) : m \in Models \cup {emptyModel}}

EditorInv ==
  /\ Modelled
  /\ loop \in {"waiting", "due", "admitting"}
  /\ {wake, owed, converged} \subseteq BOOLEAN
  /\ phase \in {"open", "closing", "closed"}
  /\ ClosingInv
  /\ Places(inst) /\ Placed /\ Matched /\ Complete

-----------------------------------------------------------------------------
(***************************************************************************)
(* Identities and desire.                                                  *)
(***************************************************************************)
\* What a path extended by a step ends in, and what it extends.
LEMMA Extended ==
  ASSUME NEW S, NEW s \in Seq(S), NEW f, NEW k, NEW r, r = Append(s, <<f, k>>)
  PROVE  /\ family(r) = f /\ key(r) = k /\ Front(r) = s /\ r # << >>
         /\ Len(r) = Len(s) + 1
<1> DEFINE e == <<f, k>>
           T == S \cup {e}
<1>1. e[1] = f /\ e[2] = k
  OBVIOUS
<1> HIDE DEF e
<1>2. s \in Seq(T) /\ e \in T /\ r = Append(s, e)
  BY DEF e
<1> HIDE DEF T
<1>3. /\ r \in Seq(T) /\ Len(r) = Len(s) + 1
      /\ \A i \in 1 .. Len(s) : r[i] = s[i]
      /\ r[Len(s) + 1] = e
  <2>1. r \in Seq(T) /\ Len(r) = Len(s) + 1
    BY <1>2, AppendProperties
  <2>2. \A i \in 1 .. Len(s) : Append(s, e)[i] = s[i]
    BY <1>2, AppendProperties
  <2>3. Append(s, e)[Len(s) + 1] = e
    BY <1>2, AppendProperties
  <2>4. QED BY <1>2, <2>1, <2>2, <2>3
<1>4. Len(s) \in Nat
  BY <1>2
<1>5. Last(r) = e
  BY <1>3, <1>4 DEF Last
<1>6. Front(r) = s
  <2>1. Front(r) = SubSeq(r, 1, Len(s))
    BY <1>3, <1>4 DEF Front
  <2>2. SubSeq(r, 1, Len(s)) = [i \in 1 .. Len(s) |-> r[i]]
    BY <1>3, <1>4
  <2>3. s = [i \in 1 .. Len(s) |-> s[i]]
    BY <1>2
  <2>4. QED BY <1>3, <2>1, <2>2, <2>3
<1>7. r # << >>
  BY <1>3, <1>4
<1>8. QED BY <1>1, <1>3, <1>5, <1>6, <1>7 DEF family, key

\* A name says what it is the name of, and beneath whom.
LEMMA BeneathIsPath ==
  ASSUME NEW o \in Gen \cup {NoGen}, NEW f, NEW k, NEW r, r = Append(beneath(o), <<f, k>>)
  PROVE  family(r) = f /\ key(r) = k /\ Front(r) = beneath(o) /\ r # << >>
         /\ beneath(o) \in Seq(Range(beneath(o)))
<1> DEFINE b == beneath(o)
           S == Range(b)
<1>1. b \in Seq(S)
  <2>1. CASE o = NoGen
    <3>1. b = << >> /\ S = {}
      BY <2>1 DEF beneath, Range
    <3>2. QED BY <3>1
  <2>2. CASE o # NoGen
    <3>1. b = refOf(o) /\ refOf(o) \in Ref
      BY <2>2 DEF beneath, Gen, refOf
    <3>2. QED BY <3>1, EditorAssumption
  <2>3. QED BY <2>1, <2>2
<1>2. r = Append(b, <<f, k>>)
  OBVIOUS
<1>3. b = beneath(o) /\ S = Range(beneath(o))
  OBVIOUS
<1> HIDE DEF b, S
<1>4. family(r) = f /\ key(r) = k /\ Front(r) = b /\ r # << >>
  BY <1>1, <1>2, Extended
<1>5. QED BY <1>1, <1>3, <1>4

LEMMA DesireIs ==
  ASSUME Modelled
  PROVE  /\ desired.documents \in Seq(Range(desired.documents))
         /\ desired.session = Null => desired.workspace = Null
         /\ desired.workspace = Null => desired.documents = << >>
<1>1. PICK m \in Models \cup {emptyModel} : desired = desiredBy(m)
  BY DEF Modelled
<1>2. /\ m = [settings |-> m.settings, session |-> m.session, workspace |-> m.workspace,
              language |-> m.language, documents |-> m.documents]
      /\ m.documents \in Seq(Range(m.documents))
  <2>1. CASE m \in Models
    BY <2>1, EditorAssumption
  <2>2. CASE m = emptyModel
    <3>1. m.documents = << >>
      BY <2>2 DEF emptyModel
    <3>2. m.documents \in Seq(Range(m.documents))
      BY <3>1
    <3>3. QED BY <2>2, <3>2 DEF emptyModel
  <2>3. QED BY <2>1, <2>2
<1> DEFINE w == IF m.session = Null THEN Null ELSE m.workspace
           ds == IF w = Null THEN << >> ELSE m.documents
<1>3. desired = [m EXCEPT !.workspace = w, !.documents = ds]
  BY <1>1 DEF desiredBy
<1>4. desired.session = m.session /\ desired.workspace = w /\ desired.documents = ds
  BY <1>2, <1>3
<1>5. << >> \in Seq(Range(<< >>))
  OBVIOUS
<1>6. QED BY <1>2, <1>4, <1>5

-----------------------------------------------------------------------------
(***************************************************************************)
(* Who holds a place.                                                      *)
(***************************************************************************)
LEMMA HolderIs ==
  ASSUME NEW is, NEW f, NEW k
  PROVE  \/ /\ holder(is, f, k) = NoGen
            /\ \A g \in Live(is) : ~ (family(refOf(g)) = f /\ (f \in PerUri => key(refOf(g)) = k))
         \/ /\ holder(is, f, k) \in Live(is) /\ holder(is, f, k) \in Gen
            /\ holder(is, f, k) # NoGen
            /\ family(refOf(holder(is, f, k))) = f
            /\ f \in PerUri => key(refOf(holder(is, f, k))) = k
<1> DEFINE gs == {g \in Live(is) : family(refOf(g)) = f /\ (f \in PerUri => key(refOf(g)) = k)}
<1>1. holder(is, f, k) = IF gs = {} THEN NoGen ELSE CHOOSE g \in gs : TRUE
  BY DEF holder
<1>2. CASE gs = {}
  BY <1>1, <1>2
<1>3. CASE gs # {}
  <2>1. holder(is, f, k) \in gs
    BY <1>1, <1>3
  <2>2. holder(is, f, k) \in Gen /\ holder(is, f, k) # NoGen
    BY <2>1, ClosingAssumption DEF Live
  <2>3. QED BY <2>1, <2>2
<1>4. QED BY <1>2, <1>3

LEMMA HolderIsIt ==
  ASSUME NEW is, Places(is), NEW g \in Live(is), NEW k,
         family(refOf(g)) \in PerUri => key(refOf(g)) = k
  PROVE  holder(is, family(refOf(g)), k) = g
BY HolderIs DEF Places, samePlace

\* Holders depend on who has authority only.
LEMMA SameHolders ==
  ASSUME NEW is, NEW js, Live(is) = Live(js)
  PROVE  /\ \A f, k : holder(is, f, k) = holder(js, f, k)
         /\ \A r : ownerNow(is, r) = ownerNow(js, r) /\ providersNow(is, r) = providersNow(js, r)
<1>1. \A f, k : holder(is, f, k) = holder(js, f, k)
  BY DEF holder
<1>2. ASSUME NEW r
      PROVE  ownerNow(is, r) = ownerNow(js, r) /\ providersNow(is, r) = providersNow(js, r)
  BY <1>1 DEF ownerNow, providersNow, only
<1>3. QED BY <1>1, <1>2

\* An owner or a provider there is now has authority, and is of the right family.
LEMMA OwnerNowIs ==
  ASSUME NEW is, NEW r
  PROVE  \/ ownerNow(is, r) = NoGen
         \/ /\ ownerNow(is, r) \in Live(is) /\ ownerNow(is, r) \in Gen
            /\ ownerNow(is, r) # NoGen
            /\ \/ family(r) = "Workspace" /\ family(refOf(ownerNow(is, r))) = "Session"
               \/ /\ family(r) \in {"Language", "Document"}
                  /\ family(refOf(ownerNow(is, r))) = "Workspace"
               \/ /\ family(r) = "Diagnostics"
                  /\ family(refOf(ownerNow(is, r))) = "Document"
                  /\ key(refOf(ownerNow(is, r))) = key(r)
<1>1. CASE family(r) = "Workspace"
  <2>1. ownerNow(is, r) = holder(is, "Session", Null)
    BY <1>1 DEF ownerNow, only
  <2>2. QED BY <1>1, <2>1, HolderIs
<1>2. CASE family(r) \in {"Language", "Document"}
  <2>1. ownerNow(is, r) = holder(is, "Workspace", Null)
    BY <1>2 DEF ownerNow, only
  <2>2. QED BY <1>2, <2>1, HolderIs
<1>3. CASE family(r) = "Diagnostics"
  <2>1. ownerNow(is, r) = holder(is, "Document", key(r))
    BY <1>3 DEF ownerNow
  <2>2. QED BY <1>3, <2>1, HolderIs DEF PerUri
<1>4. CASE family(r) \notin {"Workspace", "Language", "Document", "Diagnostics"}
  BY <1>4 DEF ownerNow
<1>5. QED BY <1>1, <1>2, <1>3, <1>4

-----------------------------------------------------------------------------
(***************************************************************************)
(* What desire names.                                                      *)
(***************************************************************************)
LEMMA Joined ==
  ASSUME NEW a, NEW b, a \in Seq(Range(a)), b \in Seq(Range(b))
  PROVE  a \o b \in Seq(Range(a \o b)) /\ Range(a \o b) = Range(a) \cup Range(b)
<1> DEFINE S == Range(a) \cup Range(b)
<1>1. a \in Seq(S) /\ b \in Seq(S)
  OBVIOUS
<1>2. Range(a \o b) = Range(a) \cup Range(b)
  <2> HIDE DEF S
  <2>1. QED BY <1>1, RangeConcatenation
<1>3. a \o b \in Seq(S)
  BY <1>1, ConcatProperties
<1>4. QED BY <1>2, <1>3

LEMMA ListIsOfItsRange ==
  ASSUME NEW L \in Nat, NEW f, DOMAIN f = 1 .. L, f = [i \in 1 .. L |-> f[i]]
  PROVE  f \in Seq(Range(f))
<1>1. \A i \in 1 .. L : f[i] \in Range(f)
  BY DEF Range
<1>2. f \in [1 .. L -> Range(f)]
  BY <1>1
<1>3. QED BY <1>2

LEMMA AtMostOne ==
  ASSUME NEW k, NEW q
  PROVE  LET b == IF k = Null THEN << >> ELSE <<q>> IN
         b \in Seq(Range(b)) /\ \A r : r \in Range(b) <=> k # Null /\ r = q
<1>1. << >> \in Seq(Range(<< >>)) /\ Range(<< >>) = {}
  BY DEF Range
<1>2. <<q>> \in Seq(Range(<<q>>)) /\ Range(<<q>>) = {q}
  BY DEF Range
<1>3. QED BY <1>1, <1>2

LEMMA NamedIs ==
  ASSUME Modelled, NEW is
  PROVE  /\ named(is) \in Seq(Range(named(is)))
         /\ \A r : r \in Range(named(is)) <=> NameOf(is, r)
<1> DEFINE below(g, f, k) == Append(IF g = NoGen THEN << >> ELSE refOf(g), <<f, k>>)
           one(k, r) == IF k = Null THEN << >> ELSE <<r>>
           uris == desired.documents
           s == holder(is, "Session", Null)
           w == holder(is, "Workspace", Null)
           a == <<below(NoGen, "Settings", desired.settings)>>
           b == one(desired.session, below(NoGen, "Session", desired.session))
           c == one(desired.workspace, below(s, "Workspace", desired.workspace))
           d == <<below(w, "Language", desired.language)>>
           e == [i \in DOMAIN uris |-> below(w, "Document", uris[i])]
           f == [i \in DOMAIN uris |-> below(holder(is, "Document", uris[i]), "Diagnostics", uris[i])]
<1>1. named(is) = a \o b \o c \o d \o e \o f
  BY DEF named, only
<1>2. /\ uris \in Seq(Range(uris)) /\ Len(uris) \in Nat /\ DOMAIN uris = 1 .. Len(uris)
      /\ desired.session = Null => desired.workspace = Null
  BY DesireIs
<1>3. /\ a \in Seq(Range(a))
      /\ \A r : r \in Range(a) <=> r = below(NoGen, "Settings", desired.settings)
      /\ d \in Seq(Range(d))
      /\ \A r : r \in Range(d) <=> r = below(w, "Language", desired.language)
  <2> HIDE DEF below, w
  <2>1. QED BY DEF Range
<1>4. /\ b \in Seq(Range(b))
      /\ \A r : r \in Range(b) <=> /\ desired.session # Null
                                   /\ r = below(NoGen, "Session", desired.session)
  <2> HIDE DEF below
  <2>1. QED BY AtMostOne
<1>5. /\ c \in Seq(Range(c))
      /\ \A r : r \in Range(c) <=> /\ desired.workspace # Null
                                   /\ r = below(s, "Workspace", desired.workspace)
  <2> HIDE DEF below, s
  <2>1. QED BY AtMostOne
<1>6. /\ e \in Seq(Range(e))
      /\ \A r : r \in Range(e) <=> \E u \in Range(uris) : r = below(w, "Document", u)
  <2>1. e \in Seq(Range(e))
    BY <1>2, ListIsOfItsRange
  <2>2. QED BY <2>1 DEF Range
<1>7. /\ f \in Seq(Range(f))
      /\ \A r : r \in Range(f) <=>
           \E u \in Range(uris) : r = below(holder(is, "Document", u), "Diagnostics", u)
  <2>1. f \in Seq(Range(f))
    BY <1>2, ListIsOfItsRange
  <2>2. QED BY <2>1 DEF Range
<1> HIDE DEF a, b, c, d, e, f
<1>8. /\ named(is) \in Seq(Range(named(is)))
      /\ Range(named(is)) = Range(a) \cup Range(b) \cup Range(c) \cup Range(d)
                              \cup Range(e) \cup Range(f)
  <2>1. /\ a \o b \in Seq(Range(a \o b)) /\ Range(a \o b) = Range(a) \cup Range(b)
    BY <1>3, <1>4, Joined
  <2>2. /\ a \o b \o c \in Seq(Range(a \o b \o c))
        /\ Range(a \o b \o c) = Range(a \o b) \cup Range(c)
    BY <1>5, <2>1, Joined
  <2>3. /\ a \o b \o c \o d \in Seq(Range(a \o b \o c \o d))
        /\ Range(a \o b \o c \o d) = Range(a \o b \o c) \cup Range(d)
    BY <1>3, <2>2, Joined
  <2>4. /\ a \o b \o c \o d \o e \in Seq(Range(a \o b \o c \o d \o e))
        /\ Range(a \o b \o c \o d \o e) = Range(a \o b \o c \o d) \cup Range(e)
    BY <1>6, <2>3, Joined
  <2>5. /\ a \o b \o c \o d \o e \o f \in Seq(Range(a \o b \o c \o d \o e \o f))
        /\ Range(a \o b \o c \o d \o e \o f) = Range(a \o b \o c \o d \o e) \cup Range(f)
    BY <1>7, <2>4, Joined
  <2>6. QED BY <1>1, <2>1, <2>2, <2>3, <2>4, <2>5
<1>9. \A g, k, l : below(g, k, l) = Append(beneath(g), <<k, l>>)
  BY DEF beneath
<1>10. /\ s \in Gen \cup {NoGen} /\ w \in Gen \cup {NoGen}
       /\ \A u : holder(is, "Document", u) \in Gen \cup {NoGen}
  BY HolderIs
<1>11. ASSUME NEW g \in Gen \cup {NoGen}, NEW k, NEW l
       PROVE  family(below(g, k, l)) = k /\ key(below(g, k, l)) = l
  <2> DEFINE r == below(g, k, l)
  <2>1. r = Append(beneath(g), <<k, l>>)
    BY <1>9
  <2> HIDE DEF r
  <2>2. QED BY <2>1, BeneathIsPath DEF r
<1> HIDE DEF below, s, w, one, uris
<1>12. ASSUME NEW r, r \in Range(named(is)) PROVE NameOf(is, r)
  <2>1. CASE r \in Range(a)
    <3>1. r = below(NoGen, "Settings", desired.settings)
      BY <1>3, <2>1
    <3>2. family(r) = "Settings" /\ key(r) = desired.settings
      BY <1>11, <3>1
    <3>3. ownerNow(is, r) = NoGen
      BY <3>2 DEF ownerNow
    <3>4. QED BY <1>9, <3>1, <3>2, <3>3 DEF NameOf, wanted, Families
  <2>2. CASE r \in Range(b)
    <3>1. desired.session # Null /\ r = below(NoGen, "Session", desired.session)
      BY <1>4, <2>2
    <3>2. family(r) = "Session" /\ key(r) = desired.session
      BY <1>11, <3>1
    <3>3. ownerNow(is, r) = NoGen
      BY <3>2 DEF ownerNow
    <3>4. QED BY <1>9, <3>1, <3>2, <3>3 DEF NameOf, wanted, Families
  <2>3. CASE r \in Range(c)
    <3>1. desired.workspace # Null /\ r = below(s, "Workspace", desired.workspace)
      BY <1>5, <2>3
    <3>2. family(r) = "Workspace" /\ key(r) = desired.workspace
      BY <1>10, <1>11, <3>1
    <3>3. ownerNow(is, r) = s
      BY <3>2 DEF ownerNow, only, s
    <3>4. QED BY <1>9, <3>1, <3>2, <3>3 DEF NameOf, wanted, Families
  <2>4. CASE r \in Range(d)
    <3>1. r = below(w, "Language", desired.language)
      BY <1>3, <2>4
    <3>2. family(r) = "Language" /\ key(r) = desired.language
      BY <1>10, <1>11, <3>1
    <3>3. ownerNow(is, r) = w
      BY <3>2 DEF ownerNow, only, w
    <3>4. QED BY <1>9, <3>1, <3>2, <3>3 DEF NameOf, wanted, Families
  <2>5. CASE r \in Range(e)
    <3>1. PICK u \in Range(uris) : r = below(w, "Document", u)
      BY <1>6, <2>5
    <3>2. family(r) = "Document" /\ key(r) = u
      BY <1>10, <1>11, <3>1
    <3>3. ownerNow(is, r) = w
      BY <3>2 DEF ownerNow, only, w
    <3>4. QED BY <1>9, <3>1, <3>2, <3>3 DEF NameOf, wanted, Families, uris
  <2>6. CASE r \in Range(f)
    <3>1. PICK u \in Range(uris) : r = below(holder(is, "Document", u), "Diagnostics", u)
      BY <1>7, <2>6
    <3>2. family(r) = "Diagnostics" /\ key(r) = u
      BY <1>10, <1>11, <3>1
    <3>3. ownerNow(is, r) = holder(is, "Document", u)
      BY <3>2 DEF ownerNow
    <3>4. QED BY <1>9, <3>1, <3>2, <3>3 DEF NameOf, wanted, Families, uris
  <2>7. QED BY <1>8, <1>12, <2>1, <2>2, <2>3, <2>4, <2>5, <2>6
<1>13. ASSUME NEW r, NameOf(is, r) PROVE r \in Range(named(is))
  <2>1. r = below(ownerNow(is, r), family(r), key(r)) /\ wanted(r)
    BY <1>9, <1>13 DEF NameOf
  <2>2. CASE family(r) = "Settings"
    <3>1. ownerNow(is, r) = NoGen /\ key(r) = desired.settings
      BY <2>1, <2>2 DEF ownerNow, wanted
    <3>2. QED BY <1>3, <1>8, <2>1, <2>2, <3>1
  <2>3. CASE family(r) = "Session"
    <3>1. ownerNow(is, r) = NoGen /\ key(r) = desired.session /\ key(r) # Null
      BY <1>13, <2>1, <2>3 DEF ownerNow, wanted, NameOf
    <3>2. QED BY <1>4, <1>8, <2>1, <2>3, <3>1
  <2>4. CASE family(r) = "Workspace"
    <3>1. ownerNow(is, r) = s /\ key(r) = desired.workspace /\ desired.workspace # Null
      BY <2>1, <2>4 DEF ownerNow, wanted, only, s
    <3>2. QED BY <1>5, <1>8, <2>1, <2>4, <3>1
  <2>5. CASE family(r) = "Language"
    <3>1. ownerNow(is, r) = w /\ key(r) = desired.language
      BY <2>1, <2>5 DEF ownerNow, wanted, only, w
    <3>2. QED BY <1>3, <1>8, <2>1, <2>5, <3>1
  <2>6. CASE family(r) = "Document"
    <3>1. ownerNow(is, r) = w /\ key(r) \in Range(uris)
      BY <2>1, <2>6 DEF ownerNow, wanted, only, w, uris
    <3>2. QED BY <1>6, <1>8, <2>1, <2>6, <3>1
  <2>7. CASE family(r) = "Diagnostics"
    <3>1. ownerNow(is, r) = holder(is, "Document", key(r)) /\ key(r) \in Range(uris)
      BY <2>1, <2>7 DEF ownerNow, wanted, uris
    <3>2. QED BY <1>7, <1>8, <2>1, <2>7, <3>1
  <2>8. QED BY <1>13, <2>2, <2>3, <2>4, <2>5, <2>6, <2>7 DEF NameOf, Families
<1>14. QED BY <1>8, <1>12, <1>13

\* There is one name to a place.
LEMMA NamesDiffer ==
  ASSUME NEW is, NEW r, NEW q, NameOf(is, r), NameOf(is, q), samePlace(r, q)
  PROVE  r = q
<1>1. key(r) = key(q)
  <2>1. CASE family(r) \in PerUri
    BY <2>1 DEF samePlace
  <2>2. CASE family(r) \notin PerUri
    BY <2>2 DEF samePlace, NameOf, Families, PerUri, wanted
  <2>3. QED BY <2>1, <2>2
<1>2. family(r) = family(q)
  BY DEF samePlace
<1>3. ownerNow(is, r) = ownerNow(is, q)
  BY <1>1, <1>2 DEF ownerNow
<1>4. QED BY <1>1, <1>2, <1>3 DEF NameOf

-----------------------------------------------------------------------------
(***************************************************************************)
(* The six sweeps.                                                         *)
(***************************************************************************)
\* One family's holders are settled by what became of its members.
LEMMA HoldersOfAFamily ==
  ASSUME NEW is, NEW js, NEW f, \A g \in Gen : family(refOf(g)) = f => is[g] = js[g]
  PROVE  \A k : holder(is, f, k) = holder(js, f, k)
<1> SUFFICES ASSUME NEW k PROVE holder(is, f, k) = holder(js, f, k)
  OBVIOUS
<1> DEFINE gs(x) == {g \in Live(x) : family(refOf(g)) = f /\ (f \in PerUri => key(refOf(g)) = k)}
<1>1. gs(is) = gs(js)
  BY DEF Live
<1>2. \A x : holder(x, f, k) = IF gs(x) = {} THEN NoGen ELSE CHOOSE g \in gs(x) : TRUE
  BY DEF holder
<1> HIDE DEF gs
<1>3. QED BY <1>1, <1>2

\* A sweep tells of a family by what became of the families before it.
LEMMA KeepsByHolders ==
  ASSUME NEW is, NEW js, NEW g,
         family(refOf(g)) = "Workspace" =>
           \A k : holder(is, "Session", k) = holder(js, "Session", k),
         family(refOf(g)) \in {"Language", "Document"} =>
           \A k : holder(is, "Workspace", k) = holder(js, "Workspace", k),
         family(refOf(g)) = "Diagnostics" =>
           \A k : /\ holder(is, "Document", k) = holder(js, "Document", k)
                  /\ holder(is, "Settings", k) = holder(js, "Settings", k)
                  /\ holder(is, "Language", k) = holder(js, "Language", k)
  PROVE  keeps(is, g) <=> keeps(js, g)
<1> DEFINE r == refOf(g)
<1>1. ownerNow(is, r) = ownerNow(js, r)
  BY DEF ownerNow, only
<1>2. providersNow(is, r) = providersNow(js, r)
  BY DEF providersNow, only
<1>3. QED BY <1>1, <1>2 DEF keeps

\* What a pass does to g: one that does not stand on what is left is stopping, and
\* the rest is as it was.
LEMMA SweptIs ==
  ASSUME ClosingInv, Placed, NEW g \in Gen
  PROVE  swept[g] = IF g \in Live(inst) /\ ~keeps(swept, g)
                      THEN [inst[g] EXCEPT !.status = "stopping"] ELSE inst[g]
<1> DEFINE s1 == sweep(inst, "Settings")
           s2 == sweep(s1, "Session")
           s3 == sweep(s2, "Workspace")
           s4 == sweep(s3, "Language")
           s5 == sweep(s4, "Document")
           s6 == sweep(s5, "Diagnostics")
           decides(is, js, h) ==
             js[h] = IF h \in Live(inst) /\ ~keeps(is, h)
                       THEN [inst[h] EXCEPT !.status = "stopping"] ELSE inst[h]
<1>1. swept = s6
  BY DEF swept
<1>2. ASSUME NEW is, NEW f, NEW h \in Gen
      PROVE  sweep(is, f)[h] = IF h \in Live(is) /\ family(refOf(h)) = f /\ ~keeps(is, h)
                                 THEN [is[h] EXCEPT !.status = "stopping"] ELSE is[h]
  BY DEF sweep
<1>3. ASSUME NEW h \in Gen
      PROVE  /\ family(refOf(h)) # "Settings" => s1[h] = inst[h]
             /\ family(refOf(h)) # "Session" => s2[h] = s1[h]
             /\ family(refOf(h)) # "Workspace" => s3[h] = s2[h]
             /\ family(refOf(h)) # "Language" => s4[h] = s3[h]
             /\ family(refOf(h)) # "Document" => s5[h] = s4[h]
             /\ family(refOf(h)) # "Diagnostics" => s6[h] = s5[h]
  BY <1>2
<1>4. ASSUME NEW is, NEW f, is[g] = inst[g], family(refOf(g)) = f PROVE decides(is, sweep(is, f), g)
  BY <1>2, <1>4 DEF Live
<1>5. \A f : /\ s2 = sweep(s1, "Session") /\ s3 = sweep(s2, "Workspace")
             /\ s4 = sweep(s3, "Language") /\ s5 = sweep(s4, "Document")
             /\ s6 = sweep(s5, "Diagnostics") /\ s1 = sweep(inst, "Settings")
  OBVIOUS
<1> HIDE DEF s1, s2, s3, s4, s5, s6
<1>6. \A k : holder(s2, "Session", k) = holder(s6, "Session", k)
  BY <1>3, HoldersOfAFamily
<1>7. \A k : /\ holder(s3, "Workspace", k) = holder(s6, "Workspace", k)
             /\ holder(s4, "Workspace", k) = holder(s6, "Workspace", k)
  <2>1. \A k : holder(s3, "Workspace", k) = holder(s6, "Workspace", k)
    BY <1>3, HoldersOfAFamily
  <2>2. \A k : holder(s4, "Workspace", k) = holder(s6, "Workspace", k)
    BY <1>3, HoldersOfAFamily
  <2>3. QED BY <2>1, <2>2
<1>8. \A k : /\ holder(s5, "Document", k) = holder(s6, "Document", k)
             /\ holder(s5, "Settings", k) = holder(s6, "Settings", k)
             /\ holder(s5, "Language", k) = holder(s6, "Language", k)
  <2>1. \A k : holder(s5, "Document", k) = holder(s6, "Document", k)
    BY <1>3, HoldersOfAFamily
  <2>2. \A k : holder(s5, "Settings", k) = holder(s6, "Settings", k)
    BY <1>3, HoldersOfAFamily
  <2>3. \A k : holder(s5, "Language", k) = holder(s6, "Language", k)
    BY <1>3, HoldersOfAFamily
  <2>4. QED BY <2>1, <2>2, <2>3
<1>9. CASE family(refOf(g)) = "Settings"
  <2>1. decides(inst, s1, g) /\ s6[g] = s1[g]
    BY <1>3, <1>4, <1>5, <1>9
  <2>2. keeps(inst, g) <=> keeps(s6, g)
    BY <1>9, KeepsByHolders
  <2>3. QED BY <1>1, <2>1, <2>2
<1>10. CASE family(refOf(g)) = "Session"
  <2>1. decides(s1, s2, g) /\ s6[g] = s2[g]
    BY <1>3, <1>4, <1>5, <1>10
  <2>2. keeps(s1, g) <=> keeps(s6, g)
    BY <1>10, KeepsByHolders
  <2>3. QED BY <1>1, <2>1, <2>2
<1>11. CASE family(refOf(g)) = "Workspace"
  <2>1. decides(s2, s3, g) /\ s6[g] = s3[g]
    BY <1>3, <1>4, <1>5, <1>11
  <2>2. keeps(s2, g) <=> keeps(s6, g)
    BY <1>6, <1>11, KeepsByHolders
  <2>3. QED BY <1>1, <2>1, <2>2
<1>12. CASE family(refOf(g)) = "Language"
  <2>1. decides(s3, s4, g) /\ s6[g] = s4[g]
    BY <1>3, <1>4, <1>5, <1>12
  <2>2. keeps(s3, g) <=> keeps(s6, g)
    BY <1>7, <1>12, KeepsByHolders
  <2>3. QED BY <1>1, <2>1, <2>2
<1>13. CASE family(refOf(g)) = "Document"
  <2>1. decides(s4, s5, g) /\ s6[g] = s5[g]
    BY <1>3, <1>4, <1>5, <1>13
  <2>2. keeps(s4, g) <=> keeps(s6, g)
    BY <1>7, <1>13, KeepsByHolders
  <2>3. QED BY <1>1, <2>1, <2>2
<1>14. CASE family(refOf(g)) = "Diagnostics"
  <2>1. decides(s5, s6, g)
    BY <1>3, <1>4, <1>5, <1>14
  <2>2. keeps(s5, g) <=> keeps(s6, g)
    BY <1>8, <1>14, KeepsByHolders
  <2>3. QED BY <1>1, <2>1, <2>2
<1>15. CASE g \notin Live(inst)
  <2>1. \A is, f : is[g] = inst[g] => sweep(is, f)[g] = inst[g]
    BY <1>2, <1>15 DEF Live
  <2>2. s6[g] = inst[g]
    BY <1>5, <2>1
  <2>3. QED BY <1>1, <1>15, <2>2
<1>16. CASE g \in Live(inst)
  <2>1. family(refOf(g)) \in Families
    BY <1>16 DEF Placed, Stands, Families
  <2>2. QED BY <2>1, <1>9, <1>10, <1>11, <1>12, <1>13, <1>14 DEF Families
<1>17. QED BY <1>15, <1>16

\* Those a pass retires, and who is left: closed under what they stand on.
LEMMA SweptAway ==
  ASSUME ClosingInv, Placed
  PROVE  LET gone == {g \in Gen : swept[g] # inst[g]} IN
         /\ gone \in SUBSET Live(inst)
         /\ Live(swept) = Live(inst) \ gone
         /\ \A g \in Live(inst) \ gone : keeps(swept, g)
         /\ \A g \in Live(inst) : \A h \in standsOn(g) : h \in gone => g \in gone
<1> DEFINE gone == {g \in Gen : swept[g] # inst[g]}
<1>1. ASSUME NEW g \in Gen
      PROVE  /\ g \in gone <=> g \in Live(inst) /\ ~keeps(swept, g)
             /\ g \in gone => swept[g].status = "stopping"
  <2>1. inst[g] \in Generation
    BY GenerationsAreSound
  <2>2. /\ [inst[g] EXCEPT !.status = "stopping"].status = "stopping"
        /\ g \in Live(inst) => inst[g].status # "stopping"
    BY <2>1 DEF Generation, Live
  <2>3. QED BY <2>2, SweptIs
<1>2. gone \in SUBSET Live(inst)
  BY <1>1
<1>3. Live(swept) = Live(inst) \ gone
  BY <1>1 DEF Live
<1>4. \A g \in Live(inst) \ gone : keeps(swept, g)
  BY <1>1 DEF Live
<1> HIDE DEF gone
<1>5. ASSUME NEW g \in Live(inst), g \notin gone, NEW h \in standsOn(g) PROVE h \notin gone
  <2> DEFINE r == refOf(g)
  <2>1. inst[g].owner = ownerNow(swept, r) /\ inst[g].providers = providersNow(swept, r)
    BY <1>4, <1>5 DEF keeps
  <2>2. h # NoGen
    BY DEF standsOn
  <2>3. CASE h = inst[g].owner
    BY <1>3, <2>1, <2>2, <2>3, OwnerNowIs
  <2>4. CASE h \in Range(inst[g].providers)
    <3>1. h \in {holder(swept, "Settings", Null), holder(swept, "Language", Null)}
      BY <2>1, <2>4 DEF providersNow, only, Range
    <3>2. h \in Live(swept)
      BY <2>2, <3>1, HolderIs
    <3>3. QED BY <1>3, <3>2
  <2>5. QED BY <2>3, <2>4 DEF standsOn
<1>6. QED BY <1>2, <1>3, <1>4, <1>5 DEF gone

-----------------------------------------------------------------------------
(***************************************************************************)
(* What a pass starts: the names that may start, each once.                *)
(***************************************************************************)
Startable(is) ==
  {rs \in Seq(Range(named(is))) :
     /\ \A i, j \in DOMAIN rs : rs[i] = rs[j] => i = j
     /\ \A r \in Range(rs) : admissible(is, r)}

LEMMA AdmitOne ==
  ASSUME NEW is, NEW rs \in Startable(is), NEW r \in Range(named(is))
  PROVE  /\ admit(is, rs, r) \in Startable(is)
         /\ Range(rs) \subseteq Range(admit(is, rs, r))
         /\ admissible(is, r) => r \in Range(admit(is, rs, r))
<1> DEFINE S == Range(named(is))
<1>1. rs \in Seq(S)
  BY DEF Startable
<1>2. CASE ~admissible(is, r) \/ r \in Range(rs)
  <2>1. admit(is, rs, r) = rs
    BY <1>2 DEF admit
  <2>2. QED BY <1>2, <2>1
<1>3. CASE admissible(is, r) /\ r \notin Range(rs)
  <2> DEFINE ms == Append(rs, r)
             L == Len(rs)
  <2>1. admit(is, rs, r) = ms
    BY <1>3 DEF admit
  <2>2. L \in Nat /\ DOMAIN rs = 1 .. L
    BY <1>1
  <2>3. /\ ms \in Seq(S) /\ DOMAIN ms = 1 .. L + 1
        /\ \A i \in 1 .. L : ms[i] = rs[i]
        /\ ms[L + 1] = r
    BY <1>1, AppendProperties, LenProperties
  <2>4. \A i \in 1 .. L + 1 : i \in 1 .. L \/ i = L + 1
    BY <2>2
  <2>5. \A i \in 1 .. L : rs[i] \in Range(rs) /\ i \in 1 .. L + 1
    BY <2>2 DEF Range
  <2>6. L + 1 \in 1 .. L + 1
    BY <2>2
  <2> HIDE DEF ms, L
  <2>7. Range(ms) = Range(rs) \cup {r}
    <3>1. \A h \in Range(ms) : h \in Range(rs) \cup {r}
      BY <2>3, <2>4, <2>5 DEF Range
    <3>2. \A h \in Range(rs) : h \in Range(ms)
      BY <2>2, <2>3, <2>5 DEF Range
    <3>3. r \in Range(ms)
      BY <2>3, <2>6 DEF Range
    <3>4. QED BY <3>1, <3>2, <3>3
  <2>8. ASSUME NEW i \in 1 .. L + 1, NEW j \in 1 .. L + 1, ms[i] = ms[j] PROVE i = j
    <3>1. CASE i \in 1 .. L /\ j \in 1 .. L
      BY <2>2, <2>3, <2>8, <3>1 DEF Startable
    <3>2. CASE i \in 1 .. L /\ j = L + 1
      BY <1>3, <2>3, <2>5, <2>8, <3>2
    <3>3. CASE i = L + 1 /\ j \in 1 .. L
      BY <1>3, <2>3, <2>5, <2>8, <3>3
    <3>4. QED BY <2>4, <3>1, <3>2, <3>3
  <2>9. ms \in Startable(is)
    BY <1>3, <2>3, <2>7, <2>8 DEF Startable
  <2>10. QED BY <2>1, <2>7, <2>9
<1>4. QED BY <1>2, <1>3

\* f is what a pass has to start, name by name.
Admits(f, is) ==
  f = [i \in 0 .. Len(named(is)) |->
         IF i = 0 THEN << >> ELSE admit(is, f[i - 1], named(is)[i])]

LEMMA AdmittedAre ==
  ASSUME Modelled, NEW is
  PROVE  /\ admitted(is) \in Startable(is)
         /\ Range(admitted(is)) = {r \in Range(named(is)) : admissible(is, r)}
<1> DEFINE names == named(is)
           L == Len(names)
           S == Startable(is)
           Step == [i \in 1 .. L |-> [rs \in S |-> admit(is, rs, names[i])]]
           F == CHOOSE f : Admits(f, is)
<1>1. names \in Seq(Range(names))
  BY NamedIs
<1>2. L \in Nat /\ DOMAIN names = 1 .. L /\ \A i \in 1 .. L : names[i] \in Range(names)
  BY <1>1 DEF Range
<1>3. << >> \in S
  BY DEF Startable, Range
<1>4. \A i \in 1 .. L, rs \in S : Step[i][rs] = admit(is, rs, names[i])
  OBVIOUS
<1>5. ASSUME NEW i \in 1 .. L, NEW rs \in S
      PROVE  /\ admit(is, rs, names[i]) \in S
             /\ Range(rs) \subseteq Range(admit(is, rs, names[i]))
             /\ admissible(is, names[i]) => names[i] \in Range(admit(is, rs, names[i]))
  BY <1>2, AdmitOne
<1>6. Step \in [1 .. L -> [S -> S]]
  BY <1>5
<1>7. Admits(F, is) <=> F = [i \in 0 .. L |-> IF i = 0 THEN << >> ELSE admit(is, F[i - 1], names[i])]
  BY DEF Admits
<1>8. admitted(is) = F[L]
  BY DEF admitted, Admits
<1>9. \A f : f = [i \in 0 .. L |-> IF i = 0 THEN << >> ELSE admit(is, f[i - 1], names[i])]
             => Admits(f, is)
  BY DEF Admits
<1>10. (\E f : Admits(f, is)) => Admits(F, is)
  OBVIOUS
<1>11. names = named(is)
  OBVIOUS
<1> HIDE DEF Step, S, F, names
<1>12. \E f : Admits(f, is)
  <2>1. PICK f \in [0 .. L -> S] : Loop(f, L, << >>, Step)
    <3> HIDE DEF L
    <3>1. QED BY <1>2, <1>3, <1>6, LoopRuns
  <2>2. ASSUME NEW i \in 0 .. L
        PROVE  f[i] = IF i = 0 THEN << >> ELSE admit(is, f[i - 1], names[i])
    <3>1. CASE i = 0
      BY <2>1, <3>1 DEF Loop
    <3>2. CASE i # 0
      <4>1. i \in 1 .. L /\ i - 1 \in 0 .. L
        BY <1>2, <3>2
      <4>2. f[i - 1] \in S
        BY <2>1, <4>1
      <4>3. QED BY <1>4, <2>1, <3>2, <4>1, <4>2 DEF Loop
    <3>3. QED BY <3>1, <3>2
  <2>3. f = [i \in 0 .. L |-> IF i = 0 THEN << >> ELSE admit(is, f[i - 1], names[i])]
    BY <2>1, <2>2
  <2>4. QED BY <1>9, <2>3
<1>13. \A i \in 0 .. L : F[i] = IF i = 0 THEN << >> ELSE admit(is, F[i - 1], names[i])
  BY <1>7, <1>10, <1>12
<1> HIDE DEF L
<1> DEFINE through(i) == /\ F[i] \in S
                         /\ \A j \in 1 .. i : admissible(is, names[j]) => names[j] \in Range(F[i])
<1>14. \A i \in 0 .. L : through(i)
  <2> DEFINE T == {i \in 0 .. L : through(i)}
  <2>1. 0 \in T
    BY <1>2, <1>3, <1>13
  <2>2. ASSUME NEW i \in 1 .. L, i - 1 \in T PROVE i \in T
    <3>1. i \in 0 .. L /\ i # 0 /\ through(i - 1)
      BY <1>2, <2>2
    <3>2. F[i] = admit(is, F[i - 1], names[i])
      BY <1>13, <3>1
    <3>3. /\ F[i] \in S /\ Range(F[i - 1]) \subseteq Range(F[i])
          /\ admissible(is, names[i]) => names[i] \in Range(F[i])
      BY <1>5, <3>1, <3>2
    <3>4. \A j \in 1 .. i : j = i \/ j \in 1 .. i - 1
      BY <1>2
    <3>5. \A j \in 1 .. i : admissible(is, names[j]) => names[j] \in Range(F[i])
      BY <3>1, <3>3, <3>4
    <3>6. QED BY <3>1, <3>3, <3>5
  <2> HIDE DEF through
  <2>3. \A i \in 0 .. L : i \in T
    BY <1>2, <2>1, <2>2, AllAlong
  <2>4. QED BY <2>3
<1>15. F[L] \in S /\ \A r \in Range(names) : admissible(is, r) => r \in Range(F[L])
  <2>1. L \in 0 .. L
    BY <1>2
  <2>2. through(L)
    BY <1>14, <2>1
  <2>3. QED BY <1>2, <2>2 DEF Range
<1>16. \A r \in Range(F[L]) : r \in Range(names) /\ admissible(is, r)
  BY <1>11, <1>15 DEF S, Startable, Range
<1>17. QED BY <1>8, <1>11, <1>15, <1>16 DEF S

-----------------------------------------------------------------------------
(***************************************************************************)
(* What steps of each kind leave as it is.                                 *)
(***************************************************************************)
LEMMA GenerationsStay ==
  ASSUME ClosingInv, UNCHANGED <<all, inst>>
  PROVE  ClosingInv'
BY DEF ClosingInv, AllSound, AllKempt, Remembers, OwnersRun, ProvidersRun, Precedes,
       ClosesUnderOwner

\* No place is claimed anew.
LEMMA PlacesStay ==
  ASSUME Places(inst), Placed,
         \A g \in Live(inst') : /\ g \in Live(inst) /\ inst'[g].owner = inst[g].owner
                                /\ inst'[g].providers = inst[g].providers
  PROVE  Places(inst') /\ Placed'
<1>1. Places(inst')
  BY DEF Places
<1>2. \A g \in Live(inst') : Stands(g) => Stands(g)'
  BY DEF Stands
<1>3. QED BY <1>1, <1>2 DEF Placed

\* Who stood on what it would stays so, as long as that keeps its authority.
LEMMA KeepsOn ==
  ASSUME ClosingInv, Placed, Places(inst'), desired' = desired,
         NEW g \in Live(inst), keeps(inst, g),
         inst'[g].owner = inst[g].owner, inst'[g].providers = inst[g].providers,
         \A h \in standsOn(g) : h \in Live(inst')
  PROVE  keeps(inst, g)'
<1> DEFINE r == refOf(g)
           o == inst[g].owner
           ps == inst[g].providers
<1>1. /\ o = ownerNow(inst, r) /\ ps = providersNow(inst, r)
      /\ family(r) = "Diagnostics" \/ wanted(r)
  BY DEF keeps
<1>2. Stands(g) /\ g \in Gen
  BY DEF Placed, Live
<1>3. family(r) \in {"Settings", "Session"} \/ o \in Gen
  BY <1>2 DEF Stands
<1>4. ASSUME NEW f, NEW k, holder(inst, f, k) \in standsOn(g)
      PROVE  holder(inst', f, k) = holder(inst, f, k)
  <2> DEFINE h == holder(inst, f, k)
  <2>1. h \in Live(inst') /\ h # NoGen
    BY <1>4 DEF standsOn
  <2>2. family(refOf(h)) = f /\ (f \in PerUri => key(refOf(h)) = k)
    BY <2>1, HolderIs
  <2> HIDE DEF h
  <2>3. holder(inst', family(refOf(h)), k) = h
    BY <2>1, <2>2, HolderIsIt
  <2>4. QED BY <2>2, <2>3 DEF h
<1>5. ownerNow(inst', r) = o
  <2>1. CASE family(r) \in {"Settings", "Session"}
    BY <1>1, <2>1 DEF ownerNow
  <2>2. CASE family(r) \notin {"Settings", "Session"}
    <3>1. o \in standsOn(g)
      BY <1>3, <2>2, ClosingAssumption DEF standsOn
    <3>2. CASE family(r) = "Workspace"
      BY <1>1, <1>4, <3>1, <3>2 DEF ownerNow, only
    <3>3. CASE family(r) \in {"Language", "Document"}
      BY <1>1, <1>4, <3>1, <3>3 DEF ownerNow, only
    <3>4. CASE family(r) = "Diagnostics"
      BY <1>1, <1>4, <3>1, <3>4 DEF ownerNow
    <3>5. QED BY <1>2, <2>2, <3>2, <3>3, <3>4 DEF Stands
  <2>3. QED BY <2>1, <2>2
<1>6. providersNow(inst', r) = ps
  <2>1. CASE family(r) # "Diagnostics"
    BY <1>1, <2>1 DEF providersNow
  <2>2. CASE family(r) = "Diagnostics"
    <3>1. ps = <<only(inst, "Settings"), only(inst, "Language")>>
      BY <1>1, <2>2 DEF providersNow
    <3>2. \E s, l \in Gen : ps = <<s, l>>
      BY <1>2, <2>2 DEF Stands
    <3>3. /\ only(inst, "Settings") \in Range(ps) \ {NoGen}
          /\ only(inst, "Language") \in Range(ps) \ {NoGen}
      BY <3>1, <3>2, ClosingAssumption DEF Range
    <3>4. /\ only(inst, "Settings") \in standsOn(g)
          /\ only(inst, "Language") \in standsOn(g)
      BY <3>3 DEF standsOn
    <3>5. /\ only(inst', "Settings") = only(inst, "Settings")
          /\ only(inst', "Language") = only(inst, "Language")
      BY <1>4, <3>4 DEF only
    <3>6. QED BY <2>2, <3>1, <3>5 DEF providersNow
  <2>3. QED BY <2>1, <2>2
<1>7. wanted(r) => wanted(r)'
  BY DEF wanted
<1>8. QED BY <1>1, <1>5, <1>6, <1>7 DEF keeps

\* What may start does not change while statuses do not.
LEMMA AdmissibleStays ==
  ASSUME desired' = desired, \A g \in Gen : inst'[g].status = inst[g].status, NEW r
  PROVE  /\ NameOf(inst, r)' <=> NameOf(inst, r)
         /\ NameOf(inst, r) => (admissible(inst, r)' <=> admissible(inst, r))
<1>1. Live(inst') = Live(inst)
  BY DEF Live
<1>2. /\ \A f, k : holder(inst', f, k) = holder(inst, f, k)
      /\ ownerNow(inst', r) = ownerNow(inst, r)
      /\ providersNow(inst', r) = providersNow(inst, r)
  BY <1>1, SameHolders
<1>3. NameOf(inst, r)' <=> NameOf(inst, r)
  BY <1>2 DEF NameOf, wanted
<1>4. \A ss : inSlot(inst', r, ss) = inSlot(inst, r, ss)
  BY DEF inSlot
<1>5. canAdmit(inst, r)' <=> canAdmit(inst, r)
  BY <1>4 DEF canAdmit
<1>6. \A h \in Gen \cup {NoGen} : runs(h)' <=> runs(h)
  BY DEF runs
<1>7. /\ ownerNow(inst, r) \in Gen \cup {NoGen}
      /\ \A p \in Range(providersNow(inst, r)) : p \in Gen \cup {NoGen}
  <2>1. ownerNow(inst, r) \in Gen \cup {NoGen}
    BY OwnerNowIs
  <2>2. only(inst, "Settings") \in Gen \cup {NoGen} /\ only(inst, "Language") \in Gen \cup {NoGen}
    BY HolderIs DEF only
  <2>3. \A p \in Range(providersNow(inst, r)) : p \in Gen \cup {NoGen}
    BY <2>2 DEF providersNow, Range
  <2>4. QED BY <2>1, <2>3
<1>8. admissible(inst, r)' <=> admissible(inst, r)
  BY <1>2, <1>5, <1>6, <1>7 DEF admissible
<1>9. QED BY <1>3, <1>8

\* Statuses, and what those with authority stand on, stay.
LEMMA QuietKeeps ==
  ASSUME EditorInv, all' = all, desired' = desired,
         \A g \in Gen : /\ inst'[g].status = inst[g].status
                        /\ inst[g].status # "none" => /\ inst'[g].owner = inst[g].owner
                                                      /\ inst'[g].providers = inst[g].providers,
         phase' = "open" => phase = "open", ~owed' => ~owed, mutex' => mutex,
         isSettled(inst, Range(all))' => isSettled(inst, Range(all))
  PROVE  Places(inst') /\ Placed' /\ Matched' /\ Complete'
<1>1. Live(inst') = Live(inst)
  BY DEF Live
<1>2. \A g \in Live(inst) : /\ inst'[g].owner = inst[g].owner
                            /\ inst'[g].providers = inst[g].providers
  BY DEF Live
<1>3. Places(inst') /\ Placed'
  BY <1>1, <1>2, PlacesStay DEF EditorInv
<1>4. ASSUME NEW g \in Live(inst), keeps(inst, g) PROVE keeps(inst, g)'
  <2>1. ClosingInv /\ Placed
    BY DEF EditorInv
  <2>2. \A h \in standsOn(g) : h \in Live(inst')
    BY <1>1, <2>1, StandsOnWhatRuns DEF Live
  <2>3. QED BY <1>2, <1>3, <1>4, <2>1, <2>2, KeepsOn
<1>5. Matched'
  BY <1>1, <1>4 DEF EditorInv, Matched
<1>6. Complete'
  BY AdmissibleStays DEF EditorInv, Complete
<1>7. QED BY <1>3, <1>5, <1>6

-----------------------------------------------------------------------------
(***************************************************************************)
(* The steps.                                                              *)
(***************************************************************************)
\* A close that returns leaves nothing pending that a settled runtime waited for: the
\* cleanup of a failed startup asks for a pass.
LEMMA ClosesUnsettled ==
  ASSUME ClosingInv, NEW g \in Gen, closeInstance(g) \/ ScopeCloses(g), ~owed',
         NEW h \in Range(all), inst[h].closing = "pending", inst[h].status # "stopping"
  PROVE  inst'[h].closing = "pending"
<1>1. /\ h \in Gen /\ \A k \in Gen : inst[k] \in Generation /\ Sound(inst[k]) /\ Kempt(inst[k])
      /\ inst \in Insts /\ Range(all) \subseteq Gen
  BY GenerationsAreSound
<1>2. inst[h].status = "failed" /\ inst[h].cleanup
  BY <1>1 DEF Sound, Kempt, Generation
<1>3. ASSUME asksForPass(h) PROVE FALSE
  BY <1>2, <1>3 DEF asksForPass, wakeUp
<1>4. CASE closes(g)
  <2>1. inst'[h].closing = inst[h].closing
    BY <1>1, <1>4 DEF closes, Insts, Generation
  <2>2. QED BY <2>1
<1>5. CASE findsClosed(g) /\ asksForPass(g)
  <2>1. h # g
    BY <1>3, <1>5
  <2>2. inst'[h] = inst[h]
    BY <1>1, <1>5, <2>1 DEF findsClosed, Insts
  <2>3. QED BY <2>2
<1>6. ASSUME NEW c \in Gen, reaches(g, c) PROVE inst'[h].closing = inst[h].closing
  BY <1>1, <1>6 DEF reaches, Insts, Generation
<1>7. CASE releases(g) /\ (inst[g].closer = "self" => asksForPass(g))
  <2> DEFINE released == [inst[g] EXCEPT !.scope = "closed", !.building = FALSE]
             gen == IF inst[g].closer = "self" THEN returned(released) ELSE released
             mid == [inst EXCEPT ![g] = gen]
  <2>1. inst' = tidied(mid, Range(all))
    BY <1>7, Zenon DEF releases
  <2>2. inst[g].closer # "self" => gen.closing = inst[g].closing
    BY <1>1 DEF Generation
  <2>3. h = g => inst[g].closer # "self"
    BY <1>3, <1>7
  <2> HIDE DEF gen
  <2>4. mid[h].closing = inst[h].closing
    BY <1>1, <2>2, <2>3 DEF Insts
  <2> HIDE DEF mid
  <2>5. inst'[h] = mid[h]
    BY <1>1, <2>1 DEF tidied
  <2>6. QED BY <2>4, <2>5
<1>8. CASE closeInstance(g)
  BY <1>4, <1>5, <1>8 DEF closeInstance
<1>9. CASE ScopeCloses(g)
  BY <1>6, <1>7, <1>9 DEF ScopeCloses
<1>10. QED BY <1>8, <1>9

LEMMA ClosesStep ==
  ASSUME EditorInv, NEW g \in Gen, closeInstance(g) \/ ScopeCloses(g)
  PROVE  Closings /\ EditorInv'
<1>1. ClosingInv
  BY DEF EditorInv
<1>2. /\ all' = all /\ desired' = desired /\ loop' = loop /\ phase' = phase
      /\ UNCHANGED wakes \/ wakeUp
  BY DEF closeInstance, ScopeCloses, asksForPass
<1>3. Closings /\ ClosingInv'
  BY <1>1, <1>2, ClosesKeeps, FindsClosedKeeps, ReachesKeeps, ReleasesKeeps
     DEF closeInstance, ScopeCloses
<1>4. \A h \in Gen : /\ inst'[h].status = inst[h].status
                     /\ inst[h].status # "none" => /\ inst'[h].owner = inst[h].owner
                                                   /\ inst'[h].providers = inst[h].providers
  BY <1>3 DEF Closings
<1>5. {wake, owed, converged}' \subseteq BOOLEAN /\ (~owed' => ~owed)
  <2>1. CASE UNCHANGED wakes
    BY <2>1 DEF EditorInv, wakes
  <2>2. CASE wakeUp
    BY <2>2 DEF wakeUp
  <2>3. QED BY <1>2, <2>1, <2>2
<1>6. ASSUME isSettled(inst, Range(all))' PROVE isSettled(inst, Range(all))
  <2>1. ~owed' /\ ~owed
    BY <1>5, <1>6 DEF isSettled
  <2>2. ASSUME NEW h \in Range(all)
        PROVE  inst[h].status \notin {"starting", "stopping"} /\ inst[h].closing # "pending"
    <3>1. h \in Gen
      BY <1>1, GenerationsAreSound
    <3>2. inst'[h].status \notin {"starting", "stopping"} /\ inst'[h].closing # "pending"
      BY <1>2, <1>6 DEF isSettled
    <3>3. inst[h].status \notin {"starting", "stopping"}
      BY <1>4, <3>1, <3>2
    <3>4. QED BY <1>1, <2>1, <3>2, <3>3, ClosesUnsettled
  <2>3. QED BY <2>1, <2>2 DEF isSettled
<1>7. mutex' => mutex
  BY <1>2 DEF mutex
<1>8. Places(inst') /\ Placed' /\ Matched' /\ Complete'
  BY <1>2, <1>4, <1>5, <1>6, <1>7, QuietKeeps
<1>9. QED BY <1>2, <1>3, <1>5, <1>8 DEF EditorInv, Modelled

\* Nothing happens to generations.
LEMMA LeavesStep ==
  ASSUME EditorInv, UNCHANGED <<desired, all, inst>>,
         loop' \in {"waiting", "due"}, phase' \in {"open", "closing", "closed"},
         {wake, owed, converged}' \subseteq BOOLEAN,
         phase' = "open" => phase = "open" /\ (mutex' => mutex), ~owed' => ~owed
  PROVE  EditorInv'
<1>1. ClosingInv'
  BY GenerationsStay DEF EditorInv
<1>2. isSettled(inst, Range(all))' => isSettled(inst, Range(all))
  BY DEF isSettled
<1>3. Places(inst') /\ Placed' /\ Matched' /\ Complete'
  <2>1. CASE phase' = "open"
    BY <1>2, <2>1, QuietKeeps
  <2>2. CASE phase' # "open"
    <3>1. Places(inst') /\ Placed'
      BY PlacesStay DEF EditorInv
    <3>2. QED BY <2>2, <3>1 DEF Matched, Complete
  <2>3. QED BY <2>1, <2>2
<1>4. QED BY <1>1, <1>3 DEF EditorInv, Modelled

LEMMA CommitStep ==
  ASSUME EditorInv, NEW m \in Models, commit(m)
  PROVE  EditorInv'
<1>1. /\ desired' = desiredBy(m) /\ wakeUp /\ UNCHANGED <<all, inst, loop, phase>>
  BY DEF commit
<1>2. ClosingInv'
  BY <1>1, GenerationsStay DEF EditorInv
<1>3. Places(inst') /\ Placed'
  BY <1>1, PlacesStay DEF EditorInv
<1>4. Matched' /\ Complete'
  BY <1>1 DEF wakeUp, Matched, Complete, isSettled
<1>5. Modelled'
  BY <1>1 DEF Modelled
<1>6. {wake, owed, converged}' \subseteq BOOLEAN
  BY <1>1 DEF wakeUp
<1>7. QED BY <1>1, <1>2, <1>3, <1>4, <1>5, <1>6 DEF EditorInv

\* Startups that end, and what is retired.
LEMMA TurnsStep ==
  ASSUME EditorInv, Turns, desired' = desired,
         loop' \in {"waiting", "due", "admitting"}, phase' \in {"open", "closing", "closed"},
         {wake, owed, converged}' \subseteq BOOLEAN
  PROVE  /\ ClosingInv' /\ Places(inst') /\ Placed' /\ Modelled'
         /\ \A g \in Live(inst') : keeps(inst, g) => keeps(inst, g)'
         /\ Matched' /\ Complete' => EditorInv'
<1>1. ClosingInv /\ Placed /\ Places(inst)
  BY DEF EditorInv
<1>2. ClosingInv'
  BY <1>1, TurnsKeep
<1>3. ASSUME NEW g \in Live(inst')
      PROVE  /\ g \in Live(inst) /\ inst'[g].owner = inst[g].owner
             /\ inst'[g].providers = inst[g].providers
             /\ \A h \in standsOn(g) : h \in Live(inst')
  <2>1. g \in Live(inst)
    BY DEF Turns, Live
  <2>2. \A h \in standsOn(g) : h \in Gen /\ inst'[h].status = "running"
    BY <1>1, <2>1, StandsOnWhatRuns DEF Turns
  <2>3. QED BY <2>1, <2>2 DEF Turns, Live
<1>4. Places(inst') /\ Placed'
  BY <1>1, <1>3, PlacesStay
<1>5. \A g \in Live(inst') : keeps(inst, g) => keeps(inst, g)'
  BY <1>1, <1>3, <1>4, KeepsOn
<1>6. Modelled'
  BY DEF EditorInv, Modelled
<1>7. QED BY <1>2, <1>4, <1>5, <1>6 DEF EditorInv

LEMMA RetryStep ==
  ASSUME EditorInv, retryLanguage
  PROVE  Turns /\ EditorInv'
<1> DEFINE l == only(inst, "Language")
<1>1. /\ l # NoGen /\ inst[l].status = "failed" /\ retire({l})
      /\ wakeUp /\ UNCHANGED <<desired, all, loop, phase>>
  BY DEF retryLanguage
<1>2. l \in Live(inst)
  BY <1>1, HolderIs DEF only
<1> HIDE DEF l
<1>3. ClosingInv
  BY DEF EditorInv
<1>4. \A g \in Live(inst) : l \notin standsOn(g)
  BY <1>1, <1>3, StandsOnWhatRuns
<1>5. inst' = [g \in Gen |-> IF g \in {l} THEN Stopping(inst[g]) ELSE inst[g]]
  BY <1>1 DEF retire
<1>6. {l} \in SUBSET Live(inst) /\ \A g \in Live(inst) : \A h \in standsOn(g) : h \in {l} => g \in {l}
  BY <1>2, <1>4
<1>7. Turns
  BY <1>1, <1>3, <1>5, <1>6, RetiringTurns
<1>8. Matched' /\ Complete'
  BY <1>1 DEF wakeUp, Matched, Complete, isSettled
<1>9. {wake, owed, converged}' \subseteq BOOLEAN /\ loop' \in {"waiting", "due", "admitting"}
      /\ phase' \in {"open", "closing", "closed"}
  BY <1>1 DEF wakeUp, EditorInv
<1>10. QED BY <1>1, <1>7, <1>8, <1>9, TurnsStep

LEMMA ShutdownStep ==
  ASSUME EditorInv, shutdown
  PROVE  Turns /\ EditorInv'
<1>1. phase' = "closing" /\ retire(Live(inst)) /\ UNCHANGED <<desired, all, loop, wakes>>
  BY DEF shutdown
<1>2. ClosingInv
  BY DEF EditorInv
<1>3. inst' = [g \in Gen |-> IF g \in Live(inst) THEN Stopping(inst[g]) ELSE inst[g]]
  BY <1>1 DEF retire
<1>4. Turns
  BY <1>1, <1>2, <1>3, RetiringTurns
<1>5. Matched' /\ Complete'
  BY <1>1 DEF Matched, Complete
<1>6. {wake, owed, converged}' \subseteq BOOLEAN /\ loop' \in {"waiting", "due", "admitting"}
  BY <1>1 DEF wakes, EditorInv
<1>7. QED BY <1>1, <1>4, <1>5, <1>6, TurnsStep

\* Everything that did not stand on what it would now is retired: what is left does.
LEMMA PassInvalidatesStep ==
  ASSUME EditorInv, PassInvalidates
  PROVE  Turns /\ EditorInv'
<1> DEFINE gone == {g \in Gen : swept[g] # inst[g]}
<1>1. /\ loop' = "admitting" /\ owed' = FALSE /\ retire(gone)
      /\ UNCHANGED <<desired, all, wake, converged, phase>>
  BY DEF PassInvalidates
<1>2. ClosingInv /\ Placed /\ Places(inst)
  BY DEF EditorInv
<1>3. /\ gone \in SUBSET Live(inst)
      /\ Live(swept) = Live(inst) \ gone
      /\ \A g \in Live(inst) \ gone : keeps(swept, g)
      /\ \A g \in Live(inst) : \A h \in standsOn(g) : h \in gone => g \in gone
  BY <1>2, SweptAway
<1> HIDE DEF gone
<1>4. inst' = [g \in Gen |-> IF g \in gone THEN Stopping(inst[g]) ELSE inst[g]]
  BY <1>1 DEF retire
<1>5. Turns
  BY <1>1, <1>2, <1>3, <1>4, RetiringTurns
<1>6. Live(inst') = Live(swept)
  <2>1. \A g \in gone : inst'[g].status = "stopping"
    <3>1. ASSUME NEW g \in gone PROVE inst'[g].status = "stopping"
      <4>1. g \in Gen /\ g \in Live(inst) /\ inst[g] \in Generation
        BY <1>2, <1>3, GenerationsAreSound DEF Live
      <4>2. inst'[g] = Stopping(inst[g])
        BY <1>4, <4>1
      <4>3. QED BY <4>1, <4>2 DEF Stopping, Generation
    <3>2. QED BY <3>1
  <2>2. \A g \in Gen \ gone : inst'[g] = inst[g]
    BY <1>4
  <2>3. \A g \in Gen : g \in Live(inst') <=> g \in Live(inst) /\ g \notin gone
    BY <1>3, <2>1, <2>2 DEF Live
  <2>4. Live(inst') \subseteq Gen /\ Live(swept) \subseteq Gen
    BY DEF Live
  <2>5. QED BY <1>3, <2>3, <2>4
<1>7. ASSUME NEW g \in Live(inst') PROVE keeps(inst, g)'
  <2> DEFINE r == refOf(g)
  <2>1. keeps(swept, g) /\ g \in Gen
    BY <1>3, <1>6, <1>7 DEF Live
  <2>2. ownerNow(inst', r) = ownerNow(swept, r) /\ providersNow(inst', r) = providersNow(swept, r)
    BY <1>6, SameHolders
  <2>3. inst'[g].owner = inst[g].owner /\ inst'[g].providers = inst[g].providers
    BY <1>5, <2>1 DEF Turns
  <2>4. wanted(r)' <=> wanted(r)
    BY <1>1 DEF wanted
  <2>5. QED BY <2>1, <2>2, <2>3, <2>4 DEF keeps
<1>8. Matched' /\ Complete'
  BY <1>1, <1>7 DEF Matched, Complete, mutex
<1>9. {wake, owed, converged}' \subseteq BOOLEAN /\ phase' \in {"open", "closing", "closed"}
  BY <1>1 DEF EditorInv
<1>10. QED BY <1>1, <1>5, <1>8, <1>9, TurnsStep

\* A startup ends.
LEMMA CompletedStep ==
  ASSUME EditorInv, NEW g \in Gen, NEW ok \in BOOLEAN, Completed(g, ok)
  PROVE  Turns /\ EditorInv'
<1>1. /\ inst[g].status = "starting" /\ UNCHANGED <<desired, all, loop, phase>>
      /\ \/ endsOvertaken(g) /\ UNCHANGED wakes
         \/ ends(g, ok) /\ wakeUp
  BY DEF Completed
<1>2. ClosingInv /\ inst \in Insts /\ inst[g] \in Generation
  BY GenerationsAreSound DEF EditorInv
<1>3. Turns
  BY <1>1, <1>2, EndsTurns, EndsOvertakenTurns
<1>4. {wake, owed, converged}' \subseteq BOOLEAN /\ loop' \in {"waiting", "due", "admitting"}
      /\ phase' \in {"open", "closing", "closed"}
  BY <1>1 DEF wakeUp, wakes, EditorInv
<1>5. /\ \A h \in Live(inst') : keeps(inst, h) => keeps(inst, h)'
      /\ Matched' /\ Complete' => EditorInv'
  BY <1>1, <1>3, <1>4, TurnsStep
<1>6. CASE wakeUp
  <2>1. Matched' /\ Complete'
    BY <1>6 DEF wakeUp, Matched, Complete, isSettled
  <2>2. QED BY <1>3, <1>5, <2>1
<1>7. CASE endsOvertaken(g) /\ UNCHANGED wakes
  <2>1. inst'[g].status = "stopping"
    BY <1>2, <1>7 DEF endsOvertaken, Stopping, Insts, Generation
  <2>2. g \in Range(all')
    BY <1>1, <1>2 DEF ClosingInv, Remembers
  <2>3. Complete'
    BY <2>1, <2>2 DEF Complete, isSettled
  <2>4. Live(inst') \subseteq Live(inst)
    BY <1>3 DEF Turns, Live
  <2>5. Matched'
    BY <1>1, <1>5, <1>7, <2>4 DEF EditorInv, Matched, wakes
  <2>6. QED BY <1>3, <1>5, <2>3, <2>5
<1>8. QED BY <1>1, <1>6, <1>7

LEMMA CompletedLateStep ==
  ASSUME EditorInv, NEW g \in Gen, CompletedLate(g)
  PROVE  Closings /\ EditorInv'
<1>1. endsLate(g) /\ UNCHANGED <<desired, all, loop, wakes, phase>>
  BY DEF CompletedLate
<1>2. ClosingInv /\ inst \in Insts /\ \A h \in Gen : inst[h] \in Generation
  BY GenerationsAreSound DEF EditorInv
<1>3. Closings /\ ClosingInv'
  BY <1>1, <1>2, EndsLateKeeps
<1>4. \A h \in Gen : /\ inst'[h].status = inst[h].status
                     /\ inst[h].status # "none" => /\ inst'[h].owner = inst[h].owner
                                                   /\ inst'[h].providers = inst[h].providers
  BY <1>3 DEF Closings
<1>5. \A h \in Gen : inst'[h].closing = inst[h].closing
  BY <1>1, <1>2 DEF endsLate, Insts, Generation
<1>6. Range(all) \subseteq Gen
  BY <1>2, GenerationsAreSound
<1>7. owed' = owed /\ Range(all') = Range(all)
  BY <1>1 DEF wakes
<1>8. isSettled(inst, Range(all))' => isSettled(inst, Range(all))
  BY <1>4, <1>5, <1>6, <1>7 DEF isSettled
<1>9. Places(inst') /\ Placed' /\ Matched' /\ Complete'
  BY <1>1, <1>4, <1>7, <1>8, QuietKeeps DEF mutex
<1>10. QED BY <1>1, <1>3, <1>9 DEF EditorInv, Modelled, wakes

\* A stop fiber forgets its generation, and asks for a pass.
LEMMA StopEndsStep ==
  ASSUME EditorInv, NEW g \in Gen, StopEnds(g)
  PROVE  Forgets(g) /\ EditorInv'
<1>1. stopped(g) /\ wakeUp /\ UNCHANGED <<desired, loop, phase>>
  BY DEF StopEnds
<1>2. ClosingInv /\ Places(inst) /\ Placed
  BY DEF EditorInv
<1>3. Forgets(g) /\ ClosingInv'
  BY <1>1, <1>2, StoppedKeeps
<1>4. ASSUME NEW h \in Live(inst') PROVE h \in Live(inst) /\ inst'[h] = inst[h]
  <2>1. h \in Gen /\ inst'[h].status # "none" /\ h # g
    BY <1>3 DEF Live, Forgets
  <2>2. inst'[h] = inst[h]
    BY <1>3, <2>1, NobodyIsSound DEF Forgets
  <2>3. QED BY <2>2 DEF Live
<1>5. Places(inst') /\ Placed'
  BY <1>2, <1>4, PlacesStay
<1>6. Matched' /\ Complete'
  BY <1>1 DEF wakeUp, Matched, Complete, isSettled
<1>7. {wake, owed, converged}' \subseteq BOOLEAN
  BY <1>1 DEF wakeUp
<1>8. QED BY <1>1, <1>3, <1>5, <1>6, <1>7 DEF EditorInv, Modelled

\* What starts is named by desire, and has its place and its slot to itself.
Newcomer(g) ==
  /\ g \in Gen /\ inst[g] = Nobody /\ g = token(refOf(g))
  /\ NameOf(inst, refOf(g)) /\ admissible(inst, refOf(g))
  /\ inst'[g] = Admitted(ownerNow(inst, refOf(g)), providersNow(inst, refOf(g)))

\* What may start has an owner, if its family has one, and providers; and they run.
LEMMA NewcomerStands ==
  ASSUME ClosingInv, NEW r, NameOf(inst, r), admissible(inst, r)
  PROVE  /\ ownerNow(inst, r) \in Gen \cup {NoGen} /\ providersNow(inst, r) \in Seq(Gen)
         /\ \A h \in ({ownerNow(inst, r)} \cup Range(providersNow(inst, r))) \ {NoGen} :
              h \in Gen /\ inst[h].status = "running"
         /\ family(r) \in {"Settings", "Session"} => ownerNow(inst, r) = NoGen
         /\ family(r) \notin {"Settings", "Session"} => runs(ownerNow(inst, r))
         /\ IF family(r) = "Diagnostics"
              THEN \E s, l \in Gen : /\ providersNow(inst, r) = <<s, l>>
                                     /\ family(refOf(s)) = "Settings"
                                     /\ family(refOf(l)) = "Language"
              ELSE providersNow(inst, r) = << >>
<1> DEFINE o == ownerNow(inst, r)
           ps == providersNow(inst, r)
           s == only(inst, "Settings")
           l == only(inst, "Language")
<1>1. o \in Gen \cup {NoGen}
  BY OwnerNowIs
<1>2. /\ family(r) \in {"Settings", "Session"} => o = NoGen
      /\ family(r) \notin {"Settings", "Session"} => runs(o)
  BY DEF ownerNow, admissible
<1>3. \A p \in Range(ps) : runs(p)
  BY DEF admissible
<1>4. CASE family(r) = "Diagnostics"
  <2>1. ps = <<s, l>>
    BY <1>4 DEF providersNow
  <2>2. s \in Range(ps) /\ l \in Range(ps)
    BY <2>1 DEF Range
  <2>3. /\ s \in Gen /\ family(refOf(s)) = "Settings"
        /\ l \in Gen /\ family(refOf(l)) = "Language"
    BY <1>3, <2>2, HolderIs DEF runs, only
  <2> HIDE DEF s, l, ps, o
  <2>4. ps \in Seq(Gen) /\ Range(ps) \subseteq Gen
    BY <2>1, <2>3 DEF Range
  <2>5. \A h \in ({o} \cup Range(ps)) \ {NoGen} : h \in Gen /\ inst[h].status = "running"
    BY <1>1, <1>2, <1>3, <2>4 DEF runs
  <2>6. \E x, y \in Gen : ps = <<x, y>> /\ family(refOf(x)) = "Settings" /\ family(refOf(y)) = "Language"
    BY <2>1, <2>3
  <2>7. QED BY <1>1, <1>2, <1>4, <2>4, <2>5, <2>6 DEF o, ps
<1>5. CASE family(r) # "Diagnostics"
  <2>1. ps = << >> /\ Range(ps) = {} /\ ps \in Seq(Gen)
    BY <1>5 DEF providersNow, Range
  <2>2. QED BY <1>1, <1>2, <1>5, <2>1 DEF runs
<1>6. QED BY <1>4, <1>5

\* A pass starts exactly the names that may start.
LEMMA PassAdmitsAfter ==
  ASSUME EditorInv, PassAdmits
  PROVE  /\ \E ts : Starts(ts)
         /\ \A g \in Gen : inst'[g] = inst[g] \/ Newcomer(g)
         /\ \A r : NameOf(inst, r) /\ admissible(inst, r) =>
              token(r) \in Gen /\ token(r) \in Range(all') /\ inst'[token(r)].status = "starting"
<1> DEFINE new == admitted(inst)
           ts == [i \in DOMAIN new |-> token(new[i])]
           toks == {token(r) : r \in Range(new)}
<1>1. ClosingInv /\ Modelled
  BY DEF EditorInv
<1>2. /\ room(inst) /\ all' = all \o ts
      /\ inst' = [g \in Gen |->
           IF g \in toks THEN Admitted(ownerNow(inst, refOf(g)), providersNow(inst, refOf(g)))
                         ELSE inst[g]]
  BY DEF PassAdmits
<1>3. /\ new \in Startable(inst)
      /\ Range(new) = {r \in Range(named(inst)) : admissible(inst, r)}
  BY <1>1, AdmittedAre
<1>4. ASSUME NEW r \in Range(new)
      PROVE  /\ NameOf(inst, r) /\ admissible(inst, r)
             /\ token(r) \in Gen /\ inst[token(r)] = Nobody /\ refOf(token(r)) = r
             /\ Newcomer(token(r))
  <2>1. NameOf(inst, r) /\ admissible(inst, r)
    BY <1>1, <1>3, NamedIs
  <2>2. Free \cap ({r} \X Incarnation) # {}
    BY <1>2 DEF room
  <2>3. r \in Ref
    <3>1. PICK t \in Free \cap ({r} \X Incarnation) : TRUE
      BY <2>2
    <3>2. t \in Gen /\ t[1] = r
      BY <3>1 DEF Free
    <3>3. QED BY <3>2 DEF Gen
  <2>4. token(r) \in Gen /\ inst[token(r)] = Nobody /\ refOf(token(r)) = r
    BY <2>2, <2>3, TokenIsFree
  <2>5. token(r) \in toks
    OBVIOUS
  <2>6. inst'[token(r)] = Admitted(ownerNow(inst, r), providersNow(inst, r))
    BY <1>2, <2>4, <2>5
  <2>7. QED BY <2>1, <2>4, <2>6 DEF Newcomer
<1>5. /\ Len(new) \in Nat /\ DOMAIN new = 1 .. Len(new)
      /\ \A i \in DOMAIN new : new[i] \in Range(new)
      /\ \A i, j \in DOMAIN new : new[i] = new[j] => i = j
  BY <1>3 DEF Startable, Range
<1>6. \A g : g \in toks <=> g \in Range(ts)
  BY <1>5 DEF Range
<1> HIDE DEF toks
<1>7. DOMAIN ts = DOMAIN new /\ \A i \in DOMAIN new : ts[i] = token(new[i])
  OBVIOUS
<1>8. ts \in Seq(Gen)
  <2>1. \A i \in 1 .. Len(new) : ts[i] \in Gen
    BY <1>4, <1>5, <1>7
  <2>2. ts \in [1 .. Len(new) -> Gen]
    BY <1>5, <1>7, <2>1
  <2>3. QED BY <1>5, <2>2
<1>9. \A i, j \in DOMAIN ts : ts[i] = ts[j] => i = j
  BY <1>4, <1>5, <1>7
<1> HIDE DEF ts
<1>10. \A g \in Gen : g \notin Range(ts) => inst'[g] = inst[g]
  BY <1>2, <1>6
<1>11. ASSUME NEW g \in Range(ts) PROVE \E r \in Range(new) : g = token(r)
  BY <1>6, <1>11 DEF toks
<1>12. ASSUME NEW g \in Range(ts) PROVE inst[g] = Nobody /\ Newcomer(g) /\ Begins(g)
  <2>1. PICK r \in Range(new) : g = token(r)
    BY <1>11
  <2>2. inst[g] = Nobody /\ Newcomer(g) /\ NameOf(inst, r) /\ admissible(inst, r) /\ refOf(g) = r
    BY <1>4, <2>1
  <2>3. /\ ownerNow(inst, r) \in Gen \cup {NoGen} /\ providersNow(inst, r) \in Seq(Gen)
        /\ \A h \in ({ownerNow(inst, r)} \cup Range(providersNow(inst, r))) \ {NoGen} :
             inst[h].status = "running"
    BY <1>1, <2>2, NewcomerStands
  <2>4. inst'[g] = Admitted(ownerNow(inst, r), providersNow(inst, r))
    BY <2>2 DEF Newcomer
  <2>5. QED BY <2>2, <2>3, <2>4 DEF Begins
<1>13. inst' = [g \in Gen |-> inst'[g]]
  BY <1>2
<1>14. Starts(ts)
  BY <1>2, <1>8, <1>9, <1>10, <1>12, <1>13 DEF Starts
<1>15. ASSUME NEW r, NameOf(inst, r), admissible(inst, r)
       PROVE  /\ token(r) \in Gen /\ token(r) \in Range(all')
              /\ inst'[token(r)].status = "starting"
  <2>1. r \in Range(new)
    BY <1>1, <1>3, <1>15, NamedIs
  <2>2. token(r) \in Gen /\ token(r) \in Range(ts)
    BY <1>4, <1>6, <2>1 DEF toks
  <2>3. inst'[token(r)].status = "starting"
    BY <1>1, <1>12, <2>2, WhoBegins
  <2>4. Range(all') = Range(all) \cup Range(ts)
    BY <1>1, <1>2, <1>8, Appending DEF ClosingInv
  <2>5. QED BY <2>2, <2>3, <2>4
<1>16. QED BY <1>10, <1>12, <1>14, <1>15

\* Newcomers have their slots to themselves.
LEMMA SlotsAreDistinct ==
  ASSUME NEW r, NEW q, NameOf(inst, r), slotFor(r) = slotFor(q)
  PROVE  samePlace(r, q)
<1>1. family(r) = family(q)
  BY DEF slotFor
<1>2. family(r) \in PerUri => r = q
  BY <1>1 DEF slotFor
<1>3. QED BY <1>1, <1>2 DEF samePlace

LEMMA PassAdmitsStep ==
  ASSUME EditorInv, PassAdmits
  PROVE  EditorInv'
<1>1. /\ ClosingInv /\ Places(inst) /\ Placed /\ Modelled /\ inst \in Insts
      /\ \A g \in Gen : inst[g] \in Generation
  BY GenerationsAreSound DEF EditorInv
<1>2. /\ \A g \in Gen : inst'[g] = inst[g] \/ Newcomer(g)
      /\ \A r : NameOf(inst, r) /\ admissible(inst, r) =>
           token(r) \in Gen /\ token(r) \in Range(all') /\ inst'[token(r)].status = "starting"
  BY PassAdmitsAfter
<1>3. PICK ts : Starts(ts)
  BY PassAdmitsAfter
<1>4. ClosingInv'
  BY <1>1, <1>3, StartsKeep
<1>5. /\ desired' = desired /\ loop' = "waiting" /\ phase' = phase
      /\ owed' = owed /\ wake' = wake
  BY DEF PassAdmits
<1>6. ASSUME NEW g, Newcomer(g)
      PROVE  /\ g \in Gen /\ g \notin Live(inst) /\ g \in Live(inst')
             /\ inst'[g].owner = ownerNow(inst, refOf(g))
             /\ inst'[g].providers = providersNow(inst, refOf(g))
             /\ \A h \in standsOn(g)' : h \in Live(inst)
  <2>1. /\ ownerNow(inst, refOf(g)) \in Gen \cup {NoGen}
        /\ providersNow(inst, refOf(g)) \in Seq(Gen)
        /\ \A h \in ({ownerNow(inst, refOf(g))} \cup Range(providersNow(inst, refOf(g)))) \ {NoGen} :
             h \in Gen /\ inst[h].status = "running"
    BY <1>1, <1>6, NewcomerStands DEF Newcomer
  <2>2. /\ inst'[g].owner = ownerNow(inst, refOf(g))
        /\ inst'[g].providers = providersNow(inst, refOf(g))
        /\ inst'[g].status = "starting"
    BY <1>6, <2>1, AdmittedIsSound DEF Newcomer
  <2>3. g \in Gen /\ inst[g].status = "none"
    BY <1>6, NobodyIsSound DEF Newcomer
  <2>4. QED BY <2>1, <2>2, <2>3 DEF Live, standsOn
<1>7. ASSUME NEW g \in Live(inst) PROVE g \in Live(inst') /\ inst'[g] = inst[g]
  <2>1. g \in Gen /\ inst'[g] = inst[g]
    BY <1>2, <1>6, <1>7 DEF Live
  <2>2. QED BY <2>1, <1>7 DEF Live
<1>8. ASSUME NEW g \in Live(inst') PROVE g \in Live(inst) \/ Newcomer(g)
  BY <1>2 DEF Live
<1>9. Places(inst')
  <2>1. ASSUME NEW g, NEW h \in Live(inst), Newcomer(g), samePlace(refOf(g), refOf(h)) PROVE FALSE
    <3>1. holder(inst, family(refOf(g)), key(refOf(g))) = NoGen
      BY <2>1 DEF Newcomer, admissible
    <3>2. QED BY <2>1, <3>1, HolderIs DEF samePlace
  <2>2. ASSUME NEW g, NEW h, Newcomer(g), Newcomer(h), samePlace(refOf(g), refOf(h)) PROVE g = h
    <3>1. refOf(g) = refOf(h)
      BY <2>2, NamesDiffer DEF Newcomer
    <3>2. QED BY <2>2, <3>1 DEF Newcomer
  <2>3. QED BY <1>1, <1>8, <2>1, <2>2 DEF Places, samePlace
<1>10. Placed'
  <2>1. ASSUME NEW g \in Live(inst) PROVE Stands(g)'
    <3>1. Stands(g) /\ inst'[g] = inst[g]
      BY <1>1, <1>7 DEF Placed
    <3>2. QED BY <3>1 DEF Stands
  <2>2. ASSUME NEW g, Newcomer(g) PROVE Stands(g)'
    <3> DEFINE r == refOf(g)
               o == ownerNow(inst, r)
               ps == providersNow(inst, r)
    <3>1. NameOf(inst, r) /\ inst'[g].owner = o /\ inst'[g].providers = ps
      BY <1>6, <2>2 DEF Newcomer
    <3>2. /\ family(r) \in {"Settings", "Session"} => o = NoGen
          /\ family(r) \notin {"Settings", "Session"} => runs(o)
          /\ IF family(r) = "Diagnostics"
               THEN \E s, l \in Gen : /\ ps = <<s, l>>
                                      /\ family(refOf(s)) = "Settings"
                                      /\ family(refOf(l)) = "Language"
               ELSE ps = << >>
      BY <1>1, <2>2, NewcomerStands DEF Newcomer
    <3>3. family(r) \notin {"Settings", "Session"} =>
            /\ o \in Gen
            /\ \/ family(r) = "Workspace" /\ family(refOf(o)) = "Session"
               \/ family(r) \in {"Language", "Document"} /\ family(refOf(o)) = "Workspace"
               \/ /\ family(r) = "Diagnostics"
                  /\ family(refOf(o)) = "Document" /\ key(refOf(o)) = key(r)
      BY <3>2, OwnerNowIs DEF runs
    <3>4. /\ family(r) = "Session" => key(r) # Null
          /\ family(r) = "Workspace" => key(r) # Null
          /\ family(r) \in Families
          /\ r = Append(beneath(o), <<family(r), key(r)>>)
      BY <3>1 DEF NameOf, wanted
    <3> HIDE DEF r, o, ps
    <3>5. Stands(g)' <=>
            /\ r = Append(beneath(o), <<family(r), key(r)>>)
            /\ \/ /\ family(r) = "Settings"
                  /\ o = NoGen /\ ps = << >>
               \/ /\ family(r) = "Session" /\ key(r) # Null
                  /\ o = NoGen /\ ps = << >>
               \/ /\ family(r) = "Workspace" /\ key(r) # Null
                  /\ o \in Gen /\ family(refOf(o)) = "Session" /\ ps = << >>
               \/ /\ family(r) \in {"Language", "Document"}
                  /\ o \in Gen /\ family(refOf(o)) = "Workspace" /\ ps = << >>
               \/ /\ family(r) = "Diagnostics"
                  /\ o \in Gen /\ family(refOf(o)) = "Document" /\ key(refOf(o)) = key(r)
                  /\ \E s, l \in Gen : /\ ps = <<s, l>>
                                       /\ family(refOf(s)) = "Settings"
                                       /\ family(refOf(l)) = "Language"
      BY <3>1 DEF Stands, r
    <3>6. QED BY <3>2, <3>3, <3>4, <3>5 DEF Families
  <2>3. QED BY <1>8, <2>1, <2>2 DEF Placed
<1>11. Matched'
  <2> SUFFICES ASSUME phase = "open", ~owed, NEW g \in Live(inst') PROVE keeps(inst, g)'
    BY <1>5 DEF Matched
  <2>1. CASE g \in Live(inst)
    <3>1. keeps(inst, g)
      BY <2>1 DEF EditorInv, Matched
    <3>2. inst'[g].owner = inst[g].owner /\ inst'[g].providers = inst[g].providers
      BY <1>7, <2>1
    <3>3. \A h \in standsOn(g) : h \in Live(inst')
      BY <1>1, <1>7, <2>1, StandsOnWhatRuns DEF Live
    <3>4. QED BY <1>1, <1>5, <1>9, <2>1, <3>1, <3>2, <3>3, KeepsOn
  <2>2. CASE Newcomer(g)
    <3> DEFINE r == refOf(g)
    <3>1. /\ NameOf(inst, r) /\ inst'[g].owner = ownerNow(inst, r)
          /\ inst'[g].providers = providersNow(inst, r)
          /\ \A h \in standsOn(g)' : h \in Live(inst')
      BY <1>6, <1>7, <2>2 DEF Newcomer
    <3>2. \A f, k : holder(inst, f, k) # NoGen => holder(inst', f, k) = holder(inst, f, k)
      <4> SUFFICES ASSUME NEW f, NEW k, holder(inst, f, k) # NoGen
                   PROVE  holder(inst', f, k) = holder(inst, f, k)
        OBVIOUS
      <4> DEFINE h == holder(inst, f, k)
      <4>1. h \in Live(inst') /\ family(refOf(h)) = f /\ (f \in PerUri => key(refOf(h)) = k)
        BY <1>7, HolderIs
      <4> HIDE DEF h
      <4>2. holder(inst', family(refOf(h)), k) = h
        BY <1>9, <4>1, HolderIsIt
      <4>3. QED BY <4>1, <4>2 DEF h
    <3>3. family(r) \in {"Settings", "Session"} \/ ownerNow(inst, r) # NoGen
      BY <2>2, <1>1, NewcomerStands DEF Newcomer, runs
    <3>4. ownerNow(inst', r) = ownerNow(inst, r)
      <4>1. CASE family(r) \in {"Settings", "Session"}
        BY <4>1 DEF ownerNow
      <4>2. CASE family(r) = "Workspace"
        BY <3>2, <3>3, <4>2 DEF ownerNow, only
      <4>3. CASE family(r) \in {"Language", "Document"}
        BY <3>2, <3>3, <4>3 DEF ownerNow, only
      <4>4. CASE family(r) = "Diagnostics"
        BY <3>2, <3>3, <4>4 DEF ownerNow
      <4>5. QED BY <3>1, <4>1, <4>2, <4>3, <4>4 DEF NameOf, Families
    <3>5. providersNow(inst', r) = providersNow(inst, r)
      <4>1. CASE family(r) # "Diagnostics"
        BY <4>1 DEF providersNow
      <4>2. CASE family(r) = "Diagnostics"
        <5>1. providersNow(inst, r) = <<only(inst, "Settings"), only(inst, "Language")>>
          BY <4>2 DEF providersNow
        <5>2. /\ only(inst, "Settings") \in Range(providersNow(inst, r))
              /\ only(inst, "Language") \in Range(providersNow(inst, r))
          BY <5>1 DEF Range
        <5>3. only(inst, "Settings") # NoGen /\ only(inst, "Language") # NoGen
          BY <2>2, <5>2 DEF Newcomer, admissible, runs
        <5>4. /\ only(inst', "Settings") = only(inst, "Settings")
              /\ only(inst', "Language") = only(inst, "Language")
          BY <3>2, <5>3 DEF only
        <5>5. QED BY <4>2, <5>4 DEF providersNow
      <4>3. QED BY <4>1, <4>2
    <3>6. wanted(r)'
      BY <1>5, <3>1 DEF NameOf, wanted
    <3>7. QED BY <3>1, <3>4, <3>5, <3>6 DEF keeps
  <2>3. QED BY <1>8, <2>1, <2>2
<1>12. Complete'
  <2> SUFFICES ASSUME isSettled(inst, Range(all))', NEW r, NameOf(inst, r)', admissible(inst, r)'
               PROVE  FALSE
    BY DEF Complete
  <2>1. ASSUME NEW g, Newcomer(g) PROVE FALSE
    <3>1. NameOf(inst, refOf(g)) /\ admissible(inst, refOf(g))
      BY <2>1 DEF Newcomer
    <3>2. QED BY <1>2, <3>1 DEF isSettled
  <2>2. \A g \in Gen : inst'[g].status = inst[g].status
    BY <1>2, <2>1
  <2>3. NameOf(inst, r) /\ admissible(inst, r)
    BY <1>5, <2>2, AdmissibleStays
  <2>4. QED BY <1>2, <2>3 DEF isSettled
<1>13. {wake, owed, converged}' \subseteq BOOLEAN
  <2>1. converged' \in BOOLEAN
    BY DEF PassAdmits
  <2>2. QED BY <1>5, <2>1 DEF EditorInv
<1>14. Modelled' /\ phase' \in {"open", "closing", "closed"}
  BY <1>5 DEF EditorInv, Modelled
<1>15. QED BY <1>4, <1>5, <1>9, <1>10, <1>11, <1>12, <1>13, <1>14 DEF EditorInv

-----------------------------------------------------------------------------
(***************************************************************************)
(* The invariant of the editor runtime.                                    *)
(***************************************************************************)
LEMMA EditorStarts ==
  ASSUME Init
  PROVE  EditorInv
<1>1. /\ all = << >> /\ inst = [g \in Gen |-> Nobody] /\ desired = desiredBy(emptyModel)
      /\ loop = "waiting" /\ phase = "open" /\ wake = TRUE /\ owed = TRUE /\ converged = FALSE
  BY DEF Init
<1>2. /\ \A g \in Gen : inst[g] = Nobody /\ inst[g].status = "none" /\ inst[g].scope = "none"
      /\ Live(inst) = {}
  BY <1>1, NobodyIsSound DEF Live
<1>3. all \in Seq(Gen) /\ inst \in Insts /\ Range(all) = {}
  BY <1>1, NobodyIsSound DEF Insts, Range
<1>4. AllSound /\ AllKempt /\ Remembers
  BY <1>1, <1>2, <1>3, NobodyIsSound DEF AllSound, AllKempt, Remembers
<1>5. OwnersRun /\ ProvidersRun /\ ClosesUnderOwner
  BY <1>2 DEF OwnersRun, ProvidersRun, ClosesUnderOwner
<1>6. Places(inst) /\ Placed /\ Matched /\ Complete
  BY <1>1, <1>2 DEF Places, Placed, Matched, Complete, isSettled
<1>7. Modelled
  BY <1>1 DEF Modelled
<1>8. QED BY <1>1, <1>3, <1>4, <1>5, <1>6, <1>7 DEF EditorInv, ClosingInv

LEMMA EditorSteps ==
  ASSUME EditorInv, [Next]_vars
  PROVE  EditorInv'
<1>1. CASE UNCHANGED vars
  <2>1. UNCHANGED <<desired, all, inst, loop, phase, wake, owed, converged>>
    BY <1>1 DEF vars, wakes
  <2>2. CASE mutex
    BY <2>1, <2>2, LeavesStep DEF EditorInv, mutex
  <2>3. CASE ~mutex
    <3>1. ClosingInv'
      BY <2>1, GenerationsStay DEF EditorInv
    <3>2. isSettled(inst, Range(all))' => isSettled(inst, Range(all))
      BY <2>1 DEF isSettled
    <3>3. Places(inst') /\ Placed' /\ Matched' /\ Complete'
      BY <2>1, <3>2, QuietKeeps DEF mutex
    <3>4. QED BY <2>1, <3>1, <3>3 DEF EditorInv, Modelled
  <2>4. QED BY <2>2, <2>3
<1>2. CASE LoopTakes
  <2>1. /\ UNCHANGED <<desired, all, inst, phase>> /\ loop' = "due"
        /\ owed' = owed /\ converged' = converged /\ wake' = FALSE /\ mutex
    BY <1>2 DEF LoopTakes, mutex
  <2>2. QED BY <2>1, LeavesStep DEF EditorInv
<1>3. CASE PassIsLate
  <2>1. /\ UNCHANGED <<desired, all, inst, phase>> /\ loop' = "waiting" /\ phase # "open"
        /\ owed' = owed /\ converged' = converged /\ wake' = wake
    BY <1>3 DEF PassIsLate, wakes
  <2>2. QED BY <2>1, LeavesStep DEF EditorInv
<1>4. CASE ShutdownEnds
  <2>1. /\ UNCHANGED <<desired, all, inst, loop>> /\ phase' = "closed"
        /\ owed' = owed /\ converged' = converged /\ wake' = wake
    BY <1>4 DEF ShutdownEnds, wakes
  <2>2. ClosingInv'
    BY <2>1, GenerationsStay DEF EditorInv
  <2>3. Places(inst') /\ Placed'
    BY <2>1, PlacesStay DEF EditorInv
  <2>4. QED BY <2>1, <2>2, <2>3 DEF EditorInv, Matched, Complete, Modelled
<1>5. CASE \E m \in Models : commit(m)
  BY <1>5, CommitStep
<1>6. CASE retryLanguage \/ shutdown \/ PassInvalidates
  BY <1>6, RetryStep, ShutdownStep, PassInvalidatesStep
<1>7. CASE PassAdmits
  BY <1>7, PassAdmitsStep
<1>8. ASSUME NEW g \in Gen,
             \/ closeInstance(g) \/ ScopeCloses(g) \/ StopEnds(g)
             \/ CompletedLate(g) \/ \E ok \in BOOLEAN : Completed(g, ok)
      PROVE  EditorInv'
  BY <1>8, ClosesStep, StopEndsStep, CompletedLateStep, CompletedStep
<1>9. QED BY <1>1, <1>2, <1>3, <1>4, <1>5, <1>6, <1>7, <1>8 DEF Next

\* The indexes of the editor runtime, its generations and the closes of their Scopes
\* fit each other, whatever the application commits and whoever ends first.
THEOREM EditorInvariant == Spec => []EditorInv
<1>1. Init => EditorInv
  BY EditorStarts
<1>2. EditorInv /\ [Next]_vars => EditorInv'
  BY EditorSteps
<1>3. QED BY <1>1, <1>2, PTL DEF Spec

\* Every field of the runtime holds what it is declared to hold.
THEOREM EditorTypeCorrect == Spec => []TypeOK
<1>1. EditorInv => TypeOK
  BY GenerationsAreSound DEF EditorInv, TypeOK, Modelled, Insts
<1>2. QED BY <1>1, EditorInvariant, PTL

-----------------------------------------------------------------------------
(***************************************************************************)
(* A settled runtime is what the Model asks for.                           *)
(***************************************************************************)
Settled == phase = "open" /\ mutex /\ isSettled(inst, Range(all))

\* When it is settled, those who are remembered are those with authority, each runs
\* or has failed, and each has its name.
LEMMA SettledAre ==
  ASSUME EditorInv, Settled
  PROVE  /\ Range(all) = Live(inst)
         /\ \A g \in Live(inst) :
              /\ g \in Gen /\ Stands(g) /\ keeps(inst, g) /\ NameOf(inst, refOf(g))
              /\ standsOn(g) \subseteq {h \in Range(all) : inst[h].status = "running"}
         /\ \A g \in Gen : inst[g].status \notin {"starting", "stopping"}
<1>1. ClosingInv /\ Placed /\ Range(all) \subseteq Gen
  BY GenerationsAreSound DEF EditorInv
<1>2. \A g \in Gen : inst[g] \in Generation /\ (inst[g].status # "none" <=> g \in Range(all))
  BY <1>1, GenerationsAreSound DEF ClosingInv, Remembers
<1>3. \A g \in Range(all) : inst[g].status \notin {"starting", "stopping"}
  BY DEF Settled, isSettled
<1>4. Range(all) = Live(inst)
  BY <1>1, <1>2, <1>3 DEF Live, Generation
<1>5. \A g \in Gen : inst[g].status \notin {"starting", "stopping"}
  BY <1>2, <1>3
<1>6. ASSUME NEW g \in Live(inst)
      PROVE  /\ g \in Gen /\ Stands(g) /\ keeps(inst, g) /\ NameOf(inst, refOf(g))
             /\ standsOn(g) \subseteq {h \in Range(all) : inst[h].status = "running"}
  <2> DEFINE r == refOf(g)
  <2>1. g \in Gen /\ Stands(g) /\ keeps(inst, g)
    BY <1>1 DEF Live, Placed, EditorInv, Matched, Settled, isSettled
  <2>2. /\ r = Append(beneath(ownerNow(inst, r)), <<family(r), key(r)>>)
        /\ inst[g].owner = ownerNow(inst, r)
    BY <2>1 DEF Stands, keeps
  <2>3. wanted(r)
    <3>1. CASE family(r) # "Diagnostics"
      BY <2>1, <3>1 DEF keeps
    <3>2. CASE family(r) = "Diagnostics"
      <4> DEFINE d == inst[g].owner
      <4>1. d \in Gen /\ family(refOf(d)) = "Document" /\ key(refOf(d)) = key(r)
        BY <2>1, <3>2 DEF Stands
      <4>2. d \in standsOn(g)
        BY <4>1, ClosingAssumption DEF standsOn
      <4>3. d \in Live(inst)
        BY <1>1, <4>2, StandsOnWhatRuns DEF Live
      <4>4. keeps(inst, d)
        BY <4>3 DEF EditorInv, Matched, Settled, isSettled
      <4>5. key(refOf(d)) \in Range(desired.documents)
        BY <4>1, <4>4 DEF keeps, wanted
      <4>6. QED BY <3>2, <4>1, <4>5 DEF wanted
    <3>3. QED BY <3>1, <3>2
  <2>4. NameOf(inst, r)
    BY <2>1, <2>2, <2>3 DEF NameOf, Stands, Families
  <2>5. \A h \in standsOn(g) : h \in Gen /\ inst[h].status = "running"
    BY <1>1, StandsOnWhatRuns
  <2>6. \A h \in standsOn(g) : h \in Range(all)
    BY <1>2, <2>5
  <2>7. QED BY <2>1, <2>4, <2>5, <2>6
<1>7. QED BY <1>4, <1>5, <1>6

\* A name whose owner and providers run is held: else it could start.
LEMMA NamesAreHeld ==
  ASSUME EditorInv, Settled, NEW r, NameOf(inst, r),
         family(r) \in {"Settings", "Session"} \/ runs(ownerNow(inst, r)),
         \A p \in Range(providersNow(inst, r)) : runs(p)
  PROVE  \E g \in Live(inst) : refOf(g) = r
<1>1. ~admissible(inst, r)
  BY DEF EditorInv, Complete, Settled
<1>2. \A g \in Gen : inst[g].status \notin {"starting", "stopping"}
  BY SettledAre
<1>3. holder(inst, family(r), key(r)) # NoGen \/ ~canAdmit(inst, r)
  BY <1>1 DEF admissible
<1>4. \E g \in Live(inst) : samePlace(r, refOf(g))
  <2>1. CASE holder(inst, family(r), key(r)) # NoGen
    BY <2>1, HolderIs DEF samePlace
  <2>2. CASE ~canAdmit(inst, r)
    <3>1. inSlot(inst, r, {"stopping"}) = {}
      BY <1>2 DEF inSlot
    <3>2. PICK g \in inSlot(inst, r, {"starting", "running", "failed"}) : TRUE
      BY <2>2, <3>1 DEF canAdmit
    <3>3. g \in Live(inst) /\ slotFor(refOf(g)) = slotFor(r)
      BY <3>2 DEF inSlot, Live
    <3>4. QED BY <3>3, SlotsAreDistinct
  <2>3. QED BY <1>3, <2>1, <2>2
<1>5. PICK g \in Live(inst) : samePlace(r, refOf(g))
  BY <1>4
<1>6. NameOf(inst, refOf(g))
  BY <1>5, SettledAre
<1>7. refOf(g) = r
  BY <1>5, <1>6, NamesDiffer
<1>8. QED BY <1>7

-----------------------------------------------------------------------------
(***************************************************************************)
(* The paths of the identities a Model names.                              *)
(***************************************************************************)
isPath(s) == s \in Seq(Range(s))
grown(s, f, k) == Append(s, <<f, k>>)

LEMMA PathGrows ==
  ASSUME NEW s, isPath(s), NEW f, NEW k
  PROVE  LET r == grown(s, f, k) IN
         /\ isPath(r) /\ Len(r) = Len(s) + 1 /\ Len(s) \in Nat
         /\ family(r) = f /\ key(r) = k /\ Front(r) = s /\ r # << >>
         /\ \A i \in 1 .. Len(s) : r[i] = s[i]
<1> DEFINE e == <<f, k>>
           r == grown(s, f, k)
           S == Range(s)
           T == S \cup {e}
<1>0. s \in Seq(S) /\ r = Append(s, <<f, k>>)
  BY DEF isPath, grown
<1>1. family(r) = f /\ key(r) = k /\ Front(r) = s /\ r # << >> /\ Len(r) = Len(s) + 1
  <2> HIDE DEF S, r
  <2>1. QED BY <1>0, Extended
<1>2. s \in Seq(T) /\ e \in T /\ r = Append(s, e)
  BY <1>0
<1> HIDE DEF e, T, S, r
<1>3. r \in Seq(T) /\ \A i \in 1 .. Len(s) : r[i] = s[i]
  BY <1>2, AppendProperties
<1>4. Len(r) \in Nat /\ DOMAIN r = 1 .. Len(r) /\ r = [i \in 1 .. Len(r) |-> r[i]]
  BY <1>3
<1>5. isPath(r)
  BY <1>4, ListIsOfItsRange DEF isPath
<1>6. Len(s) \in Nat
  BY <1>0
<1>7. QED BY <1>1, <1>3, <1>5, <1>6 DEF r

LEMMA PathIsLonger ==
  ASSUME NEW s, isPath(s), NEW f, NEW k
  PROVE  /\ Len(grown(s, f, k)) = Len(s) + 1
         /\ \A i \in 1 .. Len(s) : grown(s, f, k)[i] = s[i]
<1>1. QED BY PathGrows

\* A path of two, grown by two, still begins with it.
LEMMA TwoMore ==
  ASSUME NEW s, isPath(s), Len(s) = 2, NEW f, NEW k, NEW h, NEW l
  PROVE  SubSeq(grown(grown(s, f, k), h, l), 1, 2) = s
<1> DEFINE q == grown(s, f, k)
           r == grown(q, h, l)
<1>1. /\ isPath(q) /\ Len(q) = 3 /\ \A i \in 1 .. 2 : q[i] = s[i]
  <2>1. Len(q) = Len(s) + 1 /\ \A i \in 1 .. Len(s) : q[i] = s[i]
    BY PathIsLonger
  <2>3. isPath(q)
    BY PathGrows
  <2> HIDE DEF q
  <2>2. QED BY <2>1, <2>3
<1> HIDE DEF q
<1>2. /\ isPath(r) /\ Len(r) = 4 /\ \A i \in 1 .. 3 : r[i] = q[i]
  <2>0. isPath(q)
    BY <1>1
  <2>1. Len(r) = Len(q) + 1 /\ \A i \in 1 .. Len(q) : r[i] = q[i]
    BY <2>0, PathIsLonger
  <2>3. isPath(r)
    BY <1>1, PathGrows
  <2> HIDE DEF r
  <2>2. QED BY <1>1, <2>1, <2>3
<1> HIDE DEF r
<1>3. SubSeq(r, 1, 2) = [i \in 1 .. 2 |-> r[i]]
  BY <1>2 DEF isPath
<1>4. s = [i \in 1 .. 2 |-> s[i]]
  BY DEF isPath
<1>5. \A i \in 1 .. 2 : r[i] = s[i]
  BY <1>1, <1>2
<1>6. SubSeq(r, 1, 2) = s
  BY <1>3, <1>4, <1>5
<1>7. QED BY <1>6 DEF q, r

\* The identities of a Model.
settingsOf(d) == <<<<"Settings", d.settings>>>>
sessionOf(d) == <<<<"Session", d.session>>>>
workspaceOf(d) == Append(sessionOf(d), <<"Workspace", d.workspace>>)
languageOf(d) == Append(workspaceOf(d), <<"Language", d.language>>)
documentOf(d, uri) == Append(workspaceOf(d), <<"Document", uri>>)
diagnosticsOf(d, uri) == Append(documentOf(d, uri), <<"Diagnostics", uri>>)

LEMMA PathsOfAModel ==
  ASSUME NEW d
  PROVE  /\ /\ family(settingsOf(d)) = "Settings" /\ key(settingsOf(d)) = d.settings
            /\ Front(settingsOf(d)) = << >> /\ settingsOf(d) = Append(<< >>, <<"Settings", d.settings>>)
         /\ /\ family(sessionOf(d)) = "Session" /\ key(sessionOf(d)) = d.session
            /\ Front(sessionOf(d)) = << >> /\ sessionOf(d) # << >>
            /\ sessionOf(d) = Append(<< >>, <<"Session", d.session>>)
         /\ /\ family(workspaceOf(d)) = "Workspace" /\ key(workspaceOf(d)) = d.workspace
            /\ Front(workspaceOf(d)) = sessionOf(d) /\ workspaceOf(d) # << >>
         /\ /\ family(languageOf(d)) = "Language" /\ key(languageOf(d)) = d.language
            /\ Front(languageOf(d)) = workspaceOf(d)
         /\ \A uri :
              /\ family(documentOf(d, uri)) = "Document" /\ key(documentOf(d, uri)) = uri
              /\ Front(documentOf(d, uri)) = workspaceOf(d) /\ documentOf(d, uri) # << >>
              /\ family(diagnosticsOf(d, uri)) = "Diagnostics" /\ key(diagnosticsOf(d, uri)) = uri
              /\ Front(diagnosticsOf(d, uri)) = documentOf(d, uri)
              /\ SubSeq(diagnosticsOf(d, uri), 1, 2) = workspaceOf(d)
<1> DEFINE none == << >>
           ss == sessionOf(d)
           w == workspaceOf(d)
<1>1. isPath(none) /\ Len(none) = 0
  BY DEF Range, isPath
<1>2. /\ settingsOf(d) = grown(none, "Settings", d.settings)
      /\ ss = grown(none, "Session", d.session)
  BY DEF settingsOf, sessionOf, grown
<1>3. /\ w = grown(ss, "Workspace", d.workspace)
      /\ languageOf(d) = grown(w, "Language", d.language)
  BY DEF workspaceOf, languageOf, grown
<1> HIDE DEF none, ss, w
<1>4. /\ family(settingsOf(d)) = "Settings" /\ key(settingsOf(d)) = d.settings
      /\ Front(settingsOf(d)) = none
  BY <1>1, <1>2, PathGrows
<1>5. /\ isPath(ss) /\ Len(ss) = 1 /\ family(ss) = "Session" /\ key(ss) = d.session
      /\ Front(ss) = none /\ ss # << >>
  <2>1. /\ isPath(ss) /\ family(ss) = "Session" /\ key(ss) = d.session
        /\ Front(ss) = none /\ ss # << >>
    BY <1>1, <1>2, PathGrows
  <2>2. Len(ss) = Len(none) + 1
    BY <1>1, <1>2, PathIsLonger
  <2>3. QED BY <1>1, <2>1, <2>2
<1>6. /\ isPath(w) /\ Len(w) = 2 /\ family(w) = "Workspace" /\ key(w) = d.workspace
      /\ Front(w) = ss /\ w # << >>
  <2>1. /\ isPath(w) /\ family(w) = "Workspace" /\ key(w) = d.workspace
        /\ Front(w) = ss /\ w # << >>
    BY <1>3, <1>5, PathGrows
  <2>2. Len(w) = Len(ss) + 1
    BY <1>3, <1>5, PathIsLonger
  <2>3. QED BY <1>5, <2>1, <2>2
<1>7. /\ family(languageOf(d)) = "Language" /\ key(languageOf(d)) = d.language
      /\ Front(languageOf(d)) = w
  BY <1>3, <1>6, PathGrows
<1>8. ASSUME NEW uri
      PROVE  /\ family(documentOf(d, uri)) = "Document" /\ key(documentOf(d, uri)) = uri
             /\ Front(documentOf(d, uri)) = w /\ documentOf(d, uri) # << >>
             /\ family(diagnosticsOf(d, uri)) = "Diagnostics" /\ key(diagnosticsOf(d, uri)) = uri
             /\ Front(diagnosticsOf(d, uri)) = documentOf(d, uri)
             /\ SubSeq(diagnosticsOf(d, uri), 1, 2) = w
  <2> DEFINE q == documentOf(d, uri)
             r == diagnosticsOf(d, uri)
  <2>1. q = grown(w, "Document", uri) /\ r = grown(q, "Diagnostics", uri)
    BY DEF documentOf, diagnosticsOf, w, grown
  <2> HIDE DEF q, r
  <2>2. isPath(q) /\ family(q) = "Document" /\ key(q) = uri /\ Front(q) = w /\ q # << >>
    BY <1>6, <2>1, PathGrows
  <2>3. family(r) = "Diagnostics" /\ key(r) = uri /\ Front(r) = q
    BY <2>1, <2>2, PathGrows
  <2>4. SubSeq(r, 1, 2) = w
    BY <1>6, <2>1, TwoMore
  <2>5. QED BY <2>2, <2>3, <2>4 DEF q, r
<1>9. QED BY <1>2, <1>4, <1>5, <1>6, <1>7, <1>8 DEF none, ss, w, grown

\* What a Model asks for, by those names.
LEMMA LifetimesAre ==
  ASSUME NEW d, d.session = Null => d.workspace = Null
  PROVE  \A r : r \in lifetimes(d) <=>
           \/ r = settingsOf(d)
           \/ d.session # Null /\ r = sessionOf(d)
           \/ /\ d.workspace # Null
              /\ \/ r = workspaceOf(d) \/ r = languageOf(d)
                 \/ \E uri \in Range(d.documents) : r = documentOf(d, uri) \/ r = diagnosticsOf(d, uri)
<1> DEFINE documents == {documentOf(d, uri) : uri \in Range(d.documents)}
<1>1. lifetimes(d) =
        {settingsOf(d)}
        \cup (IF d.session = Null THEN {} ELSE {sessionOf(d)})
        \cup (IF d.workspace = Null THEN {}
              ELSE {workspaceOf(d), languageOf(d)} \cup documents
                   \cup {Append(r, <<"Diagnostics", key(r)>>) : r \in documents})
  BY DEF lifetimes, settingsOf, sessionOf, workspaceOf, languageOf, documentOf
<1>2. \A r : r \in {Append(q, <<"Diagnostics", key(q)>>) : q \in documents} <=>
               \E uri \in Range(d.documents) : r = diagnosticsOf(d, uri)
  <2>1. \A uri : Append(documentOf(d, uri), <<"Diagnostics", key(documentOf(d, uri))>>)
                   = diagnosticsOf(d, uri)
    BY PathsOfAModel DEF diagnosticsOf
  <2>2. QED BY <2>1
<1>3. \A r : r \in documents <=> \E uri \in Range(d.documents) : r = documentOf(d, uri)
  OBVIOUS
<1> HIDE DEF documents
<1>4. QED BY <1>1, <1>2, <1>3

\* What each is to stand on.
LEMMA BasesAre ==
  ASSUME NEW d
  PROVE  /\ bases(d, settingsOf(d)) = {} /\ bases(d, sessionOf(d)) = {}
         /\ bases(d, workspaceOf(d)) = {sessionOf(d)}
         /\ bases(d, languageOf(d)) = {workspaceOf(d)}
         /\ \A uri :
              /\ bases(d, documentOf(d, uri)) = {workspaceOf(d)}
              /\ bases(d, diagnosticsOf(d, uri)) = {documentOf(d, uri), settingsOf(d), languageOf(d)}
<1> DEFINE beyond(r) == IF family(r) # "Diagnostics" THEN {}
                        ELSE {settingsOf(d), Append(SubSeq(r, 1, 2), <<"Language", d.language>>)}
<1>1. \A r : bases(d, r) = ({Front(r)} \ {<< >>}) \cup beyond(r)
  BY DEF bases, settingsOf
<1>2. \A r : family(r) # "Diagnostics" => bases(d, r) = {Front(r)} \ {<< >>}
  BY <1>1
<1>3. \A uri : beyond(diagnosticsOf(d, uri)) = {settingsOf(d), languageOf(d)}
  BY PathsOfAModel DEF languageOf
<1> HIDE DEF beyond
<1>4. \A uri : bases(d, diagnosticsOf(d, uri)) = {documentOf(d, uri), settingsOf(d), languageOf(d)}
  <2>1. \A uri : {Front(diagnosticsOf(d, uri))} \ {<< >>} = {documentOf(d, uri)}
    BY PathsOfAModel
  <2>2. QED BY <1>1, <1>3, <2>1
<1>5. bases(d, settingsOf(d)) = {} /\ bases(d, sessionOf(d)) = {}
  BY <1>2, PathsOfAModel
<1>6. bases(d, workspaceOf(d)) = {sessionOf(d)} /\ bases(d, languageOf(d)) = {workspaceOf(d)}
  BY <1>2, PathsOfAModel
<1>7. \A uri : bases(d, documentOf(d, uri)) = {workspaceOf(d)}
  BY <1>2, PathsOfAModel
<1>8. QED BY <1>4, <1>5, <1>6, <1>7

\* Everything settled is one of the identities of the Model, beneath and beside the
\* others.
RefsOf(gs) == {refOf(g) : g \in gs}

IsOf(d, g) ==
  \/ refOf(g) = settingsOf(d) /\ standsOn(g) = {}
  \/ d.session # Null /\ refOf(g) = sessionOf(d) /\ standsOn(g) = {}
  \/ /\ d.workspace # Null
     /\ \/ refOf(g) = workspaceOf(d) /\ RefsOf(standsOn(g)) = {sessionOf(d)}
        \/ refOf(g) = languageOf(d) /\ RefsOf(standsOn(g)) = {workspaceOf(d)}
        \/ \E uri \in Range(d.documents) :
             refOf(g) = documentOf(d, uri) /\ RefsOf(standsOn(g)) = {workspaceOf(d)}
        \/ \E uri \in Range(d.documents) :
             /\ refOf(g) = diagnosticsOf(d, uri)
             /\ RefsOf(standsOn(g)) = {documentOf(d, uri), settingsOf(d), languageOf(d)}

\* Who has no providers stands on its owner, if it has one.
LEMMA StandsOnOwner ==
  ASSUME NEW g \in Gen, inst[g].providers = << >>
  PROVE  /\ inst[g].owner = NoGen => standsOn(g) = {}
         /\ inst[g].owner \in Gen => /\ standsOn(g) = {inst[g].owner}
                                     /\ RefsOf(standsOn(g)) = {refOf(inst[g].owner)}
<1>1. Range(<< >>) = {}
  BY DEF Range
<1>2. Range(inst[g].providers) = {}
  BY <1>1
<1>3. standsOn(g) = {inst[g].owner} \ {NoGen}
  BY <1>2 DEF standsOn
<1>4. QED BY <1>3, ClosingAssumption DEF RefsOf

LEMMA SettledIsOf ==
  ASSUME EditorInv, Settled
  PROVE  \A g \in Live(inst) : IsOf(desired, g)
<1> DEFINE d == desired
           is(g, f) == g \in Live(inst) /\ family(refOf(g)) = f
<1>1. \A g \in Live(inst) :
        /\ g \in Gen /\ Stands(g) /\ keeps(inst, g) /\ NameOf(inst, refOf(g))
        /\ standsOn(g) \subseteq Live(inst)
  BY SettledAre DEF Live
<1>2. ASSUME NEW g, is(g, "Settings")
      PROVE  refOf(g) = settingsOf(d) /\ standsOn(g) = {}
  <2>1. /\ refOf(g) = Append(beneath(inst[g].owner), <<"Settings", key(refOf(g))>>)
        /\ inst[g].owner = NoGen /\ inst[g].providers = << >>
    BY <1>1, <1>2 DEF Stands
  <2>2. key(refOf(g)) = d.settings
    BY <1>1, <1>2 DEF NameOf, wanted
  <2>3. refOf(g) = Append(<< >>, <<"Settings", d.settings>>)
    BY <2>1, <2>2 DEF beneath
  <2>4. QED BY <1>1, <1>2, <2>1, <2>3, PathsOfAModel, StandsOnOwner
<1>3. ASSUME NEW g, is(g, "Session")
      PROVE  d.session # Null /\ refOf(g) = sessionOf(d) /\ standsOn(g) = {}
  <2>1. /\ refOf(g) = Append(beneath(inst[g].owner), <<"Session", key(refOf(g))>>)
        /\ inst[g].owner = NoGen /\ inst[g].providers = << >> /\ key(refOf(g)) # Null
    BY <1>1, <1>3 DEF Stands
  <2>2. key(refOf(g)) = d.session
    BY <1>1, <1>3 DEF NameOf, wanted
  <2>3. refOf(g) = Append(<< >>, <<"Session", d.session>>)
    BY <2>1, <2>2 DEF beneath
  <2>4. QED BY <1>1, <1>3, <2>1, <2>2, <2>3, PathsOfAModel, StandsOnOwner
<1>4. ASSUME NEW g \in Live(inst), NEW f, inst[g].owner \in Gen, inst[g].providers = << >>,
             family(refOf(g)) = f
      PROVE  /\ inst[g].owner \in Live(inst) /\ RefsOf(standsOn(g)) = {refOf(inst[g].owner)}
             /\ refOf(g) = Append(refOf(inst[g].owner), <<f, key(refOf(g))>>)
  <2>1. /\ standsOn(g) = {inst[g].owner} /\ RefsOf(standsOn(g)) = {refOf(inst[g].owner)}
    BY <1>1, <1>4, StandsOnOwner
  <2>2. refOf(g) = Append(beneath(inst[g].owner), <<f, key(refOf(g))>>)
    BY <1>1, <1>4 DEF Stands
  <2>3. beneath(inst[g].owner) = refOf(inst[g].owner)
    BY <1>4, ClosingAssumption DEF beneath
  <2>4. QED BY <1>1, <2>1, <2>2, <2>3
<1>5. ASSUME NEW g, is(g, "Workspace")
      PROVE  /\ d.workspace # Null /\ refOf(g) = workspaceOf(d)
             /\ RefsOf(standsOn(g)) = {sessionOf(d)}
  <2>1. /\ inst[g].owner \in Gen /\ family(refOf(inst[g].owner)) = "Session"
        /\ inst[g].providers = << >>
    BY <1>1, <1>5 DEF Stands
  <2>2. key(refOf(g)) = d.workspace /\ d.workspace # Null
    BY <1>1, <1>5 DEF NameOf, wanted
  <2>3. /\ inst[g].owner \in Live(inst) /\ RefsOf(standsOn(g)) = {refOf(inst[g].owner)}
        /\ refOf(g) = Append(refOf(inst[g].owner), <<"Workspace", key(refOf(g))>>)
    BY <1>4, <1>5, <2>1
  <2>4. refOf(inst[g].owner) = sessionOf(d)
    BY <1>3, <2>1, <2>3
  <2>5. QED BY <2>2, <2>3, <2>4 DEF workspaceOf
<1>6. ASSUME NEW g, is(g, "Language") \/ is(g, "Document")
      PROVE  /\ d.workspace # Null /\ RefsOf(standsOn(g)) = {workspaceOf(d)}
             /\ refOf(g) = Append(workspaceOf(d), <<family(refOf(g)), key(refOf(g))>>)
  <2>1. /\ inst[g].owner \in Gen /\ family(refOf(inst[g].owner)) = "Workspace"
        /\ inst[g].providers = << >>
    BY <1>1, <1>6 DEF Stands
  <2>2. /\ inst[g].owner \in Live(inst) /\ RefsOf(standsOn(g)) = {refOf(inst[g].owner)}
        /\ refOf(g) = Append(refOf(inst[g].owner), <<family(refOf(g)), key(refOf(g))>>)
    BY <1>4, <1>6, <2>1
  <2>3. refOf(inst[g].owner) = workspaceOf(d) /\ d.workspace # Null
    BY <1>5, <2>1, <2>2
  <2>4. QED BY <2>2, <2>3
<1>7. ASSUME NEW g, is(g, "Language")
      PROVE  refOf(g) = languageOf(d)
  <2>1. key(refOf(g)) = d.language
    BY <1>1, <1>7 DEF NameOf, wanted
  <2>2. QED BY <1>6, <1>7, <2>1 DEF languageOf
<1>8. ASSUME NEW g, is(g, "Document")
      PROVE  key(refOf(g)) \in Range(d.documents) /\ refOf(g) = documentOf(d, key(refOf(g)))
  <2>1. key(refOf(g)) \in Range(d.documents)
    BY <1>1, <1>8 DEF NameOf, wanted
  <2>2. QED BY <1>6, <1>8, <2>1 DEF documentOf
<1>9. ASSUME NEW g, is(g, "Diagnostics")
      PROVE  LET uri == key(refOf(g)) IN
             /\ d.workspace # Null /\ uri \in Range(d.documents)
             /\ refOf(g) = diagnosticsOf(d, uri)
             /\ RefsOf(standsOn(g)) = {documentOf(d, uri), settingsOf(d), languageOf(d)}
  <2> DEFINE uri == key(refOf(g))
             o == inst[g].owner
  <2>1. /\ o \in Gen /\ family(refOf(o)) = "Document" /\ key(refOf(o)) = uri
        /\ \E s, l \in Gen : /\ inst[g].providers = <<s, l>>
                             /\ family(refOf(s)) = "Settings" /\ family(refOf(l)) = "Language"
    BY <1>1, <1>9 DEF Stands
  <2>2. PICK s, l \in Gen : /\ inst[g].providers = <<s, l>>
                            /\ family(refOf(s)) = "Settings" /\ family(refOf(l)) = "Language"
    BY <2>1
  <2>3. Range(<<s, l>>) = {s, l}
    BY DEF Range
  <2>4. standsOn(g) = {o, s, l}
    BY <2>1, <2>2, <2>3, ClosingAssumption DEF standsOn
  <2>5. o \in Live(inst) /\ s \in Live(inst) /\ l \in Live(inst)
    BY <1>1, <1>9, <2>4
  <2>6. RefsOf(standsOn(g)) = {refOf(o), refOf(s), refOf(l)}
    BY <2>4 DEF RefsOf
  <2>7. /\ refOf(o) = documentOf(d, uri) /\ uri \in Range(d.documents) /\ d.workspace # Null
        /\ refOf(s) = settingsOf(d) /\ refOf(l) = languageOf(d)
    BY <1>2, <1>6, <1>7, <1>8, <2>1, <2>2, <2>5
  <2>8. refOf(g) = Append(beneath(o), <<"Diagnostics", uri>>) /\ beneath(o) = refOf(o)
    <3>1. refOf(g) = Append(beneath(o), <<family(refOf(g)), uri>>)
      BY <1>1, <1>9 DEF Stands
    <3>2. o # NoGen
      BY <2>1, ClosingAssumption
    <3>3. QED BY <1>9, <3>1, <3>2 DEF beneath
  <2>9. QED BY <2>6, <2>7, <2>8 DEF diagnosticsOf
<1>10. ASSUME NEW g \in Live(inst) PROVE IsOf(d, g)
  <2>1. family(refOf(g)) \in Families
    BY <1>1 DEF NameOf
  <2>2. CASE is(g, "Settings") \/ is(g, "Session")
    BY <1>2, <1>3, <2>2 DEF IsOf
  <2>3. CASE is(g, "Workspace")
    BY <1>5, <2>3 DEF IsOf
  <2>4. CASE is(g, "Language")
    BY <1>6, <1>7, <2>4 DEF IsOf
  <2>5. CASE is(g, "Document")
    BY <1>6, <1>8, <2>5 DEF IsOf
  <2>6. CASE is(g, "Diagnostics")
    BY <1>9, <2>6 DEF IsOf
  <2>7. QED BY <2>1, <2>2, <2>3, <2>4, <2>5, <2>6 DEF Families
<1>11. QED BY <1>10

\* Each is listed once, under an identity of its own.
LEMMA OneToAnIdentity ==
  ASSUME EditorInv, Settled
  PROVE  Cardinality(RefsOf(Range(all))) = Len(all)
<1> DEFINE S == RefsOf(Range(all))
           M == [i \in 1 .. Len(all) |-> refOf(all[i])]
<1>1. /\ all \in Seq(Gen) /\ \A i, j \in DOMAIN all : all[i] = all[j] => i = j
      /\ Places(inst)
  BY DEF EditorInv, ClosingInv, Remembers
<1>2. Len(all) \in Nat /\ DOMAIN all = 1 .. Len(all)
  BY <1>1
<1>3. \A i \in 1 .. Len(all) : all[i] \in Live(inst)
  BY <1>2, SettledAre DEF Range
<1>4. \A i, j \in 1 .. Len(all) : refOf(all[i]) = refOf(all[j]) => i = j
  BY <1>1, <1>2, <1>3 DEF Places, samePlace
<1>5. S = {refOf(all[i]) : i \in 1 .. Len(all)}
  BY <1>2 DEF RefsOf, Range
<1>6. M \in Injection(1 .. Len(all), S)
  BY <1>4, <1>5 DEF Injection, IsInjective
<1>7. M \in Surjection(1 .. Len(all), S)
  BY <1>5 DEF Surjection
<1>8. ExistsBijection(1 .. Len(all), S)
  BY <1>6, <1>7 DEF ExistsBijection, Bijection
<1> HIDE DEF S, M
<1>9. Cardinality(S) = Len(all)
  BY <1>2, <1>8, FS_CountingElements
<1>10. QED BY <1>9 DEF S

\* Who holds the place a running generation claims.
LEMMA RunningIsHolder ==
  ASSUME EditorInv, NEW g \in Gen, inst[g].status = "running", NEW k,
         family(refOf(g)) \in PerUri => key(refOf(g)) = k
  PROVE  holder(inst, family(refOf(g)), k) = g /\ runs(g)
<1>1. g \in Live(inst) /\ Places(inst)
  BY DEF Live, EditorInv
<1>2. g # NoGen
  BY ClosingAssumption
<1>3. QED BY <1>1, <1>2, HolderIsIt DEF runs

\* Whatever the Model asks for, and has what it is to stand on, is there.
LEMMA WantedIsThere ==
  ASSUME EditorInv, Settled, NEW r \in lifetimes(desired),
         \A q \in bases(desired, r) :
           \E g \in Gen : inst[g].status = "running" /\ refOf(g) = q
  PROVE  \E g \in Live(inst) : refOf(g) = r
<1> DEFINE d == desired
           runner(q) == \E g \in Gen : inst[g].status = "running" /\ refOf(g) = q
<1>1. Modelled /\ (d.session = Null => d.workspace = Null)
  BY DesireIs DEF EditorInv
<1>2. SUFFICES /\ NameOf(inst, r)
               /\ family(r) \in {"Settings", "Session"} \/ runs(ownerNow(inst, r))
               /\ \A p \in Range(providersNow(inst, r)) : runs(p)
  BY NamesAreHeld
<1>3. Range(<< >>) = {}
  BY DEF Range
<1>4. CASE r = settingsOf(d)
  <2>1. /\ family(r) = "Settings" /\ key(r) = d.settings
        /\ r = Append(<< >>, <<"Settings", d.settings>>)
    BY <1>4, PathsOfAModel
  <2>2. ownerNow(inst, r) = NoGen /\ providersNow(inst, r) = << >> /\ wanted(r)
    BY <2>1 DEF ownerNow, providersNow, wanted
  <2>3. NameOf(inst, r)
    BY <2>1, <2>2 DEF NameOf, beneath, Families
  <2>4. QED BY <1>3, <2>1, <2>2, <2>3
<1>5. CASE d.session # Null /\ r = sessionOf(d)
  <2>1. /\ family(r) = "Session" /\ key(r) = d.session
        /\ r = Append(<< >>, <<"Session", d.session>>)
    BY <1>5, PathsOfAModel
  <2>2. ownerNow(inst, r) = NoGen /\ providersNow(inst, r) = << >> /\ wanted(r)
    BY <2>1 DEF ownerNow, providersNow, wanted
  <2>3. NameOf(inst, r)
    BY <1>5, <2>1, <2>2 DEF NameOf, beneath, Families
  <2>4. QED BY <1>3, <2>1, <2>2, <2>3
<1>6. CASE d.workspace # Null /\ r = workspaceOf(d)
  <2>1. /\ family(r) = "Workspace" /\ key(r) = d.workspace
        /\ r = Append(sessionOf(d), <<"Workspace", d.workspace>>)
    BY <1>6, PathsOfAModel DEF workspaceOf
  <2>2. sessionOf(d) \in bases(d, r)
    BY <1>6, BasesAre
  <2>3. PICK o \in Gen : inst[o].status = "running" /\ refOf(o) = sessionOf(d)
    BY <2>2
  <2>4. family(refOf(o)) = "Session"
    BY <2>3, PathsOfAModel
  <2>5. holder(inst, "Session", Null) = o /\ runs(o)
    BY <2>3, <2>4, RunningIsHolder DEF PerUri
  <2>6. ownerNow(inst, r) = o /\ providersNow(inst, r) = << >> /\ wanted(r)
    BY <1>6, <2>1, <2>5 DEF ownerNow, providersNow, wanted, only
  <2>7. beneath(o) = sessionOf(d)
    BY <2>3, ClosingAssumption DEF beneath
  <2>8. NameOf(inst, r)
    BY <2>1, <2>6, <2>7 DEF NameOf, Families
  <2>9. QED BY <1>3, <2>5, <2>6, <2>8
<1>7. ASSUME d.workspace # Null, workspaceOf(d) \in bases(d, r),
             family(r) \in {"Language", "Document"}, wanted(r),
             r = Append(workspaceOf(d), <<family(r), key(r)>>)
      PROVE  /\ NameOf(inst, r)
             /\ runs(ownerNow(inst, r)) /\ providersNow(inst, r) = << >>
  <2>1. PICK o \in Gen : inst[o].status = "running" /\ refOf(o) = workspaceOf(d)
    BY <1>7
  <2>2. family(refOf(o)) = "Workspace"
    BY <2>1, PathsOfAModel
  <2>3. holder(inst, "Workspace", Null) = o /\ runs(o)
    BY <2>1, <2>2, RunningIsHolder DEF PerUri
  <2>4. ownerNow(inst, r) = o /\ providersNow(inst, r) = << >>
    BY <1>7, <2>3 DEF ownerNow, providersNow, only
  <2>5. beneath(o) = workspaceOf(d)
    BY <2>1, ClosingAssumption DEF beneath
  <2>6. NameOf(inst, r)
    BY <1>7, <2>4, <2>5 DEF NameOf, Families
  <2>7. QED BY <2>3, <2>4, <2>6
<1>8. CASE d.workspace # Null /\ r = languageOf(d)
  <2>1. family(r) = "Language" /\ key(r) = d.language /\ workspaceOf(d) \in bases(d, r)
    BY <1>8, PathsOfAModel, BasesAre
  <2>2. wanted(r) /\ r = Append(workspaceOf(d), <<family(r), key(r)>>)
    BY <1>8, <2>1 DEF wanted, languageOf
  <2>3. QED BY <1>3, <1>7, <1>8, <2>1, <2>2
<1>9. ASSUME d.workspace # Null, NEW uri \in Range(d.documents), r = documentOf(d, uri)
      PROVE  /\ NameOf(inst, r)
             /\ runs(ownerNow(inst, r)) /\ providersNow(inst, r) = << >>
  <2>1. family(r) = "Document" /\ key(r) = uri /\ workspaceOf(d) \in bases(d, r)
    BY <1>9, PathsOfAModel, BasesAre
  <2>2. wanted(r) /\ r = Append(workspaceOf(d), <<family(r), key(r)>>)
    BY <1>9, <2>1 DEF wanted, documentOf
  <2>3. QED BY <1>7, <1>9, <2>1, <2>2
<1>10. ASSUME d.workspace # Null, NEW uri \in Range(d.documents), r = diagnosticsOf(d, uri)
       PROVE  /\ NameOf(inst, r) /\ runs(ownerNow(inst, r))
              /\ \A p \in Range(providersNow(inst, r)) : runs(p)
  <2>1. /\ family(r) = "Diagnostics" /\ key(r) = uri
        /\ documentOf(d, uri) \in bases(d, r) /\ settingsOf(d) \in bases(d, r)
        /\ languageOf(d) \in bases(d, r)
    BY <1>10, PathsOfAModel, BasesAre
  <2>2. PICK o \in Gen : inst[o].status = "running" /\ refOf(o) = documentOf(d, uri)
    BY <2>1
  <2>3. PICK s \in Gen : inst[s].status = "running" /\ refOf(s) = settingsOf(d)
    BY <2>1
  <2>4. PICK l \in Gen : inst[l].status = "running" /\ refOf(l) = languageOf(d)
    BY <2>1
  <2>5. /\ family(refOf(o)) = "Document" /\ key(refOf(o)) = uri
        /\ family(refOf(s)) = "Settings" /\ family(refOf(l)) = "Language"
    BY <2>2, <2>3, <2>4, PathsOfAModel
  <2>6. holder(inst, "Document", uri) = o /\ runs(o)
    BY <2>2, <2>5, RunningIsHolder
  <2>7. /\ holder(inst, "Settings", Null) = s /\ runs(s)
        /\ holder(inst, "Language", Null) = l /\ runs(l)
    BY <2>3, <2>4, <2>5, RunningIsHolder DEF PerUri
  <2>8. ownerNow(inst, r) = o /\ providersNow(inst, r) = <<s, l>> /\ wanted(r)
    BY <1>10, <2>1, <2>6, <2>7 DEF ownerNow, providersNow, wanted, only
  <2>9. beneath(o) = documentOf(d, uri)
    BY <2>2, ClosingAssumption DEF beneath
  <2>10. NameOf(inst, r)
    BY <1>10, <2>1, <2>8, <2>9 DEF NameOf, Families, diagnosticsOf
  <2>11. Range(<<s, l>>) = {s, l}
    BY DEF Range
  <2>12. QED BY <2>6, <2>7, <2>8, <2>10, <2>11
<1>11. QED BY <1>1, <1>3, <1>4, <1>5, <1>6, <1>8, <1>9, <1>10, LifetimesAre

LEMMA SettledFits ==
  ASSUME EditorInv
  PROVE  SettledMatchesModel
<1> DEFINE d == desired
           running == {g \in Range(all) : inst[g].status = "running"}
<1>1. SUFFICES ASSUME Settled
               PROVE  /\ RefsOf(Range(all)) = {r \in lifetimes(d) : bases(d, r) \subseteq RefsOf(running)}
                      /\ Cardinality(RefsOf(Range(all))) = Len(all)
                      /\ \A g \in Range(all) : /\ standsOn(g) \subseteq running
                                               /\ RefsOf(standsOn(g)) = bases(d, refOf(g))
  BY DEF SettledMatchesModel, Settled, RefsOf
<1>2. /\ Range(all) = Live(inst)
      /\ \A g \in Live(inst) : standsOn(g) \subseteq running
      /\ \A g \in Gen : inst[g].status = "running" => g \in Live(inst)
  BY <1>1, SettledAre DEF Live
<1>3. d.session = Null => d.workspace = Null
  BY DesireIs DEF EditorInv
<1>4. ASSUME NEW g \in Live(inst)
      PROVE  refOf(g) \in lifetimes(d) /\ RefsOf(standsOn(g)) = bases(d, refOf(g))
  <2>1. IsOf(d, g)
    BY <1>1, SettledIsOf
  <2>2. RefsOf({}) = {}
    BY DEF RefsOf
  <2>3. d.workspace # Null => d.session # Null
    BY <1>3
  <2> HIDE DEF d
  <2>4. refOf(g) \in lifetimes(d)
    BY <1>3, <2>1, LifetimesAre DEF IsOf
  <2>5. RefsOf(standsOn(g)) = bases(d, refOf(g))
    <3>1. CASE refOf(g) = settingsOf(d) /\ standsOn(g) = {}
      BY <2>2, <3>1, BasesAre
    <3>2. CASE refOf(g) = sessionOf(d) /\ standsOn(g) = {}
      BY <2>2, <3>2, BasesAre
    <3>3. CASE refOf(g) = workspaceOf(d) /\ RefsOf(standsOn(g)) = {sessionOf(d)}
      BY <3>3, BasesAre
    <3>4. CASE refOf(g) = languageOf(d) /\ RefsOf(standsOn(g)) = {workspaceOf(d)}
      BY <3>4, BasesAre
    <3>5. ASSUME NEW uri, refOf(g) = documentOf(d, uri), RefsOf(standsOn(g)) = {workspaceOf(d)}
          PROVE  RefsOf(standsOn(g)) = bases(d, refOf(g))
      BY <3>5, BasesAre
    <3>6. ASSUME NEW uri, refOf(g) = diagnosticsOf(d, uri),
                 RefsOf(standsOn(g)) = {documentOf(d, uri), settingsOf(d), languageOf(d)}
          PROVE  RefsOf(standsOn(g)) = bases(d, refOf(g))
      BY <3>6, BasesAre
    <3>7. QED BY <2>1, <3>1, <3>2, <3>3, <3>4, <3>5, <3>6 DEF IsOf
  <2>6. QED BY <2>4, <2>5
<1>5. RefsOf(Range(all)) \subseteq {r \in lifetimes(d) : bases(d, r) \subseteq RefsOf(running)}
  <2>1. \A g \in Live(inst) : RefsOf(standsOn(g)) \subseteq RefsOf(running)
    BY <1>2 DEF RefsOf
  <2>2. \A g \in Live(inst) : refOf(g) \in lifetimes(d) /\ bases(d, refOf(g)) \subseteq RefsOf(running)
    BY <1>4, <2>1
  <2>3. QED BY <1>2, <2>2 DEF RefsOf
<1>6. ASSUME NEW r \in lifetimes(d), bases(d, r) \subseteq RefsOf(running)
      PROVE  r \in RefsOf(Range(all))
  <2>1. \A q \in bases(d, r) : \E g \in Gen : inst[g].status = "running" /\ refOf(g) = q
    BY <1>2, <1>6 DEF RefsOf, Live
  <2>2. \E g \in Live(inst) : refOf(g) = r
    BY <1>1, <1>6, <2>1, WantedIsThere
  <2>3. QED BY <1>2, <2>2 DEF RefsOf
<1>7. Cardinality(RefsOf(Range(all))) = Len(all)
  BY <1>1, OneToAnIdentity
<1>8. QED BY <1>2, <1>4, <1>5, <1>6, <1>7

\* Whenever `idle` returns, the generations are those the Model asks for as far as
\* what they need did not fail, one of each, each standing on those that are there;
\* whatever was committed, retried or failed in between.
THEOREM SettledAlwaysMatchesModel == Spec => []SettledMatchesModel
<1>1. EditorInv => SettledMatchesModel
  BY SettledFits
<1>2. QED BY <1>1, EditorInvariant, PTL

-----------------------------------------------------------------------------
(***************************************************************************)
(* The editor runtime implements Lifetimes.                                *)
(***************************************************************************)
\* What holds without rivals holds with them where nobody starts, or starts in a slot
\* that is empty.
LEMMA PromiseWithRivals ==
  ASSUME Lifetime!Next,
         \A g, h \in Gen : inst[g].status = "none" /\ inst'[g].status = "starting" /\ <<g, h>> \in Rivals
           => inst[h].status = "none" /\ inst'[h].status = "none"
  PROVE  Promise!Next
<1> SUFFICES ASSUME NEW g \in Gen
             PROVE  \/ Promise!Admitted(g) \/ Promise!Concludes(g) \/ Promise!Retired(g)
                    \/ Promise!Forgotten(g) \/ Promise!Drains(g) \/ Promise!Stays(g)
  BY DEF Promise!Next
<1>1. \/ Lifetime!Admitted(g) \/ Lifetime!Concludes(g) \/ Lifetime!Retired(g)
      \/ Lifetime!Forgotten(g) \/ Lifetime!Drains(g) \/ Lifetime!Stays(g)
  BY DEF Lifetime!Next
<1>2. ASSUME Lifetime!Admitted(g) PROVE Promise!Admitted(g)
  <2>1. inst[g].status = "none" /\ inst'[g].status = "starting"
    BY <1>2 DEF Lifetime!Admitted
  <2>2. \A h \in Gen : <<g, h>> \in Rivals => inst[h].status = "none" /\ inst'[h].status = "none"
    BY <2>1
  <2>3. QED BY <1>2, <2>2 DEF Lifetime!Admitted, Promise!Admitted
<1>3. Lifetime!Concludes(g) => Promise!Concludes(g)
  BY DEF Lifetime!Concludes, Promise!Concludes
<1>4. Lifetime!Retired(g) => Promise!Retired(g)
  BY DEF Lifetime!Retired, Promise!Retired, Lifetime!Live, Promise!Live
<1>5. Lifetime!Forgotten(g) => Promise!Forgotten(g)
  BY DEF Lifetime!Forgotten, Promise!Forgotten
<1>6. Lifetime!Drains(g) => Promise!Drains(g)
  BY DEF Lifetime!Drains, Promise!Drains
<1>7. Lifetime!Stays(g) => Promise!Stays(g)
  BY DEF Lifetime!Stays, Promise!Stays
<1>8. QED BY <1>1, <1>2, <1>3, <1>4, <1>5, <1>6, <1>7

\* A pass starts nobody beside a rival.
LEMMA PassAdmitsAlone ==
  ASSUME EditorInv, PassAdmits, NEW g \in Gen, NEW h \in Gen,
         inst[g].status = "none", inst'[g].status = "starting", <<g, h>> \in Rivals
  PROVE  inst[h].status = "none" /\ inst'[h].status = "none"
<1>1. /\ g # h /\ slotFor(refOf(g)) = slotFor(refOf(h)) /\ family(refOf(g)) \notin Overlap
  BY DEF Rivals
<1>2. \A f \in Gen : inst'[f] = inst[f] \/ Newcomer(f)
  BY PassAdmitsAfter
<1>3. Newcomer(g)
  BY <1>2
<1>4. canAdmit(inst, refOf(g))
  BY <1>3 DEF Newcomer, admissible
<1>5. inst[h].status \notin {"starting", "running", "failed", "stopping"}
  BY <1>1, <1>4 DEF canAdmit, inSlot
<1>6. inst[h] \in Generation
  BY GenerationsAreSound DEF EditorInv
<1>7. inst[h].status = "none"
  BY <1>5, <1>6 DEF Generation
<1>8. ASSUME Newcomer(h) PROVE FALSE
  <2>1. samePlace(refOf(g), refOf(h))
    BY <1>1, <1>3, SlotsAreDistinct DEF Newcomer
  <2>2. refOf(g) = refOf(h)
    BY <1>3, <1>8, <2>1, NamesDiffer DEF Newcomer
  <2>3. g = h
    BY <1>3, <1>8, <2>2 DEF Newcomer
  <2>4. QED BY <1>1, <2>3
<1>9. QED BY <1>2, <1>7, <1>8

\* Every step of the runtime is a step of Lifetimes.
LEMMA EditorStepRefines ==
  ASSUME EditorInv, [Next]_vars
  PROVE  Promise!Next
<1>0. ClosingInv
  BY DEF EditorInv
<1>1. CASE PassAdmits
  <2>1. Lifetime!Next
    BY <1>0, <1>1, PassAdmitsAfter, StartsPromised
  <2>2. QED BY <1>1, <2>1, PassAdmitsAlone, PromiseWithRivals
<1>2. ASSUME Lifetime!Next, \A g \in Gen : inst[g].status = "none" => inst'[g].status # "starting"
      PROVE  Promise!Next
  BY <1>2, PromiseWithRivals
<1>3. CASE UNCHANGED inst
  BY <1>2, <1>3, NobodyPromised
<1>4. CASE Turns
  <2>1. \A g \in Gen : inst[g].status = "none" => inst'[g].status # "starting"
    BY <1>4 DEF Turns, Live
  <2>2. QED BY <1>0, <1>2, <1>4, <2>1, TurnsPromised
<1>5. CASE Closings
  <2>1. \A g \in Gen : inst[g].status = "none" => inst'[g].status # "starting"
    BY <1>5 DEF Closings
  <2>2. QED BY <1>0, <1>2, <1>5, <2>1, ClosingsPromised
<1>6. ASSUME NEW g \in Gen, Forgets(g) PROVE Promise!Next
  <2>1. \A h \in Gen : inst[h].status = "none" => inst'[h].status # "starting"
    BY <1>6, NobodyIsSound DEF Forgets
  <2>2. QED BY <1>0, <1>2, <1>6, <2>1, ForgetsPromised
<1>7. CASE \/ UNCHANGED vars \/ LoopTakes \/ PassIsLate \/ ShutdownEnds \/ \E m \in Models : commit(m)
  BY <1>3, <1>7 DEF vars, LoopTakes, PassIsLate, ShutdownEnds, commit
<1>8. CASE retryLanguage \/ shutdown \/ PassInvalidates
  BY <1>4, <1>8, RetryStep, ShutdownStep, PassInvalidatesStep
<1>9. ASSUME NEW g \in Gen,
             \/ closeInstance(g) \/ ScopeCloses(g) \/ StopEnds(g)
             \/ CompletedLate(g) \/ \E ok \in BOOLEAN : Completed(g, ok)
      PROVE  Promise!Next
  BY <1>4, <1>5, <1>6, <1>9, ClosesStep, StopEndsStep, CompletedLateStep, CompletedStep
<1>10. QED BY <1>1, <1>7, <1>8, <1>9 DEF Next

\* The editor runtime implements what Lifetimes says of generations, without a
\* compiled definition to keep it to that: admitted onto what runs into an empty slot,
\* retired in one step with all that captured it, by way of the diamond too, and
\* forgotten once what the runtime has to release is gone.
THEOREM EditorKeepsLifetimes == Spec => EditorImplementsLifetimes
<1>1. Init => Promise!Init
  <2> SUFFICES ASSUME Init PROVE Promise!Init
    OBVIOUS
  <2>1. \A g \in Gen : inst[g].status = "none" /\ inst[g].scope = "none"
    BY DEF Init, Nobody
  <2>2. [g \in Gen |-> inst[g].scope \in {"open", "closing"} /\ inst[g].closer # "owner"]
          = [g \in Gen |-> FALSE]
    BY <2>1
  <2>3. QED BY <2>1, <2>2 DEF Promise!Init
<1>2. ASSUME EditorInv, [Next]_vars PROVE [Promise!Next]_(Promise!vars)
  BY <1>2, EditorStepRefines
<1>3. QED BY <1>1, <1>2, EditorInvariant, PTL DEF Spec, EditorImplementsLifetimes, Promise!Spec
=============================================================================
