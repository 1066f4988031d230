---------------------------- MODULE MCDefinition ----------------------------
(***************************************************************************)
(* Definitions of up to three families: a root with every combination of   *)
(* observation, a second family with every owner and single requirement,   *)
(* and a third that may also name two providers.                           *)
(***************************************************************************)
EXTENDS Definition

Cardinality2 == {"one", "many"}
Plain(owners, requirements) ==
  [cardinality : Cardinality2, owner : owners, requires : requirements,
   observes : {FALSE}, declaresObservation : {FALSE}]

Single == {<< >>, <<1>>, <<2>>, <<3>>, <<Foreign>>}

SomeDeclarable ==
  << [cardinality : Cardinality2, owner : {NoOwner, 1, Foreign},
      requires : {<< >>, <<1>>, <<2>>}, observes : BOOLEAN, declaresObservation : BOOLEAN],
     Plain({NoOwner, 1, 2, Foreign}, Single),
     Plain({NoOwner, 1, 2, 3, Foreign}, Single \cup {<<1, 2>>, <<2, 1>>}) >>

SomeBindable ==
  [handle : {1, 2, Foreign}, cardinality : Cardinality2, observe : BOOLEAN]
=============================================================================
