---------------------------- MODULE MCEvaluation ----------------------------
(***************************************************************************)
(* Documents, the views of a document and the cursor of a view, so that    *)
(* one direct owner key occurs under two documents.                        *)
(***************************************************************************)
EXTENDS Evaluation

DocOwnerId == <<0, 1, 2>>
DocRequires == <<{}, {}, {}>>
DocKeysOf == <<{"a", "b"}, {"k", "l"}, {"x", "y"}>>

World(docs, views, cursors, zoom) ==
  [docs |-> docs, views |-> views, cursors |-> cursors, zoom |-> zoom]

\* views: of document a, then of b; cursors: of the views k under a, and under b.
SomeStates ==
  { World(<<"a", "b">>, << <<"k">>, <<"k">> >>, << <<"x">>, << >> >>, 0),
    World(<<"b">>, << <<"k">>, <<"k">> >>, << <<"x">>, <<"y">> >>, 1),
    World(<<"b", "a">>, << <<"l", "k">>, <<"k">> >>, << <<"y">>, <<"x">> >>, 1),
    World(<<"a">>, << << >>, <<"k">> >>, << <<"x">>, <<"x">> >>, 0),
    World(<<"a", "b">>, << <<"k">>, <<"k", "k">> >>, << <<"x">>, <<"x">> >>, 0),
    World(<<"b", "a">>, << <<"k">>, Throws >>, << <<"x">>, <<"x">> >>, 0),
    World(<<"a", "b">>, << <<"k">>, <<"k">> >>, << <<"y">>, Misshapen >>, 1),
    World(<<"a">>, << <<"l", "k">>, << >> >>, << <<"x">>, << >> >>, 1),
    World(<<"b">>, << << >>, <<"k">> >>, << << >>, Throws >>, 0),
    World(<<"a", "b">>, << <<"k">>, <<"l">> >>, << <<"x">>, << >> >>, Throws) }

DocOf(o) == IF o[1][2] = "a" THEN 1 ELSE 2

SomeSelector(s, f, o) ==
  CASE f = 1 -> s.docs
    [] f = 2 -> s.views[DocOf(o)]
    [] OTHER -> IF Last(o)[2] = "k" THEN s.cursors[DocOf(o)] ELSE << >>

\* The cursors say they also depend on the zoom, which they do not.
SomeDeps(s, f, o) ==
  CASE f = 2 -> <<SomeSelector(s, f, o)>>
    [] SomeSelector(s, f, o) = Throws -> Throws
    [] OTHER -> <<SomeSelector(s, f, o), s.zoom = 0>>

\* The projection fails for document b only.
SomeObserve(s, f, o) ==
  IF s.zoom = Throws THEN (IF DocOf(o) = 2 THEN Throws ELSE 0) ELSE s.zoom
=============================================================================
