------------------------------ MODULE MCEditor ------------------------------
(***************************************************************************)
(* One session, one workspace, one document; the settings and the language *)
(* change.                                                                 *)
(***************************************************************************)
EXTENDS Editor

Root == <<<<"Session", "me">>>>
Here == Append(Root, <<"Workspace", "w">>)
Doc == Append(Here, <<"Document", "a">>)

Refs ==
  {<<<<"Settings", k>>>> : k \in {1, 2}}
  \cup {Root, Here, Doc, Append(Doc, <<"Diagnostics", "a">>)}
  \cup {Append(Here, <<"Language", "typescript">>)}

model(s, who, ds) ==
  [settings |-> s, session |-> who, workspace |-> "w", language |-> "typescript",
   documents |-> ds]

Committed ==
  {model(1, "me", <<"a">>), model(2, "me", <<"a">>), model(1, "me", << >>)}
FailingRefs == {r \in Ref : family(r) = "Language"}
=============================================================================
