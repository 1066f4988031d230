----------------------------- MODULE Instances ------------------------------
(***************************************************************************)
(* The Definitions the controller is model-checked with.                   *)
(***************************************************************************)

\* Session and Workspace: an owner and its child.
TreeOwnerId == <<0, 1>>
TreeRequires == <<{}, {}>>
TreeKeysOf == <<{"a", "b"}, {"k"}>>
TreeKey == <<{"a"}, {"k"}>>

\* A provider with two keys, an owner that requires it, and beneath that owner
\* a dependent that requires it.
ChainOwnerId == <<0, 0, 2>>
ChainRequires == <<{}, {1}, {2}>>
ChainKeysOf == <<{"a", "b"}, {"k"}, {"d"}>>

\* One root family.
LoneOwnerId == <<0>>
LoneRequires == <<{}>>
LoneKeysOf == <<{"a", "b"}>>
\* ... with a single key.
LoneKey == <<{"a"}>>
=============================================================================
