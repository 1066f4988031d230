------------------------------ MODULE MCKernel ------------------------------
(***************************************************************************)
(* Settings with two revisions, a Session that requires one, a Document    *)
(* beneath the Session.                                                    *)
(***************************************************************************)
EXTENDS Kernel

CONSTANTS Old, New, Session, Document

Refs == {Old, New, Session, Document}
ParentOf == [r \in Refs |-> IF r = Document THEN Session ELSE NoRef]
FamilyOf == [r \in Refs |-> IF r \in {Old, New} THEN "Settings"
                            ELSE IF r = Session THEN "Session" ELSE "Document"]

plain(r) == [ref |-> r, providers |-> << >>]
editor(s) == <<plain(s), [ref |-> Session, providers |-> <<s>>], plain(Document)>>

\* The editor open under either revision, or signed out.
Desires == {editor(Old), editor(New)}
=============================================================================
