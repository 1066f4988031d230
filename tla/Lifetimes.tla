----------------------------- MODULE Lifetimes ------------------------------
(***************************************************************************)
(* What the runtime promises of the generations it runs, said without the  *)
(* machinery that keeps the promise: no passes, Scopes, fibers or indexes, *)
(* no desire.  A generation stands on its owner and its providers.         *)
(***************************************************************************)
CONSTANTS
  Gen,      \* names of generations, reused
  Rivals    \* pairs that share a sequential slot

VARIABLES
  status,   \* none, starting, running, failed, stopping
  stands,   \* what it was admitted on, for as long as that is remembered
  held      \* does it hold resources?

vars == <<status, stands, held>>

Live == {"starting", "running", "failed"}

Init ==
  /\ status = [g \in Gen |-> "none"]
  /\ stands = [g \in Gen |-> {}]
  /\ held = [g \in Gen |-> FALSE]

\* It comes to be once all it stands on runs and its slot is empty.
Admitted(g) ==
  /\ status[g] = "none" /\ status'[g] = "starting"
  /\ \A h \in stands'[g] : status[h] = "running" /\ status'[h] = "running"
  /\ \A h \in Gen : <<g, h>> \in Rivals => status[h] = "none" /\ status'[h] = "none"
  /\ held'[g]

Concludes(g) ==
  /\ status[g] = "starting" /\ status'[g] \in {"running", "failed"}
  /\ stands'[g] = stands[g]
  /\ status'[g] = "running" => held'[g]
  /\ held'[g] => held[g]

\* It is retired together with all that stands on it.
Retired(g) ==
  /\ status[g] \in Live /\ status'[g] = "stopping"
  /\ stands'[g] = stands[g]
  /\ \A d \in Gen : g \in stands[d] /\ status[d] \in Live => status'[d] = "stopping"
  /\ held'[g] => held[g]

\* It is gone only once what it held is.
Forgotten(g) ==
  /\ status[g] = "stopping" /\ status'[g] = "none"
  /\ ~held[g] /\ ~held'[g]
  /\ stands'[g] = {}

\* Otherwise it may let go of resources, if it is draining or failed, ...
Drains(g) ==
  /\ status[g] \in {"failed", "stopping"} /\ status'[g] = status[g]
  /\ held'[g] => held[g]
  /\ stands'[g] \subseteq stands[g]
  /\ status[g] = "failed" => stands'[g] = stands[g]

\* ... and else keeps everything.
Stays(g) ==
  /\ status'[g] = status[g]
  /\ stands'[g] = stands[g]
  /\ held'[g] = held[g]

\* Many generations may move at once.
Next == \A g \in Gen :
  Admitted(g) \/ Concludes(g) \/ Retired(g) \/ Forgotten(g) \/ Drains(g) \/ Stays(g)

Spec == Init /\ [][Next]_vars
=============================================================================
