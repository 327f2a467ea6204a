------------------------- MODULE WorkflowLifecycle -------------------------
(***************************************************************************)
(* What a workflow instance promises to the rest of the backend, with no   *)
(* word about tokens, joins, transactions or requests: an instance is      *)
(* started once, its open tasks are then served one at a time, each of     *)
(* them once, serving a task may open new ones, and a closed instance has  *)
(* nothing left to serve and never changes again.                          *)
(***************************************************************************)
CONSTANT TaskIds

VARIABLES
  phase,      \* "none", "open" or "closed"
  todo,       \* the tasks waiting for a person
  served      \* the tasks a person has acted on

vars == <<phase, todo, served>>

TypeOK ==
  /\ phase \in {"none", "open", "closed"}
  /\ todo \in SUBSET TaskIds
  /\ served \in SUBSET TaskIds

Init ==
  /\ phase = "none"
  /\ todo = {}
  /\ served = {}

\* A closed instance keeps no task open.
Settle ==
  /\ phase' \in {"open", "closed"}
  /\ phase' = "closed" => todo' = {}

Start ==
  /\ phase = "none"
  /\ Settle
  /\ todo' \in SUBSET TaskIds
  /\ served' = {}

\* One person acts on one open task. The other open tasks stay open, and a
\* task that was served is never opened again.
Serve(k) ==
  /\ phase = "open"
  /\ k \in todo
  /\ Settle
  /\ todo' \in SUBSET TaskIds
  /\ todo \ {k} \subseteq todo'
  /\ served' = served \union {k}
  /\ todo' \intersect served' = {}

Next ==
  \/ Start
  \/ \E k \in TaskIds : Serve(k)

Spec == Init /\ [][Next]_vars
=============================================================================
