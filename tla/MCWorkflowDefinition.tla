------------------------ MODULE MCWorkflowDefinition ------------------------
(* Small instances of WorkflowDefinition: two graphs to choose from, and     *)
(* interchangeable editors, starters, instances and graphs.                  *)
EXTENDS WorkflowDefinition, TLC

Symmetry == Permutations(Editors) \union Permutations(Starters)
              \union Permutations(InstanceIds) \union Permutations(Graphs)
=============================================================================
