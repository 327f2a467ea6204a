SPECIFICATION Spec
CONSTANTS
  Editors = {e1, e2}
  Starters = {s1}
  LastVersion = 2
  Graphs = {g1, g2}
  InstanceIds = {i1}
  NoGraph = NoGraph
  NoInstance = NoInstance
  Deleted = Deleted
SYMMETRY Symmetry
INVARIANTS
  InstancesKeepTheirGraph
  DeletedLeavesNothing
CHECK_DEADLOCK FALSE
