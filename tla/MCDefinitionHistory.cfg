SPECIFICATION Spec
CONSTANTS
  Editors = {e1}
  Starters = {s1, s2}
  LastVersion = 3
  Graphs = {g1, g2}
  InstanceIds = {i1, i2}
  NoGraph = NoGraph
  NoInstance = NoInstance
  Deleted = Deleted
INVARIANTS
  VersionsTellTheHistory
  EditingStaysPossible
  InstancesRunReleasedVersions
PROPERTIES
  ReleasedGraphsAreFrozen
CHECK_DEADLOCK FALSE
