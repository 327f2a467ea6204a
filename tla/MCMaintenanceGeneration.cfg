SPECIFICATION FairSpec
CONSTANTS
  Workers = {w1, w2}
  Callers = {c1}
  LastOccurrence = 2
  OrderIds = {k1, k2}
  MaxFailures = 1
  NoOrder = NoOrder
  Nobody = Nobody
INVARIANTS
  OneOrderPerOccurrence
  
  
PROPERTIES
  DueIsDealtWith
CHECK_DEADLOCK FALSE
