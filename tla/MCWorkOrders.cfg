SPECIFICATION Spec
CONSTANTS
    Callers = {c1, c2}
    Users = {w1, w2}
    NoUser = NoUser
    MaxVersions = 3
    MaxRequests = 4
SYMMETRY Symmetric
INVARIANTS
  
  PlansAreSound

  
CHECK_DEADLOCK FALSE
