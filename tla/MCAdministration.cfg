SPECIFICATION AdminSpec
CONSTANTS
    Callers = {c1, c2}
    Units = {u1, u2, u3}
    u1 = u1
    u2 = u2
    u3 = u3
    NoUnit = NoUnit
    Trees <- MCTrees
    Assignments = {a1, a2}
    Catalogue <- MCCatalogue
    MaxRequests = 3
INVARIANTS
  TreeShowsEveryUnit
  AdministrationIsSound
PROPERTIES
  RemovalDisplacesNobody
  WalksEnd
CHECK_DEADLOCK FALSE
