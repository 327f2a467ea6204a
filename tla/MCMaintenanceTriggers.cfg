SPECIFICATION Spec
CONSTANTS
    Callers = {c1, c2}
    Dates = {d1}
    Readings = {r1, r2, r3}
    r1 = r1
    r2 = r2
    r3 = r3
    Events = {e1}
    Value <- MCValue
    Threshold = 0
    Unset = Unset
    Interval = 2
    MaxSets = 2
    MaxRequests = 6
SYMMETRY Symmetric
INVARIANTS
  OncePerSource
  IntervalIsKept
  ArchivedPlansNothing
CHECK_DEADLOCK FALSE
