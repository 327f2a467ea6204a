SPECIFICATION Spec
CONSTANTS
    Callers = {c1, c2}
    Tenants = {t1, t2}
    MaxSessions = 2
    MaxPasswords = 2
    NoTenant = NoTenant
SYMMETRY Symmetry
INVARIANTS
  
  OnlyTheCurrentPasswordIsIn
  AccountsAreSound
CHECK_DEADLOCK FALSE
