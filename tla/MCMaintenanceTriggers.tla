----------------------- MODULE MCMaintenanceTriggers -----------------------
\* Instance of MaintenanceTriggers for TLC: three readings from 0, of which the second comes too
\* early after the first, a date and an event.
EXTENDS MaintenanceTriggers, TLC

CONSTANTS r1, r2, r3

MCValue == r1 :> 0 @@ r2 :> 1 @@ r3 :> 2

Symmetric == Permutations(Callers)

=============================================================================
