SPECIFICATION FairRemindersSpec
CONSTANTS
    Runs = {r1, r2}
    Lease = 3
    Nobody = Nobody
    Occurrences = {o1}
    People = {u1, u2}
    Creator = u1
    ReminderAt <- MCReminderAt
    PlannedAt <- MCPlannedAt
    DueAt <- MCDueAt
    MaxTime = 3
    MaxFailures = 2
INVARIANTS
    LeaseIsKept

    
CHECK_DEADLOCK FALSE
