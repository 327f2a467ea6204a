---------------------- MODULE MCMaintenanceReminders ----------------------
\* Instance of MaintenanceReminders for TLC: occurrences to be reminded of at once, to
\* start one step of time later and to be done another step later.
EXTENDS MaintenanceReminders

MCReminderAt == [o \in Occurrences |-> 0]
MCPlannedAt == [o \in Occurrences |-> 1]
MCDueAt == [o \in Occurrences |-> 2]

=============================================================================
