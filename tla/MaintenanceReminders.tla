------------------------ MODULE MaintenanceReminders ------------------------
(***************************************************************************)
(* maintenance-reminder.scheduler.ts under its lock: a round lists the     *)
(* open occurrences with their orders, looks at the clock once, and        *)
(* inserts a notification for each recipient of what is due.  Meanwhile    *)
(* occurrences end, orders are reassigned and the schedule is paused.      *)
(* Cron starts a round at any time here; occurrences that started more     *)
(* than thirty days ago are not forgotten.                                 *)
(***************************************************************************)
EXTENDS RedisLock, FiniteSets

CONSTANTS
    Occurrences,
    People,
    Creator,      \* createdBy of the schedule, who may be Nobody
    ReminderAt, PlannedAt, DueAt,  \* occurrence -> time
    MaxTime,      \* bound: what is counted of time
    MaxFailures   \* bound: crashes and errors

ASSUME TimesAreOrdered ==
    /\ Nobody \notin People /\ Creator \in People \cup {Nobody}
    /\ ReminderAt \in [Occurrences -> 0..MaxTime]
    /\ PlannedAt \in [Occurrences -> 0..MaxTime]
    /\ DueAt \in [Occurrences -> 0..MaxTime]
    /\ \A o \in Occurrences : PlannedAt[o] <= DueAt[o] /\ DueAt[o] < MaxTime

VARIABLES
    now,
    active,        \* the schedule is active
    finished,      \* occurrences neither planned nor generated
    assignee,      \* occurrence -> assignee of its order
    todo,          \* run -> notifications to insert, a set for each INSERT
    notifications, \* rows of notifications
    failures

data == <<active, finished, assignee>>
reminders == <<lock, now, data, todo, notifications, failures>>

Kinds == {"reminder", "overdue"}
Notification == [about : Occurrences, kind : Kinds, user : People]

RemindersTypeOK ==
    /\ LockTypeOK
    /\ now \in 0..MaxTime
    /\ active \in BOOLEAN
    /\ finished \subseteq Occurrences
    /\ assignee \in [Occurrences -> People \cup {Nobody}]
    /\ todo \in [Runs -> SUBSET SUBSET Notification]
    /\ notifications \subseteq Notification
    /\ failures \in 0..MaxFailures

RemindersInit ==
    /\ LockInit
    /\ now = 0
    /\ active = TRUE
    /\ finished = {}
    /\ assignee = [o \in Occurrences |-> Nobody]
    /\ todo = [r \in Runs |-> {}]
    /\ notifications = {}
    /\ failures = 0

-----------------------------------------------------------------------------
Open(o) == active /\ o \notin finished

Recipients(o) == {assignee[o], Creator} \ {Nobody}

\* What there is to tell of an occurrence
Tell(o) ==
    {k \in Kinds : \/ k = "reminder" /\ ReminderAt[o] <= now /\ now < PlannedAt[o]
                   \/ k = "overdue" /\ now > DueAt[o]}

Rows(o, k) == [about : {o}, kind : {k}, user : Recipients(o)]

\* What processReminders finds to tell
Due == {d \in Occurrences \X Kinds : Open(d[1]) /\ Recipients(d[1]) # {} /\ d[2] \in Tell(d[1])}

\* The lock and the queries of processReminders
StartRound(r) ==
    /\ Acquire(r)
    /\ todo' = [todo EXCEPT ![r] = {Rows(d[1], d[2]) : d \in Due}]
    /\ UNCHANGED <<now, data, notifications, failures>>

\* insertNotifications, ON CONFLICT DO NOTHING on the dedupeKey of a user
Insert(r) ==
    /\ r \in running
    /\ \E rows \in todo[r] :
          /\ notifications' = notifications \cup rows
          /\ todo' = [todo EXCEPT ![r] = @ \ {rows}]
    /\ UNCHANGED <<lock, now, data, failures>>

EndRound(r) ==
    /\ todo[r] = {}
    /\ Release(r)
    /\ UNCHANGED <<now, data, todo, notifications, failures>>

Drop(r) == todo' = [todo EXCEPT ![r] = {}]

\* An INSERT fails, as for a user deleted since: the round is over.
FailRound(r) ==
    /\ failures < MaxFailures
    /\ failures' = failures + 1
    /\ Release(r)
    /\ Drop(r)
    /\ UNCHANGED <<now, data, notifications>>

Crash(r) ==
    /\ failures < MaxFailures
    /\ failures' = failures + 1
    /\ Abandon(r)
    /\ Drop(r)
    /\ UNCHANGED <<now, data, notifications>>

Refresh(r) ==
    /\ Extend(r)
    /\ UNCHANGED <<now, data, todo, notifications, failures>>

Tick ==
    /\ Elapse
    /\ now' = IF now < MaxTime THEN now + 1 ELSE now
    /\ UNCHANGED <<data, todo, notifications, failures>>

-----------------------------------------------------------------------------
(* Other handlers *)

Reassign(o, u) ==
    /\ assignee' = [assignee EXCEPT ![o] = u]
    /\ UNCHANGED <<lock, now, active, finished, todo, notifications, failures>>

FinishOccurrence(o) ==
    /\ finished' = finished \cup {o}
    /\ UNCHANGED <<lock, now, active, assignee, todo, notifications, failures>>

PauseOrActivate ==
    /\ active' = ~active
    /\ UNCHANGED <<lock, now, finished, assignee, todo, notifications, failures>>

Others ==
    \/ \E o \in Occurrences : FinishOccurrence(o) \/ \E u \in People : Reassign(o, u)
    \/ PauseOrActivate

RemindersNext ==
    \/ \E r \in Runs : \/ StartRound(r) \/ Insert(r) \/ EndRound(r) \/ Refresh(r)
                       \/ FailRound(r) \/ Crash(r)
    \/ Tick
    \/ Others

RemindersSpec == RemindersInit /\ [][RemindersNext]_reminders

\* Time passes, cron starts rounds, and a round that goes on gets its answers.
RemindersFairness ==
    /\ WF_reminders(Tick)
    /\ WF_reminders(\E r \in Runs : StartRound(r))
    /\ \A r \in Runs : WF_reminders(Insert(r) \/ EndRound(r))

FairRemindersSpec == RemindersSpec /\ RemindersFairness

-----------------------------------------------------------------------------
(* Properties *)

\* What is overdue is told to the assignee and to the author of the schedule, whatever
\* rounds fail, die or lose their lease: unless it ends or the schedule is paused.
OverdueIsTold ==
    \A o \in Occurrences :
       now > DueAt[o] /\ Open(o)
          ~> ~Open(o) \/ Rows(o, "overdue") \subseteq notifications

=============================================================================
