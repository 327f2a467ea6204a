------------------------- MODULE MaintenanceTriggers -------------------------
(***************************************************************************)
(* A maintenance schedule of one equipment, its trigger rows and the       *)
(* occurrences they plan (maintenance-scheduling.service.ts,               *)
(* equipment-meter.service.ts): for a date of the calendar, for a meter    *)
(* reading and for an event.  The schedule has a trigger of each type;     *)
(* they are rows of one set here, as updateSchedule replaces them together.*)
(*                                                                         *)
(* Nothing is locked: a handler lists the triggers of active schedules,    *)
(* then for each inserts an occurrence, unless its dedupeKey is taken, and *)
(* saves the trigger as it was listed.  A save inserts a row that is gone. *)
(***************************************************************************)
EXTENDS Integers, FiniteSets

CONSTANTS
    Callers,      \* requests in progress at a time
    Dates, Readings, Events,  \* what occurrences are planned for
    Value,        \* reading -> value of the meter
    Threshold, Interval,      \* config of the meter trigger
    Unset,        \* a config without lastTriggeredValue
    MaxSets,      \* bound: sets of triggers ever made
    MaxRequests   \* bound: requests ever made

Sources == Dates \cup Readings \cup Events

ASSUME SourcesAreDistinct ==
    Dates \cap Readings = {} /\ Dates \cap Events = {} /\ Readings \cap Events = {}
ASSUME ValuesAreNumbers == Value \in [Readings -> Int] /\ Threshold \in Int /\ Interval \in Int
ASSUME UnsetIsNoNumber == Unset \notin Int
ASSUME BoundsAreNumbers == MaxSets \in Nat \ {0} /\ MaxRequests \in Nat

VARIABLES
    schedule,     \* status of the schedule
    triggers,     \* sets of triggers that have rows
    last,         \* set -> lastTriggeredValue of its meter trigger
    readings,     \* rows of equipment_meter_readings
    occurrences,  \* rows of maintenance_occurrences
    req,          \* caller -> what it does next and what it has read
    requests,     \* how many requests were made
    excused       \* history of what a later disagreement may come from

vars == <<schedule, triggers, last, readings, occurrences, req, requests, excused>>

Sets == 1..MaxSets
Statuses == {"draft", "active", "paused", "archived"}
Values == {Value[r] : r \in Readings} \cup {Unset}
Occurrence == [source : Sources, set : Sets, status : {"planned", "cancelled"}]
Steps == {"idle", "list", "next", "remember", "replace", "activate", "pause", "archive", "cancel"}

Request == [at : Steps, source : Sources \cup {"none"}, todo : SUBSET Sets, last : [Sets -> Values],
            set : {0} \cup Sets]
Idle == [at |-> "idle", source |-> "none", todo |-> {}, last |-> [s \in Sets |-> Unset],
         set |-> 0]

TypeOK ==
    /\ schedule \in Statuses
    /\ triggers \subseteq Sets
    /\ last \in [Sets -> Values]
    /\ readings \subseteq Readings
    /\ occurrences \subseteq Occurrence
    /\ req \in [Callers -> Request]
    /\ requests \in 0..MaxRequests
    /\ excused \subseteq {"late", "overlap", "forgotten", "uncancelled", "replaced"}

\* createSchedule: a draft with its triggers
Init ==
    /\ schedule = "draft"
    /\ triggers = {1}
    /\ last = [s \in Sets |-> Unset]
    /\ readings = {}
    /\ occurrences = {}
    /\ req = [c \in Callers |-> Idle]
    /\ requests = 0
    /\ excused = {}

-----------------------------------------------------------------------------
At(c, step) == req[c].at = step
Goto(c, r) == req' = [req EXCEPT ![c] = r]
Excuse(reasons) == excused' = excused \cup reasons

Begin(c, r) ==
    /\ At(c, "idle")
    /\ requests < MaxRequests
    /\ requests' = requests + 1
    /\ Goto(c, r)
    /\ UNCHANGED <<schedule, triggers, last, occurrences, excused>>

BeginFor(c, source) == Begin(c, [Idle EXCEPT !.at = "list", !.source = source])

-----------------------------------------------------------------------------
(* Planning *)

\* addReading: a reading with a known externalId is answered, not handled again.
AddReading(c, r) ==
    /\ r \notin readings
    /\ readings' = readings \cup {r}
    /\ BeginFor(c, r)

\* ingestEvent, for a repeated event as for a new one
IngestEvent(c, e) == BeginFor(c, e) /\ UNCHANGED readings

\* materializeTenant: the scheduler, or a reader of the calendar
Materialize(c, d) == BeginFor(c, d) /\ UNCHANGED readings

\* Variant: the interval is not looked at.
AboveThreshold(source, seen) == source \in Readings => Value[source] >= Threshold

\* createMeterOccurrence
Fires(source, seen) ==
    source \in Readings => /\ Value[source] >= Threshold
                           /\ seen # Unset => Value[source] >= seen + Interval

ReadingsHandled == {d \in Callers : req[d].source \in Readings /\ req[d].at \in {"next", "remember"}}

\* The triggers of the schedule while it is active
ListTriggers(c) ==
    /\ At(c, "list")
    /\ LET todo == {s \in triggers : Fires(req[c].source, last[s])} IN
          Goto(c, IF schedule = "active" /\ todo # {}
                  THEN [req[c] EXCEPT !.at = "next", !.todo = todo, !.last = last] ELSE Idle)
    /\ Excuse(IF req[c].source \in Readings /\ ReadingsHandled # {} THEN {"overlap"} ELSE {})
    /\ UNCHANGED <<schedule, triggers, last, readings, occurrences, requests>>

\* ON CONFLICT DO NOTHING on the dedupeKey; the trigger must be there.
InsertOccurrence(c) ==
    /\ At(c, "next")
    /\ \E s \in req[c].todo \cap triggers :
          /\ occurrences' =
                IF \E o \in occurrences : o.source = req[c].source /\ o.set = s THEN occurrences
                ELSE occurrences \cup {[source |-> req[c].source, set |-> s, status |-> "planned"]}
          /\ Goto(c, [req[c] EXCEPT !.at = "remember", !.set = s])
    /\ Excuse(IF schedule # "active" /\ occurrences' # occurrences THEN {"late"} ELSE {})
    /\ UNCHANGED <<schedule, triggers, last, readings, requests>>

\* config.lastTriggeredValue of a meter trigger, nextDueAt and lastFiredAt of others
Remembered(c) == [last EXCEPT ![req[c].set] = IF req[c].source \in Readings THEN Value[req[c].source] ELSE @]

\* The save of the trigger, which brings it back if it was replaced.
Remember(c) ==
    /\ At(c, "remember")
    /\ triggers' = triggers \cup {req[c].set}
    /\ last' = Remembered(c)
    /\ LET todo == req[c].todo \ {req[c].set} IN
          Goto(c, IF todo = {} THEN Idle ELSE [req[c] EXCEPT !.at = "next", !.todo = todo, !.set = 0])
    /\ Excuse(IF req[c].set \notin triggers THEN {"replaced"} ELSE {})
    /\ UNCHANGED <<schedule, readings, occurrences, requests>>

-----------------------------------------------------------------------------
(* The schedule: each handler reads it and checks its status before it saves *)

BeginOn(c, step) == Begin(c, [Idle EXCEPT !.at = step]) /\ UNCHANGED readings

\* Whatever the status is by now.
SaveSchedule(status) ==
    /\ schedule' = status
    /\ UNCHANGED excused

ReadToUpdate(c) ==
    /\ schedule = "draft" /\ occurrences = {}
    /\ BeginOn(c, "replace")

\* Variant: the occurrences of a deleted trigger stay.
Kept(ids) == occurrences

\* FK_maintenance_occurrences_trigger ON DELETE CASCADE
Cascaded(ids) == {o \in occurrences : o.set \notin ids}

\* The transaction of updateSchedule: new triggers take the place of all there are.
UpdateSchedule(c) ==
    /\ At(c, "replace")
    /\ \E s \in Sets :
          /\ \A t \in triggers : t < s
          /\ triggers' = {s}
    /\ occurrences' = Cascaded(triggers)
    /\ SaveSchedule("draft")
    /\ Goto(c, Idle)
    /\ UNCHANGED <<last, readings, requests>>

Activatable == schedule # "archived"

ReadToActivate(c) == Activatable /\ BeginOn(c, "activate")

\* activateSchedule goes on with the calendar.
Activate(c) ==
    /\ At(c, "activate")
    /\ SaveSchedule("active")
    /\ \E d \in Dates : Goto(c, [Idle EXCEPT !.at = "list", !.source = d])
    /\ UNCHANGED <<triggers, last, readings, occurrences, requests>>

ReadToPause(c) == schedule = "active" /\ BeginOn(c, "pause")

Pause(c) ==
    /\ At(c, "pause")
    /\ SaveSchedule("paused")
    /\ Goto(c, Idle)
    /\ UNCHANGED <<triggers, last, readings, occurrences, requests>>

ReadToArchive(c) == schedule # "archived" /\ BeginOn(c, "archive")

Archive(c) ==
    /\ At(c, "archive")
    /\ SaveSchedule("archived")
    /\ Goto(c, [req[c] EXCEPT !.at = "cancel"])
    /\ UNCHANGED <<triggers, last, readings, occurrences, requests>>

\* Variant: nothing is cancelled.
AsTheyAre == occurrences

Cancelled == {[o EXCEPT !.status = "cancelled"] : o \in occurrences}

CancelPlanned(c) ==
    /\ At(c, "cancel")
    /\ occurrences' = Cancelled
    /\ Goto(c, Idle)
    /\ UNCHANGED <<schedule, triggers, last, readings, requests, excused>>

\* A crash, or a violated constraint.
GiveUp(c) ==
    /\ ~At(c, "idle")
    /\ Goto(c, Idle)
    /\ Excuse(IF At(c, "remember") /\ req[c].source \in Readings THEN {"forgotten"}
              ELSE IF At(c, "cancel") THEN {"uncancelled"} ELSE {})
    /\ UNCHANGED <<schedule, triggers, last, readings, occurrences, requests>>

Next ==
    \E c \in Callers :
       \/ \E r \in Readings : AddReading(c, r)
       \/ \E e \in Events : IngestEvent(c, e)
       \/ \E d \in Dates : Materialize(c, d)
       \/ ListTriggers(c) \/ InsertOccurrence(c) \/ Remember(c)
       \/ ReadToUpdate(c) \/ UpdateSchedule(c)
       \/ ReadToActivate(c) \/ Activate(c)
       \/ ReadToPause(c) \/ Pause(c)
       \/ ReadToArchive(c) \/ Archive(c) \/ CancelPlanned(c)
       \/ GiveUp(c)

Spec == Init /\ [][Next]_vars

-----------------------------------------------------------------------------
(* Properties *)

\* A date, a reading or an event plans one occurrence, however often and concurrently it
\* is handled and whatever happens to the schedule: unless the save of a trigger brings
\* back one that was replaced.
OncePerSource ==
    "replaced" \notin excused =>
        \A o, p \in occurrences : o.source = p.source => o = p

\* The readings that plan an occurrence are an interval apart, unless two were handled at
\* a time, a handler died before the trigger remembered its reading, or a replaced trigger
\* came back.
IntervalIsKept ==
    excused \cap {"overlap", "forgotten", "replaced"} = {} =>
        \A o, p \in occurrences :
           o.source \in Readings /\ p.source \in Readings /\ Value[o.source] < Value[p.source]
              => Value[o.source] + Interval <= Value[p.source]

\* An archived schedule has nothing planned, once its handlers are done: unless an
\* occurrence was planned from triggers listed before, or an archiving died half way.
ArchivedPlansNothing ==
    schedule = "archived" /\ (\A c \in Callers : At(c, "idle"))
    /\ excused \cap {"late", "uncancelled"} = {} =>
        \A o \in occurrences : o.status = "cancelled"

=============================================================================
