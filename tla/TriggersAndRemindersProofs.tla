---------------------- MODULE TriggersAndRemindersProofs ----------------------
(***************************************************************************)
(* Theorems about the two ends of an occurrence: MaintenanceTriggers, which*)
(* plans it, for any number of requests, dates, readings, events and sets  *)
(* of triggers; and MaintenanceReminders with RedisLock, which remind of   *)
(* it, for any number of runs and any lease.                               *)
(***************************************************************************)
EXTENDS MaintenanceTriggers, MaintenanceReminders, TLAPS

(* The inductive invariant. *)

Fresh == "replaced" \notin excused
InOrder == excused \cap {"overlap", "forgotten", "replaced"} = {}

Reading(c) == req[c].source \in Readings /\ req[c].at \in {"next", "remember"}

\* What a request has to do it knows, and what it does next it has to do.
RequestsKnow ==
  \A c \in Callers :
     /\ req[c].at \in {"list", "next", "remember"} => req[c].source \in Sources
     /\ req[c].at = "remember" => req[c].set \in req[c].todo

\* dedupeKey is unique, and an occurrence has the row of its trigger.
KeysHold ==
  /\ \A o, p \in occurrences : o.source = p.source /\ o.set = p.set => o = p
  /\ \A o \in occurrences : o.set \in triggers

\* While no trigger comes back, the schedule has one set of them.
OneSet == Fresh => \A s, t \in triggers : s = t

\* Readings are handled one at a time ...
OneReading == InOrder => \A c, d \in Callers : Reading(c) /\ Reading(d) => c = d

\* ... each of them still far enough from the one remembered ...
StillFires ==
  InOrder => \A c \in Callers :
                Reading(c) => \A s \in req[c].todo : Fires(req[c].source, last[s])

\* ... which is the highest that planned an occurrence, unless that is being saved.
HighestRemembered ==
  InOrder /\ Interval >= 0 =>
     \A o \in occurrences :
        o.source \in Readings =>
           \/ last[o.set] # Unset /\ Value[o.source] <= last[o.set]
           \/ \E c \in Callers :
                 At(c, "remember") /\ req[c].source = o.source /\ req[c].set = o.set

\* What an archiving leaves planned it has yet to cancel.
ArchivingCancels ==
  schedule = "archived" /\ excused \cap {"late", "uncancelled"} = {} =>
     \/ \E c \in Callers : At(c, "cancel")
     \/ \A o \in occurrences : o.status = "cancelled"

IInv ==
  /\ TypeOK
  /\ RequestsKnow
  /\ KeysHold
  /\ OneSet
  /\ OneReading
  /\ StillFires
  /\ HighestRemembered
  /\ IntervalIsKept
  /\ ArchivingCancels

-----------------------------------------------------------------------------
(* Values, rows and requests *)

LEMMA ValuesAreSound ==
  /\ \A r \in Readings : Value[r] \in Int /\ Value[r] \in Values
  /\ \A v \in Values : v # Unset => v \in Int
BY ValuesAreNumbers, UnsetIsNoNumber DEF Values

LEMMA RowWritten ==
  ASSUME NEW source \in Sources, NEW s \in Sets
  PROVE  LET o == [source |-> source, set |-> s, status |-> "planned"] IN
            o \in Occurrence /\ o.source = source /\ o.set = s
BY DEF Occurrence

LEMMA RowCancelled ==
  ASSUME NEW o \in Occurrence
  PROVE  LET p == [o EXCEPT !.status = "cancelled"] IN
            p \in Occurrence /\ p.source = o.source /\ p.set = o.set /\ p.status = "cancelled"
BY DEF Occurrence

LEMMA IdleIsARequest == Idle \in Request /\ Idle.at = "idle"
<1>1. [s \in Sets |-> Unset] \in [Sets -> Values]
  BY DEF Values
<1> QED BY <1>1 DEF Idle, Request, Steps, Statuses

LEMMA RequestStep ==
  ASSUME TypeOK, NEW c \in Callers, NEW r \in Request, Goto(c, r)
  PROVE  /\ req' \in [Callers -> Request]
         /\ req'[c] = r /\ \A d \in Callers \ {c} : req'[d] = req[d]
BY DEF TypeOK, Goto

LEMMA KnownStep ==
  ASSUME IInv, NEW c \in Callers, NEW r \in Request, Goto(c, r),
         r.at \in {"list", "next", "remember"} => r.source \in Sources,
         r.at = "remember" => r.set \in r.todo
  PROVE  RequestsKnow'
<1>1. req'[c] = r /\ \A d \in Callers \ {c} : req'[d] = req[d]
  BY RequestStep DEF IInv
<1> QED BY <1>1 DEF IInv, RequestsKnow

\* What is excused stays excused.
LEMMA ExcusesStay ==
  ASSUME excused \subseteq excused'
  PROVE  (Fresh' => Fresh) /\ (InOrder' => InOrder)
BY DEF Fresh, InOrder

LEMMA InitInv == Init => IInv
<1> SUFFICES ASSUME Init PROVE IInv
  OBVIOUS
<1>1. \A c \in Callers : req[c].at = "idle"
  BY IdleIsARequest DEF Init
<1>2. TypeOK
  <2>1. last \in [Sets -> Values] /\ triggers \subseteq Sets /\ requests \in 0..MaxRequests
    BY BoundsAreNumbers DEF Init, Values, Sets
  <2> QED BY <2>1, IdleIsARequest DEF Init, TypeOK, Statuses
<1>3. RequestsKnow /\ OneReading /\ StillFires
  BY <1>1 DEF RequestsKnow, OneReading, StillFires, Reading
<1>4. KeysHold /\ OneSet /\ HighestRemembered /\ IntervalIsKept /\ ArchivingCancels
  BY DEF Init, KeysHold, OneSet, HighestRemembered, IntervalIsKept, ArchivingCancels
<1> QED BY <1>2, <1>3, <1>4 DEF IInv

-----------------------------------------------------------------------------
(* A request that begins, ends or turns to something other than the triggers *)

LEMMA TurningStep ==
  ASSUME IInv, NEW c \in Callers, NEW r \in Request, Goto(c, r),
         r.at \notin {"next", "remember"}, r.at = "list" => r.source \in Sources,
         UNCHANGED <<triggers, last, occurrences>>, excused \subseteq excused',
         At(c, "remember") /\ req[c].source \in Readings => ~InOrder'
  PROVE  /\ req' \in [Callers -> Request]
         /\ RequestsKnow' /\ KeysHold' /\ OneSet' /\ OneReading' /\ StillFires'
         /\ HighestRemembered' /\ IntervalIsKept'
<1>1. /\ req' \in [Callers -> Request]
      /\ req'[c] = r /\ \A d \in Callers \ {c} : req'[d] = req[d]
  BY RequestStep DEF IInv
<1>2. RequestsKnow'
  BY KnownStep
<1>3. (Fresh' => Fresh) /\ (InOrder' => InOrder)
  BY ExcusesStay
<1>4. KeysHold' /\ OneSet' /\ IntervalIsKept'
  BY <1>3 DEF IInv, KeysHold, OneSet, IntervalIsKept, InOrder
<1>5. \A d \in Callers : Reading(d)' => d # c /\ Reading(d) /\ req'[d] = req[d]
  BY <1>1 DEF Reading
<1>6. OneReading'
  BY <1>3, <1>5 DEF IInv, OneReading
<1>7. StillFires'
  <2> SUFFICES ASSUME InOrder', NEW d \in Callers, Reading(d)', NEW s \in req'[d].todo
               PROVE  Fires(req'[d].source, last'[s])
    BY DEF StillFires, Fires
  <2> QED BY <1>3, <1>5 DEF IInv, StillFires
<1>8. HighestRemembered'
  <2> SUFFICES ASSUME InOrder', Interval >= 0, NEW o \in occurrences, o.source \in Readings,
                      ~(last[o.set] # Unset /\ Value[o.source] <= last[o.set])
               PROVE  \E d \in Callers :
                         At(d, "remember")' /\ req'[d].source = o.source /\ req'[d].set = o.set
    BY DEF HighestRemembered
  <2>1. PICK d \in Callers : At(d, "remember") /\ req[d].source = o.source /\ req[d].set = o.set
    BY <1>3 DEF IInv, HighestRemembered
  <2>2. d # c
    BY <2>1
  <2> QED BY <1>1, <2>1, <2>2 DEF At
<1> QED BY <1>1, <1>2, <1>4, <1>6, <1>7, <1>8

\* Who was to cancel still is.
LEMMA CancellingStays ==
  ASSUME IInv, NEW c \in Callers, NEW r, Goto(c, r),
         UNCHANGED occurrences, excused \subseteq excused',
         schedule' = "archived" => schedule = "archived",
         At(c, "cancel") => "uncancelled" \in excused'
  PROVE  ArchivingCancels'
<1> SUFFICES ASSUME schedule' = "archived", excused' \cap {"late", "uncancelled"} = {},
                    NEW o \in occurrences, o.status # "cancelled"
             PROVE  \E d \in Callers : At(d, "cancel")'
  BY DEF ArchivingCancels
<1>1. PICK d \in Callers : At(d, "cancel")
  BY DEF IInv, ArchivingCancels
<1>2. d # c
  BY <1>1
<1> QED BY <1>1, <1>2 DEF IInv, TypeOK, Goto, At

LEMMA BeginInv ==
  ASSUME IInv, NEW c \in Callers, NEW r \in Request, Begin(c, r),
         r.at \notin {"next", "remember"}, r.at = "list" => r.source \in Sources,
         readings' \subseteq Readings
  PROVE  IInv'
<1>1. Goto(c, r) /\ UNCHANGED <<schedule, triggers, last, occurrences, excused>> /\ At(c, "idle")
  BY DEF Begin
<1>2. /\ req' \in [Callers -> Request]
      /\ RequestsKnow' /\ KeysHold' /\ OneSet' /\ OneReading' /\ StillFires'
      /\ HighestRemembered' /\ IntervalIsKept'
  BY <1>1, TurningStep DEF At
<1>3. ArchivingCancels'
  BY <1>1, CancellingStays DEF At
<1>4. requests' \in 0..MaxRequests
  BY BoundsAreNumbers DEF IInv, TypeOK, Begin
<1>5. TypeOK'
  BY <1>1, <1>2, <1>4 DEF IInv, TypeOK
<1> QED BY <1>2, <1>3, <1>5 DEF IInv

LEMMA BeginForInv ==
  ASSUME IInv, NEW c \in Callers, NEW source \in Sources, BeginFor(c, source),
         readings' \subseteq Readings
  PROVE  IInv'
<1> DEFINE r == [Idle EXCEPT !.at = "list", !.source = source]
<1>1. r \in Request /\ r.at = "list" /\ r.source = source
  BY IdleIsARequest DEF Request, Steps
<1> QED BY <1>1, BeginInv DEF BeginFor

LEMMA BeginOnInv ==
  ASSUME IInv, NEW c \in Callers, NEW step \in {"replace", "activate", "pause", "archive"},
         BeginOn(c, step)
  PROVE  IInv'
<1> DEFINE r == [Idle EXCEPT !.at = step]
<1>1. r \in Request /\ r.at = step
  BY IdleIsARequest DEF Request, Steps
<1>2. readings' \subseteq Readings
  BY DEF IInv, TypeOK, BeginOn
<1> QED BY <1>1, <1>2, BeginInv DEF BeginOn

LEMMA ActivateInv ==
  ASSUME IInv, NEW c \in Callers, Activate(c)
  PROVE  IInv'
<1>1. PICK d \in Dates : Goto(c, [Idle EXCEPT !.at = "list", !.source = d])
  BY DEF Activate
<1> DEFINE r == [Idle EXCEPT !.at = "list", !.source = d]
<1>2. r \in Request /\ r.at = "list" /\ r.source = d /\ d \in Sources
  BY IdleIsARequest DEF Request, Steps, Sources
<1>3. /\ UNCHANGED <<triggers, last, readings, occurrences, requests, excused>>
      /\ schedule' = "active" /\ At(c, "activate")
  BY DEF Activate, SaveSchedule
<1>4. /\ req' \in [Callers -> Request]
      /\ RequestsKnow' /\ KeysHold' /\ OneSet' /\ OneReading' /\ StillFires'
      /\ HighestRemembered' /\ IntervalIsKept'
  BY <1>1, <1>2, <1>3, TurningStep DEF At
<1>5. ArchivingCancels'
  BY <1>3 DEF ArchivingCancels
<1>6. TypeOK'
  BY <1>3, <1>4 DEF IInv, TypeOK, Statuses
<1> QED BY <1>4, <1>5, <1>6 DEF IInv

LEMMA PauseInv ==
  ASSUME IInv, NEW c \in Callers, Pause(c)
  PROVE  IInv'
<1>1. /\ UNCHANGED <<triggers, last, readings, occurrences, requests, excused>>
      /\ schedule' = "paused" /\ At(c, "pause") /\ Goto(c, Idle)
  BY DEF Pause, SaveSchedule
<1>2. /\ req' \in [Callers -> Request]
      /\ RequestsKnow' /\ KeysHold' /\ OneSet' /\ OneReading' /\ StillFires'
      /\ HighestRemembered' /\ IntervalIsKept'
  BY <1>1, IdleIsARequest, TurningStep DEF At
<1>3. ArchivingCancels'
  BY <1>1 DEF ArchivingCancels
<1>4. TypeOK'
  BY <1>1, <1>2 DEF IInv, TypeOK, Statuses
<1> QED BY <1>2, <1>3, <1>4 DEF IInv

LEMMA ArchiveInv ==
  ASSUME IInv, NEW c \in Callers, Archive(c)
  PROVE  IInv'
<1> DEFINE r == [req[c] EXCEPT !.at = "cancel"]
<1>1. r \in Request /\ r.at = "cancel"
  BY DEF IInv, TypeOK, Request, Steps
<1>2. /\ UNCHANGED <<triggers, last, readings, occurrences, requests, excused>>
      /\ schedule' = "archived" /\ At(c, "archive") /\ Goto(c, r)
  BY DEF Archive, SaveSchedule
<1> HIDE DEF r
<1>3. /\ req' \in [Callers -> Request]
      /\ RequestsKnow' /\ KeysHold' /\ OneSet' /\ OneReading' /\ StillFires'
      /\ HighestRemembered' /\ IntervalIsKept'
  BY <1>1, <1>2, TurningStep DEF At
<1>4. ArchivingCancels'
  <2>1. At(c, "cancel")'
    BY <1>1, <1>2, RequestStep DEF IInv, At
  <2> QED BY <2>1 DEF ArchivingCancels
<1>5. TypeOK'
  BY <1>2, <1>3 DEF IInv, TypeOK, Statuses
<1> QED BY <1>3, <1>4, <1>5 DEF IInv

LEMMA GiveUpInv ==
  ASSUME IInv, NEW c \in Callers, GiveUp(c)
  PROVE  IInv'
<1>1. Goto(c, Idle) /\ UNCHANGED <<schedule, triggers, last, readings, occurrences, requests>>
  BY DEF GiveUp
<1>2. /\ excused \subseteq excused'
      /\ excused' \subseteq {"late", "overlap", "forgotten", "uncancelled", "replaced"}
      /\ At(c, "remember") /\ req[c].source \in Readings => "forgotten" \in excused'
      /\ At(c, "cancel") => "uncancelled" \in excused'
  BY DEF IInv, TypeOK, GiveUp, Excuse, At
<1>3. /\ req' \in [Callers -> Request]
      /\ RequestsKnow' /\ KeysHold' /\ OneSet' /\ OneReading' /\ StillFires'
      /\ HighestRemembered' /\ IntervalIsKept'
  BY <1>1, <1>2, IdleIsARequest, TurningStep DEF InOrder
<1>4. ArchivingCancels'
  BY <1>1, <1>2, CancellingStays
<1>5. TypeOK'
  BY <1>1, <1>2, <1>3 DEF IInv, TypeOK
<1> QED BY <1>3, <1>4, <1>5 DEF IInv

-----------------------------------------------------------------------------
(* The schedule is archived or gets new triggers *)

LEMMA CancelPlannedInv ==
  ASSUME IInv, NEW c \in Callers, CancelPlanned(c)
  PROVE  IInv'
<1>1. /\ UNCHANGED <<schedule, triggers, last, readings, requests, excused>>
      /\ At(c, "cancel") /\ Goto(c, Idle) /\ occurrences' = Cancelled
  BY DEF CancelPlanned
<1>2. /\ req' \in [Callers -> Request]
      /\ req'[c] = Idle /\ \A d \in Callers \ {c} : req'[d] = req[d]
  BY <1>1, IdleIsARequest, RequestStep DEF IInv
<1>3. \A p \in occurrences' : /\ p \in Occurrence /\ p.status = "cancelled"
                              /\ \E o \in occurrences : /\ p = [o EXCEPT !.status = "cancelled"]
                                                        /\ o.source = p.source /\ o.set = p.set
  <2> SUFFICES ASSUME NEW p \in occurrences'
               PROVE  /\ p \in Occurrence /\ p.status = "cancelled"
                      /\ \E o \in occurrences : /\ p = [o EXCEPT !.status = "cancelled"]
                                                /\ o.source = p.source /\ o.set = p.set
    OBVIOUS
  <2>1. PICK o \in occurrences : p = [o EXCEPT !.status = "cancelled"]
    BY <1>1 DEF Cancelled
  <2>2. o \in Occurrence
    BY DEF IInv, TypeOK
  <2>3. p \in Occurrence /\ p.source = o.source /\ p.set = o.set /\ p.status = "cancelled"
    BY <2>1, <2>2, RowCancelled
  <2> QED BY <2>1, <2>3
<1>4. TypeOK'
  BY <1>1, <1>2, <1>3 DEF IInv, TypeOK
<1>5. RequestsKnow'
  BY <1>1, IdleIsARequest, KnownStep
<1>6. KeysHold'
  <2>1. ASSUME NEW p \in occurrences', NEW q \in occurrences', p.source = q.source, p.set = q.set
        PROVE  p = q
    <3>1. PICK o \in occurrences : /\ p = [o EXCEPT !.status = "cancelled"]
                                   /\ o.source = p.source /\ o.set = p.set
      BY <1>3
    <3>2. PICK u \in occurrences : /\ q = [u EXCEPT !.status = "cancelled"]
                                   /\ u.source = q.source /\ u.set = q.set
      BY <1>3
    <3> QED BY <2>1, <3>1, <3>2 DEF IInv, KeysHold
  <2>2. \A p \in occurrences' : p.set \in triggers'
    BY <1>1, <1>3 DEF IInv, KeysHold
  <2> QED BY <2>1, <2>2 DEF KeysHold
<1>7. \A d \in Callers : Reading(d)' => Reading(d) /\ req'[d] = req[d]
  BY <1>2, IdleIsARequest DEF Reading
<1>8. OneSet' /\ OneReading' /\ StillFires'
  BY <1>1, <1>7 DEF IInv, Fresh, InOrder, OneSet, OneReading, StillFires, Fires
<1>9. HighestRemembered'
  <2> SUFFICES ASSUME InOrder, Interval >= 0, NEW p \in occurrences', p.source \in Readings,
                      ~(last[p.set] # Unset /\ Value[p.source] <= last[p.set])
               PROVE  \E d \in Callers :
                         At(d, "remember")' /\ req'[d].source = p.source /\ req'[d].set = p.set
    BY <1>1 DEF HighestRemembered, InOrder
  <2>1. PICK o \in occurrences : o.source = p.source /\ o.set = p.set
    BY <1>3
  <2>2. PICK d \in Callers : At(d, "remember") /\ req[d].source = o.source /\ req[d].set = o.set
    BY <2>1 DEF IInv, HighestRemembered
  <2>3. d # c
    BY <1>1, <2>2 DEF At
  <2> QED BY <1>2, <2>1, <2>2, <2>3 DEF At
<1>10. IntervalIsKept'
  BY <1>1, <1>3 DEF IInv, IntervalIsKept
<1>11. ArchivingCancels'
  BY <1>3 DEF ArchivingCancels
<1> QED BY <1>4, <1>5, <1>6, <1>8, <1>9, <1>10, <1>11 DEF IInv

\* Every occurrence has the row of its trigger, so none is left when all triggers go.
LEMMA UpdateScheduleInv ==
  ASSUME IInv, NEW c \in Callers, UpdateSchedule(c)
  PROVE  IInv'
<1>1. /\ UNCHANGED <<last, readings, requests, excused>>
      /\ schedule' = "draft" /\ At(c, "replace") /\ Goto(c, Idle)
  BY DEF UpdateSchedule, SaveSchedule
<1>2. /\ req' \in [Callers -> Request]
      /\ req'[c] = Idle /\ \A d \in Callers \ {c} : req'[d] = req[d]
  BY <1>1, IdleIsARequest, RequestStep DEF IInv
<1>3. occurrences' = {}
  BY DEF IInv, KeysHold, UpdateSchedule, Cascaded
<1>4. PICK s \in Sets : triggers' = {s}
  BY DEF UpdateSchedule
<1>5. TypeOK'
  BY <1>1, <1>2, <1>3, <1>4 DEF IInv, TypeOK, Statuses
<1>6. RequestsKnow'
  BY <1>1, IdleIsARequest, KnownStep
<1>7. KeysHold' /\ OneSet' /\ HighestRemembered' /\ IntervalIsKept' /\ ArchivingCancels'
  BY <1>3, <1>4 DEF KeysHold, OneSet, HighestRemembered, IntervalIsKept, ArchivingCancels
<1>8. \A d \in Callers : Reading(d)' => Reading(d) /\ req'[d] = req[d]
  BY <1>2, IdleIsARequest DEF Reading
<1>9. OneReading' /\ StillFires'
  BY <1>1, <1>8 DEF IInv, InOrder, OneReading, StillFires, Fires
<1> QED BY <1>5, <1>6, <1>7, <1>9 DEF IInv

-----------------------------------------------------------------------------
(* Planning an occurrence *)

LEMMA ListTriggersInv ==
  ASSUME IInv, NEW c \in Callers, ListTriggers(c)
  PROVE  IInv'
<1> DEFINE left == {s \in triggers : Fires(req[c].source, last[s])}
           r == [req[c] EXCEPT !.at = "next", !.todo = left, !.last = last]
<1>1. /\ UNCHANGED <<schedule, triggers, last, readings, occurrences, requests>>
      /\ At(c, "list") /\ req[c] \in Request /\ req[c].source \in Sources
  BY DEF IInv, TypeOK, RequestsKnow, ListTriggers, At
<1>2. /\ excused \subseteq excused'
      /\ excused' \subseteq {"late", "overlap", "forgotten", "uncancelled", "replaced"}
      /\ req[c].source \in Readings /\ ReadingsHandled # {} => "overlap" \in excused'
  BY DEF IInv, TypeOK, ListTriggers, Excuse
<1>3. CASE Goto(c, Idle)
  <2>1. /\ req' \in [Callers -> Request]
        /\ RequestsKnow' /\ KeysHold' /\ OneSet' /\ OneReading' /\ StillFires'
        /\ HighestRemembered' /\ IntervalIsKept'
    BY <1>1, <1>2, <1>3, IdleIsARequest, TurningStep DEF At
  <2>2. ArchivingCancels'
    BY <1>1, <1>2, <1>3, CancellingStays DEF At
  <2>3. TypeOK'
    BY <1>1, <1>2, <2>1 DEF IInv, TypeOK
  <2> QED BY <2>1, <2>2, <2>3 DEF IInv
<1>4. CASE Goto(c, r)
  <2>1. left \in SUBSET Sets /\ last \in [Sets -> Values]
    BY DEF IInv, TypeOK
  <2>2. r \in Request /\ r.at = "next" /\ r.todo = left /\ r.source = req[c].source
    <3> HIDE DEF left
    <3> QED BY <1>1, <2>1 DEF Request, Steps
  <2>3. \A s \in r.todo : Fires(r.source, last[s])
    BY <2>2
  <2> HIDE DEF r, left
  <2>4. /\ req' \in [Callers -> Request]
        /\ req'[c] = r /\ \A d \in Callers \ {c} : req'[d] = req[d]
    BY <1>4, <2>2, RequestStep DEF IInv
  <2>5. RequestsKnow'
    BY <1>1, <1>4, <2>2, KnownStep
  <2>6. TypeOK'
    BY <1>1, <1>2, <2>4 DEF IInv, TypeOK
  <2>7. (Fresh' => Fresh) /\ (InOrder' => InOrder)
    BY <1>2, ExcusesStay
  <2>8. KeysHold' /\ OneSet' /\ IntervalIsKept'
    BY <1>1, <2>7 DEF IInv, KeysHold, OneSet, IntervalIsKept, InOrder
  <2>9. \A d \in Callers \ {c} : Reading(d)' = Reading(d)
    BY <2>4 DEF Reading
  <2>10. InOrder' /\ Reading(c)' => \A d \in Callers \ {c} : ~Reading(d)
    BY <1>2, <2>2, <2>4 DEF Reading, ReadingsHandled, InOrder
  <2>11. OneReading'
    BY <2>7, <2>9, <2>10 DEF IInv, OneReading
  <2>12. StillFires'
    <3> SUFFICES ASSUME InOrder', NEW d \in Callers, Reading(d)', NEW s \in req'[d].todo
                 PROVE  Fires(req'[d].source, last[s])
      BY <1>1 DEF StillFires, Fires
    <3>1. CASE d = c
      BY <2>3, <2>4, <3>1
    <3>2. CASE d # c
      BY <2>4, <2>7, <2>9, <3>2 DEF IInv, StillFires
    <3> QED BY <3>1, <3>2
  <2>13. HighestRemembered'
    <3> SUFFICES ASSUME InOrder', Interval >= 0, NEW o \in occurrences, o.source \in Readings,
                        ~(last[o.set] # Unset /\ Value[o.source] <= last[o.set])
                 PROVE  \E d \in Callers :
                           At(d, "remember")' /\ req'[d].source = o.source /\ req'[d].set = o.set
      BY <1>1 DEF HighestRemembered
    <3>1. PICK d \in Callers : At(d, "remember") /\ req[d].source = o.source /\ req[d].set = o.set
      BY <2>7 DEF IInv, HighestRemembered
    <3>2. d # c
      BY <1>1, <3>1 DEF At
    <3> QED BY <2>4, <3>1, <3>2 DEF At
  <2>14. ArchivingCancels'
    BY <1>1, <1>2, <1>4, CancellingStays DEF At
  <2> QED BY <2>5, <2>6, <2>8, <2>11, <2>12, <2>13, <2>14 DEF IInv
<1> QED BY <1>3, <1>4 DEF ListTriggers

LEMMA InsertOccurrenceInv ==
  ASSUME IInv, NEW c \in Callers, InsertOccurrence(c)
  PROVE  IInv'
<1>1. PICK s \in req[c].todo \cap triggers :
         /\ occurrences' =
               IF \E o \in occurrences : o.source = req[c].source /\ o.set = s THEN occurrences
               ELSE occurrences \cup {[source |-> req[c].source, set |-> s, status |-> "planned"]}
         /\ Goto(c, [req[c] EXCEPT !.at = "remember", !.set = s])
  BY DEF InsertOccurrence
<1> DEFINE source == req[c].source
           new == [source |-> source, set |-> s, status |-> "planned"]
           r == [req[c] EXCEPT !.at = "remember", !.set = s]
<1>2. /\ UNCHANGED <<schedule, triggers, last, readings, requests>>
      /\ At(c, "next") /\ req[c] \in Request /\ source \in Sources /\ s \in Sets
  BY DEF IInv, TypeOK, RequestsKnow, InsertOccurrence, At
<1>3. /\ excused \subseteq excused'
      /\ excused' \subseteq {"late", "overlap", "forgotten", "uncancelled", "replaced"}
      /\ schedule # "active" /\ occurrences' # occurrences => "late" \in excused'
  BY DEF IInv, TypeOK, InsertOccurrence, Excuse
<1>4. r \in Request /\ r.at = "remember" /\ r.set = s /\ r.todo = req[c].todo /\ r.source = source
  BY <1>2 DEF Request, Steps
<1>5. new \in Occurrence /\ new.source = source /\ new.set = s
  BY <1>2, RowWritten
<1>6. \/ occurrences' = occurrences
      \/ /\ occurrences' = occurrences \cup {new}
         /\ \A o \in occurrences : ~(o.source = source /\ o.set = s)
  BY <1>1
<1>7. Goto(c, r)
  BY <1>1
<1> HIDE DEF r, new, source
<1>8. /\ req' \in [Callers -> Request]
      /\ req'[c] = r /\ \A d \in Callers \ {c} : req'[d] = req[d]
  BY <1>4, <1>7, RequestStep DEF IInv
<1>9. RequestsKnow'
  BY <1>1, <1>2, <1>4, <1>7, KnownStep
<1>10. TypeOK'
  BY <1>2, <1>3, <1>5, <1>6, <1>8 DEF IInv, TypeOK
<1>11. (Fresh' => Fresh) /\ (InOrder' => InOrder)
  BY <1>3, ExcusesStay
<1>12. KeysHold'
  BY <1>1, <1>2, <1>5, <1>6 DEF IInv, KeysHold
<1>13. OneSet'
  BY <1>2, <1>11 DEF IInv, OneSet
<1>14. \A d \in Callers : Reading(d)' = Reading(d) /\ req'[d].todo = req[d].todo
                          /\ req'[d].source = req[d].source
  <2>1. Reading(c)' = Reading(c)
    BY <1>2, <1>4, <1>8 DEF Reading, At, source
  <2>2. \A d \in Callers \ {c} : Reading(d)' = Reading(d)
    BY <1>8 DEF Reading
  <2>3. req'[c].todo = req[c].todo /\ req'[c].source = req[c].source
    BY <1>4, <1>8 DEF source
  <2> QED BY <1>8, <2>1, <2>2, <2>3
<1>15. OneReading' /\ StillFires'
  BY <1>2, <1>11, <1>14 DEF IInv, OneReading, StillFires, Fires
<1>16. HighestRemembered'
  <2> SUFFICES ASSUME InOrder', Interval >= 0, NEW o \in occurrences', o.source \in Readings,
                      ~(last[o.set] # Unset /\ Value[o.source] <= last[o.set])
               PROVE  \E d \in Callers :
                         At(d, "remember")' /\ req'[d].source = o.source /\ req'[d].set = o.set
    BY <1>2 DEF HighestRemembered
  <2>1. CASE o \in occurrences
    <3>1. PICK d \in Callers : At(d, "remember") /\ req[d].source = o.source /\ req[d].set = o.set
      BY <1>11, <2>1 DEF IInv, HighestRemembered
    <3>2. d # c
      BY <1>2, <3>1 DEF At
    <3> QED BY <1>8, <3>1, <3>2 DEF At
  <2>2. CASE o \notin occurrences
    <3>1. o.source = source /\ o.set = s
      BY <1>5, <1>6, <2>2
    <3> QED BY <1>4, <1>8, <3>1 DEF At
  <2> QED BY <2>1, <2>2
<1>17. IntervalIsKept'
  <2> SUFFICES ASSUME InOrder', NEW o \in occurrences', NEW p \in occurrences',
                      o.source \in Readings, p.source \in Readings, Value[o.source] < Value[p.source]
               PROVE  Value[o.source] + Interval <= Value[p.source]
    BY DEF IntervalIsKept, InOrder
  <2>1. Value[o.source] \in Int /\ Value[p.source] \in Int /\ Interval \in Int
    BY ValuesAreNumbers
  <2>2. CASE Interval < 0
    BY <2>1, <2>2
  <2>3. ASSUME Interval >= 0, source \in Readings, NEW u \in occurrences, u.source \in Readings
        PROVE  Value[u.source] + Interval <= Value[source]
    <3>1. u.set = s
      BY <1>1, <1>11 DEF IInv, KeysHold, OneSet, Fresh, InOrder
    <3>2. Reading(c)
      BY <1>2, <2>3 DEF Reading, At, source
    <3>3. last[s] # Unset /\ Value[u.source] <= last[s]
      <4> SUFFICES ASSUME NEW d \in Callers, At(d, "remember"), req[d].source = u.source
                   PROVE  FALSE
        BY <1>11, <2>3, <3>1 DEF IInv, HighestRemembered
      <4>1. Reading(d)
        BY <2>3 DEF Reading, At
      <4> QED BY <1>2, <1>11, <3>2, <4>1 DEF IInv, OneReading, At
    <3>4. Fires(source, last[s])
      BY <1>1, <1>11, <3>2 DEF IInv, StillFires, source
    <3>5. Value[source] >= last[s] + Interval
      BY <2>3, <3>3, <3>4 DEF Fires
    <3>6. last[s] \in Int /\ Value[source] \in Int /\ Value[u.source] \in Int
      BY <1>2, <2>3, <3>3, ValuesAreSound DEF IInv, TypeOK
    <3> QED BY <2>1, <3>3, <3>5, <3>6
  <2>4. CASE Interval >= 0
    <3>1. CASE o \in occurrences /\ p \in occurrences
      BY <1>11, <3>1 DEF IInv, IntervalIsKept, InOrder
    <3>2. CASE o \in occurrences /\ p \notin occurrences
      BY <1>5, <1>6, <2>3, <2>4, <3>2
    <3>3. CASE o \notin occurrences /\ p \in occurrences
      <4>1. Value[p.source] + Interval <= Value[o.source]
        BY <1>5, <1>6, <2>3, <2>4, <3>3
      <4> QED BY <2>1, <2>4, <4>1
    <3>4. CASE o \notin occurrences /\ p \notin occurrences
      <4>1. o = p
        BY <1>6, <3>4
      <4> QED BY <2>1, <4>1
    <3> QED BY <3>1, <3>2, <3>3, <3>4
  <2> QED BY <2>1, <2>2, <2>4
<1>18. ArchivingCancels'
  <2>1. CASE occurrences' = occurrences
    BY <1>2, <1>3, <1>7, <2>1, CancellingStays DEF At
  <2>2. CASE occurrences' # occurrences
    BY <1>2, <1>3, <2>2 DEF ArchivingCancels
  <2> QED BY <2>1, <2>2
<1> QED BY <1>9, <1>10, <1>12, <1>13, <1>15, <1>16, <1>17, <1>18 DEF IInv

\* What a trigger remembers only grows while readings are handled one at a time.
LEMMA RememberInv ==
  ASSUME IInv, NEW c \in Callers, Remember(c)
  PROVE  IInv'
<1> DEFINE source == req[c].source
           s == req[c].set
           left == req[c].todo \ {s}
           r == IF left = {} THEN Idle ELSE [req[c] EXCEPT !.at = "next", !.todo = left, !.set = 0]
<1>1. /\ UNCHANGED <<schedule, readings, occurrences, requests>>
      /\ At(c, "remember") /\ Goto(c, r)
      /\ triggers' = triggers \cup {s}
      /\ last' = [last EXCEPT ![s] = IF source \in Readings THEN Value[source] ELSE @]
  BY DEF Remember, Remembered
<1>2. req[c] \in Request /\ source \in Sources /\ s \in req[c].todo /\ req[c].todo \subseteq Sets
  BY <1>1 DEF IInv, TypeOK, RequestsKnow, At, Request
<1>3. /\ excused \subseteq excused'
      /\ excused' \subseteq {"late", "overlap", "forgotten", "uncancelled", "replaced"}
      /\ s \notin triggers => "replaced" \in excused'
  BY DEF IInv, TypeOK, Remember, Excuse
<1>4. /\ r \in Request /\ r.at \in {"idle", "next"}
      /\ r.at = "next" => r.todo = left /\ r.source = source
  <2>1. CASE left = {}
    BY <2>1, IdleIsARequest
  <2>2. CASE left # {}
    <3>1. left \in SUBSET Sets
      BY <1>2
    <3> HIDE DEF left, source
    <3>2. r = [req[c] EXCEPT !.at = "next", !.todo = left, !.set = 0]
      BY <2>2
    <3> HIDE DEF r
    <3> QED BY <1>2, <3>1, <3>2 DEF Request, Steps, source
  <2> QED BY <2>1, <2>2
<1>5. Reading(c) <=> source \in Readings
  BY <1>1 DEF Reading, At
<1>6. last' \in [Sets -> Values] /\ \A x \in Sets \ {s} : last'[x] = last[x]
  BY <1>1, <1>2, ValuesAreSound DEF IInv, TypeOK
<1>7. /\ source \in Readings => last'[s] = Value[source]
      /\ source \notin Readings => last' = last
  BY <1>1, <1>2 DEF IInv, TypeOK
<1>8. (InOrder' => Fresh') /\ (Fresh' => Fresh /\ triggers' = triggers) /\ (InOrder' => InOrder)
  BY <1>1, <1>3, ExcusesStay DEF Fresh, InOrder
<1> HIDE DEF r
<1>9. /\ req' \in [Callers -> Request]
      /\ req'[c] = r /\ \A d \in Callers \ {c} : req'[d] = req[d]
  BY <1>1, <1>4, RequestStep DEF IInv
<1>10. RequestsKnow'
  BY <1>1, <1>2, <1>4, KnownStep
<1>11. TypeOK'
  BY <1>1, <1>2, <1>3, <1>6, <1>9 DEF IInv, TypeOK
<1>12. KeysHold'
  BY <1>1 DEF IInv, KeysHold
<1>13. OneSet'
  BY <1>8 DEF IInv, OneSet
<1>14. \A d \in Callers : Reading(d)' =>
          /\ Reading(d) /\ req'[d].source = req[d].source
          /\ req'[d].todo \subseteq req[d].todo /\ (d = c => s \notin req'[d].todo)
  <2>1. Reading(c)' => /\ Reading(c) /\ req'[c].source = req[c].source
                       /\ req'[c].todo \subseteq req[c].todo /\ s \notin req'[c].todo
    BY <1>4, <1>5, <1>9 DEF Reading
  <2>2. \A d \in Callers \ {c} : Reading(d)' => Reading(d) /\ req'[d] = req[d]
    BY <1>9 DEF Reading
  <2> QED BY <2>1, <2>2
<1>15. OneReading'
  BY <1>8, <1>14 DEF IInv, OneReading
<1>16. StillFires'
  <2> SUFFICES ASSUME InOrder', NEW d \in Callers, Reading(d)', NEW x \in req'[d].todo
               PROVE  Fires(req'[d].source, last'[x])
    BY DEF StillFires, Fires
  <2>1. Fires(req[d].source, last[x]) /\ req'[d].source = req[d].source /\ x \in Sets
    BY <1>8, <1>14 DEF IInv, TypeOK, Request, StillFires
  <2>2. last'[x] = last[x]
    <3>1. CASE d = c
      BY <1>6, <1>14, <2>1, <3>1
    <3>2. CASE d # c
      BY <1>5, <1>7, <1>8, <1>14, <3>2 DEF IInv, OneReading
    <3> QED BY <3>1, <3>2
  <2> QED BY <2>1, <2>2
<1>17. HighestRemembered'
  <2> SUFFICES ASSUME InOrder', Interval >= 0, NEW o \in occurrences, o.source \in Readings
               PROVE  \/ last'[o.set] # Unset /\ Value[o.source] <= last'[o.set]
                      \/ \E d \in Callers :
                            At(d, "remember")' /\ req'[d].source = o.source /\ req'[d].set = o.set
    BY <1>1 DEF HighestRemembered
  <2>1. o.set \in Sets /\ Value[o.source] \in Int /\ Value[o.source] # Unset
    BY ValuesAreNumbers, UnsetIsNoNumber DEF IInv, TypeOK, Occurrence
  <2>2. CASE last[o.set] # Unset /\ Value[o.source] <= last[o.set]
    <3>1. CASE o.set = s /\ source \in Readings
      <4>1. Fires(source, last[s])
        BY <1>2, <1>5, <1>8, <3>1 DEF IInv, StillFires
      <4>2. Value[source] >= last[s] + Interval
        BY <2>2, <3>1, <4>1 DEF Fires
      <4>3. last[s] \in Int /\ Value[source] \in Int /\ Interval \in Int
        BY <1>2, <2>1, <2>2, <3>1, ValuesAreSound, ValuesAreNumbers DEF IInv, TypeOK
      <4>4. Value[o.source] <= Value[source] /\ Value[source] # Unset
        BY <2>1, <2>2, <3>1, <4>2, <4>3, UnsetIsNoNumber
      <4> QED BY <1>7, <3>1, <4>4
    <3>2. CASE ~(o.set = s /\ source \in Readings)
      BY <1>6, <1>7, <2>1, <2>2, <3>2
    <3> QED BY <3>1, <3>2
  <2>3. ASSUME NEW d \in Callers, At(d, "remember"), req[d].source = o.source, req[d].set = o.set
        PROVE  \/ last'[o.set] # Unset /\ Value[o.source] <= last'[o.set]
               \/ \E e \in Callers :
                     At(e, "remember")' /\ req'[e].source = o.source /\ req'[e].set = o.set
    <3>1. CASE d = c
      BY <1>7, <2>1, <2>3, <3>1
    <3>2. CASE d # c
      BY <1>9, <2>3, <3>2 DEF At
    <3> QED BY <3>1, <3>2
  <2> QED BY <1>8, <2>2, <2>3 DEF IInv, HighestRemembered
<1>18. IntervalIsKept'
  BY <1>1, <1>8 DEF IInv, IntervalIsKept, InOrder
<1>19. ArchivingCancels'
  BY <1>1, <1>3, CancellingStays DEF At
<1> QED BY <1>10, <1>11, <1>12, <1>13, <1>15, <1>16, <1>17, <1>18, <1>19 DEF IInv

-----------------------------------------------------------------------------
LEMMA NextInv == IInv /\ [Next]_vars => IInv'
<1>1. ASSUME IInv, UNCHANGED vars PROVE IInv'
  BY <1>1 DEF vars, IInv, TypeOK, RequestsKnow, KeysHold, OneSet, OneReading, StillFires,
              HighestRemembered, IntervalIsKept, ArchivingCancels, Fresh, InOrder, Reading, Fires, At
<1>2. ASSUME IInv, NEW c \in Callers, \E r \in Readings : AddReading(c, r)
      PROVE  IInv'
  <2>1. PICK r \in Readings : AddReading(c, r)
    BY <1>2
  <2>2. r \in Sources /\ readings' \subseteq Readings
    BY <1>2, <2>1 DEF Sources, AddReading, IInv, TypeOK
  <2> QED BY <1>2, <2>1, <2>2, BeginForInv DEF AddReading
<1>3. ASSUME IInv, NEW c \in Callers,
             (\E e \in Events : IngestEvent(c, e)) \/ (\E d \in Dates : Materialize(c, d))
      PROVE  IInv'
  <2>1. PICK x \in Sources : BeginFor(c, x) /\ UNCHANGED readings
    BY <1>3 DEF Sources, IngestEvent, Materialize
  <2>2. readings' \subseteq Readings
    BY <1>3, <2>1 DEF IInv, TypeOK
  <2> QED BY <1>3, <2>1, <2>2, BeginForInv
<1>4. ASSUME IInv, NEW c \in Callers,
             ReadToUpdate(c) \/ ReadToActivate(c) \/ ReadToPause(c) \/ ReadToArchive(c)
      PROVE  IInv'
  BY <1>4, BeginOnInv DEF ReadToUpdate, ReadToActivate, ReadToPause, ReadToArchive
<1>5. ASSUME IInv, NEW c \in Callers,
             \/ ListTriggers(c) \/ InsertOccurrence(c) \/ Remember(c)
             \/ UpdateSchedule(c) \/ Activate(c) \/ Pause(c) \/ Archive(c) \/ CancelPlanned(c)
             \/ GiveUp(c)
      PROVE  IInv'
  BY <1>5, ListTriggersInv, InsertOccurrenceInv, RememberInv, UpdateScheduleInv, ActivateInv,
     PauseInv, ArchiveInv, CancelPlannedInv, GiveUpInv
<1> QED BY <1>1, <1>2, <1>3, <1>4, <1>5 DEF Next

\* The inductive invariant holds of every reachable state.
LEMMA Inductive == Spec => []IInv
BY InitInv, NextInv, PTL DEF Spec

-----------------------------------------------------------------------------
\* A source plans at most one occurrence, whatever overlaps and however the schedule is
\* updated, as long as no replaced trigger is brought back: the dedupeKey tells occurrences
\* of one trigger apart, and the foreign key removes those of the triggers before.
THEOREM SourcesPlanOnce == Spec => []OncePerSource
<1>1. IInv => OncePerSource
  BY DEF IInv, KeysHold, OneSet, Fresh, OncePerSource
<1> QED BY <1>1, Inductive, PTL

\* Readings handled one after the other, to the end, plan occurrences an interval apart.
THEOREM MeterIntervalIsKept == Spec => []IntervalIsKept
<1>1. IInv => IntervalIsKept
  BY DEF IInv
<1> QED BY <1>1, Inductive, PTL

\* Once every request is done an archived schedule has only cancelled occurrences, unless
\* one was planned late or an archiving died.
THEOREM ArchivedSchedulesAreQuiet == Spec => []ArchivedPlansNothing
<1>1. IInv => ArchivedPlansNothing
  BY DEF IInv, ArchivingCancels, ArchivedPlansNothing, At
<1> QED BY <1>1, Inductive, PTL

\* Rows and requests keep their types.
THEOREM TriggersAreTyped == Spec => []TypeOK
<1>1. IInv => TypeOK
  BY DEF IInv
<1> QED BY <1>1, Inductive, PTL

-----------------------------------------------------------------------------
(* The lease.  What LeaseIsKept needs is that the key of a refreshed run has *)
(* just as long to live as the run believes.  The job under the lock takes   *)
(* only steps of the lock, so that it inherits the theorem.                  *)

\* The inductive invariant: age and ttl measure the same lease from its two ends.
LeaseInv ==
    /\ LockTypeOK
    /\ \A r \in running : age[r] < Lease => key = r /\ ttl = Lease - age[r]

-----------------------------------------------------------------------------
(* No step of the lock breaks it. *)

LEMMA LeaseInit == LockInit => LeaseInv
BY LeaseIsPositive DEF LockInit, LeaseInv, LockTypeOK

LEMMA LeaseAcquire ==
    ASSUME LeaseInv, NEW r \in Runs, Acquire(r)
    PROVE  LeaseInv'
BY LeaseIsPositive, NobodyIsNoRun DEF LeaseInv, LockTypeOK, Acquire

LEMMA LeaseExtend ==
    ASSUME LeaseInv, NEW r \in Runs, Extend(r)
    PROVE  LeaseInv'
BY LeaseIsPositive, NobodyIsNoRun DEF LeaseInv, LockTypeOK, Extend

LEMMA LeaseRelease ==
    ASSUME LeaseInv, NEW r \in Runs, Release(r)
    PROVE  LeaseInv'
BY LeaseIsPositive, NobodyIsNoRun DEF LeaseInv, LockTypeOK, Release, Released

LEMMA LeaseAbandon ==
    ASSUME LeaseInv, NEW r \in Runs, Abandon(r)
    PROVE  LeaseInv'
BY DEF LeaseInv, LockTypeOK, Abandon

LEMMA LeaseElapse ==
    ASSUME LeaseInv, Elapse
    PROVE  LeaseInv'
<1>1. LockTypeOK'
  BY LeaseIsPositive DEF LeaseInv, LockTypeOK, Elapse, Remaining
<1>2. ASSUME NEW r \in running', age'[r] < Lease
      PROVE  key' = r /\ ttl' = Lease - age'[r]
  <2>1. r \in running /\ r \in Runs
    BY <1>2 DEF LeaseInv, LockTypeOK, Elapse
  <2>2. age[r] < Lease /\ age'[r] = age[r] + 1
    BY <1>2, <2>1, LeaseIsPositive DEF LeaseInv, LockTypeOK, Elapse
  <2>3. key = r /\ ttl = Lease - age[r]
    BY <2>1, <2>2 DEF LeaseInv
  <2>4. ttl' = Lease - age'[r] /\ ttl' > 0
    BY <1>2, <2>1, <2>2, <2>3, LeaseIsPositive DEF LeaseInv, LockTypeOK, Elapse, Remaining
  <2> QED
    BY <2>3, <2>4 DEF Elapse
<1> QED
  BY <1>1, <1>2 DEF LeaseInv

LEMMA LeaseStep == LeaseInv /\ [LockNext]_lock => LeaseInv'
<1> SUFFICES ASSUME LeaseInv, [LockNext]_lock
             PROVE  LeaseInv'
  OBVIOUS
<1>1. ASSUME NEW r \in Runs, Acquire(r) \/ Extend(r) \/ Release(r) \/ Abandon(r)
      PROVE  LeaseInv'
  BY <1>1, LeaseAcquire, LeaseExtend, LeaseRelease, LeaseAbandon
<1>2. CASE Elapse
  BY <1>2, LeaseElapse
<1>3. CASE UNCHANGED lock
  BY <1>3 DEF lock, LeaseInv, LockTypeOK
<1> QED
  BY <1>1, <1>2, <1>3 DEF LockNext

\* However many runs there are and however long the lease: a run that was refreshed in
\* time has the lock to itself.
THEOREM LockKeepsLeases == LockSpec => []LeaseIsKept
<1>1. LeaseInv => LeaseIsKept
  BY DEF LeaseInv, LeaseIsKept
<1> QED
  BY <1>1, LeaseInit, LeaseStep, PTL DEF LockSpec

-----------------------------------------------------------------------------
(* The reminders implement the lock. *)

LEMMA RoundStep == [RemindersNext]_reminders => [LockNext]_lock
<1> SUFFICES ASSUME [RemindersNext]_reminders
             PROVE  [LockNext]_lock
  OBVIOUS
<1>1. ASSUME NEW r \in Runs,
             \/ StartRound(r) \/ Insert(r) \/ EndRound(r) \/ Refresh(r)
             \/ FailRound(r) \/ Crash(r)
      PROVE  [LockNext]_lock
  BY <1>1 DEF StartRound, Insert, EndRound, Refresh, FailRound, Crash, LockNext
<1>2. CASE Tick
  BY <1>2 DEF Tick, LockNext
<1>3. CASE Others
  BY <1>3 DEF Others, FinishOccurrence, Reassign, PauseOrActivate
<1>4. CASE UNCHANGED reminders
  BY <1>4 DEF reminders
<1> QED
  BY <1>1, <1>2, <1>3, <1>4 DEF RemindersNext

\* A round of reminders, with all that happens around it, uses the lock as RedisLock says.
THEOREM RoundsImplementTheLock == RemindersSpec => LockSpec
BY RoundStep, PTL DEF RemindersSpec, RemindersInit, LockSpec

\* So no two rounds that were refreshed in time remind at once.
THEOREM RoundsKeepLeases == RemindersSpec => []LeaseIsKept
BY RoundsImplementTheLock, LockKeepsLeases, PTL

===============================================================================
