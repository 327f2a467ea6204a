------------------------ MODULE MaintenanceGeneration ------------------------
(***************************************************************************)
(* One maintenance schedule, its occurrences and the work orders made for  *)
(* them.  Every instance of the backend runs generateDueOccurrences every  *)
(* ten minutes under a lock in Redis; people activate, pause and archive   *)
(* the schedule, skip occurrences, open the calendar, create work orders   *)
(* for an occurrence by hand and complete them.                            *)
(*                                                                         *)
(* None of this runs in one transaction.  A handler reads rows, awaits,    *)
(* and saves the whole row it read: what others committed in between is    *)
(* overwritten.  Each step here is one statement or one transaction of a   *)
(* handler; "pc" says where a process is, "todo" holds the rows it read.   *)
(***************************************************************************)
EXTENDS Integers, Sequences, FiniteSets

CONSTANTS
  Workers,          \* backend instances, as far as they run the cron job
  Callers,          \* HTTP requests
  LastOccurrence,   \* occurrences are numbered by plannedStartAt
  OrderIds,
  MaxFailures,      \* bound: crashes, errors and losses of the lock
  NoOrder,
  Nobody

Occurrences == 1 .. LastOccurrence

\* "created" orders have no workflow instance, "started" ones have one that
\* their row does not know.  "coded" orders bear the code the job derives.
Order == [for   : Occurrences,
          coded : BOOLEAN,
          state : {"created", "started", "linked", "done"}]

ASSUME CountAssumption == LastOccurrence \in Nat /\ MaxFailures \in Nat
ASSUME ProcessAssumption == Workers \intersect Callers = {} /\ Nobody \notin Workers
ASSUME NullAssumption == NoOrder \notin OrderIds /\ NoOrder \notin Order

VARIABLES
  schedule,     \* the status of the schedule
  occurrences,  \* the maintenance_occurrences rows
  orders,       \* the work_orders rows
  lock,         \* whose token the key dakrosa:jobs:maintenance-work-orders has
  pc,
  todo,         \* the rows a process has still to deal with, as it read them
  failures,     \* how many failures there were
  overlapped    \* history: the lock was free while its holder was running

vars == <<schedule, occurrences, orders, lock, pc, todo, failures, overlapped>>

Processes == Workers \union Callers

\* "absent" stands for a date that has no row yet.
Row == [status : {"absent", "planned", "generated", "completed", "skipped", "cancelled"},
        order  : OrderIds \union {NoOrder}]

Item == [at : Occurrences, row : Row]

\* Where a process can be: idle, in the job, in a creation, in a handler.
Places == {"idle", "next", "mark", "resolve", "insert", "workflow", "link",
           "skip", "update", "activate", "pause", "archive", "cancel", "materialize"}

TypeOK ==
  /\ schedule \in {"draft", "active", "paused", "archived"}
  /\ occurrences \in [Occurrences -> Row]
  /\ orders \in [OrderIds -> Order \union {NoOrder}]
  /\ lock \in Workers \union {Nobody}
  /\ pc \in [Processes -> Places]
  /\ todo \in [Processes -> Seq(Item)]
  /\ failures \in 0 .. MaxFailures
  /\ overlapped \in BOOLEAN

Init ==
  /\ schedule = "draft"
  /\ occurrences = [o \in Occurrences |-> [status |-> "absent", order |-> NoOrder]]
  /\ orders = [k \in OrderIds |-> NoOrder]
  /\ lock = Nobody
  /\ pc = [p \in Processes |-> "idle"]
  /\ todo = [p \in Processes |-> <<>>]
  /\ failures = 0
  /\ overlapped = FALSE

-----------------------------------------------------------------------------
(* Helpers *)

At(p, place) == pc[p] = place
GoTo(p, place) == pc' = [pc EXCEPT ![p] = place]
Current(p) == todo[p][1].at

OrdersFor(o) == {k \in OrderIds : orders[k] # NoOrder /\ orders[k].for = o}
\* Variant: the code is derived from the date alone.
SameDayTaken(o) == \E k \in OrderIds : orders[k] # NoOrder /\ orders[k].coded
CodeTaken(o) == \E k \in OrdersFor(o) : orders[k].coded
FreeOrder == CHOOSE k \in OrderIds : orders[k] = NoOrder
HasFreeOrder == \E k \in OrderIds : orders[k] = NoOrder

\* Variant: every order bears the derived code only; the index on the
\* occurrence is missing.
OnlyTheCodeIsUnique(p, o) == p \in Workers => ~CodeTaken(o)

\* The unique indexes on the code and on maintenance_occurrence_id.
Insertable(p, o) == OrdersFor(o) = {}

\* The end of a handler, and of a run with the release of its own token.
Finish(p) ==
  /\ GoTo(p, "idle")
  /\ todo' = [todo EXCEPT ![p] = <<>>]
  /\ lock' = IF lock = p THEN Nobody ELSE lock

\* A worker goes on with the next row of its list, a request is answered.
Advance(p) ==
  IF Len(todo[p]) = 1
    THEN Finish(p)
    ELSE /\ GoTo(p, "next")
         /\ todo' = [todo EXCEPT ![p] = Tail(@)]
         /\ UNCHANGED lock

-----------------------------------------------------------------------------
(* generateDueOccurrences *)

Due == {o \in Occurrences : occurrences[o].status = "planned" /\ schedule = "active"}

\* The due occurrences, the one planned first at the head.
ByPlannedStart ==
  {due \in [1 .. Cardinality(Due) -> Due] :
     \A i, j \in DOMAIN due : i < j => due[i] < due[j]}

\* runExclusive gets the lock and the due occurrences are listed.  (A run that
\* finds none changes nothing.)
Begin(w) ==
  /\ At(w, "idle")
  /\ lock = Nobody
  /\ Due # {}
  /\ lock' = w
  /\ \E due \in ByPlannedStart :
       todo' = [todo EXCEPT ![w] =
                  [i \in DOMAIN due |-> [at |-> due[i], row |-> occurrences[due[i]]]]]
  /\ GoTo(w, "next")
  /\ UNCHANGED <<schedule, occurrences, orders, failures, overlapped>>

\* Is there a work order with the derived code?
LookUp(w) ==
  /\ At(w, "next")
  /\ GoTo(w, IF CodeTaken(Current(w)) THEN "mark" ELSE "resolve")
  /\ UNCHANGED <<schedule, occurrences, orders, lock, todo, failures, overlapped>>

\* The listed row is saved as generated, with the work order it had then.
Mark(w) ==
  /\ At(w, "mark")
  /\ occurrences' = [occurrences EXCEPT ![Current(w)] =
                       [todo[w][1].row EXCEPT !.status = "generated"]]
  /\ Advance(w)
  /\ UNCHANGED <<schedule, orders, failures, overlapped>>

-----------------------------------------------------------------------------
(* WorkOrderService.create, called by the job and by a request *)

\* A request creates an order for an occurrence, under a code of its own.
RequestOrder(c, o) ==
  /\ At(c, "idle")
  /\ occurrences[o].status # "absent"
  /\ HasFreeOrder
  /\ todo' = [todo EXCEPT ![c] = <<[at |-> o, row |-> occurrences[o]]>>]
  /\ GoTo(c, "resolve")
  /\ UNCHANGED <<schedule, occurrences, orders, lock, failures, overlapped>>

\* Code check and resolveContext, which reads the occurrence again and asks
\* nothing of its status or of the schedule's.
Resolve(p) ==
  /\ At(p, "resolve")
  /\ IF p \in Workers /\ CodeTaken(Current(p))
       THEN Finish(p)
       ELSE GoTo(p, "insert") /\ UNCHANGED <<lock, todo>>
  /\ UNCHANGED <<schedule, occurrences, orders, failures, overlapped>>

\* Variant: the occurrence is not told.
NoLink(o, k) == [status |-> "generated", order |-> NoOrder]

\* The row saved with the new order.
LinkTo(o, k) == [status |-> "generated", order |-> k]

\* The transaction: order and occurrence together, or an index refuses.
Insert(p) ==
  LET o == Current(p) IN
  /\ At(p, "insert")
  /\ IF Insertable(p, o)
       THEN /\ HasFreeOrder
            /\ orders' = [orders EXCEPT ![FreeOrder] =
                            [for |-> o, coded |-> p \in Workers, state |-> "created"]]
            /\ occurrences' = [occurrences EXCEPT ![o] = LinkTo(o, FreeOrder)]
            /\ todo' = [todo EXCEPT ![p] =
                          <<[at |-> o, row |-> LinkTo(o, FreeOrder)]>> \o Tail(@)]
            /\ GoTo(p, "workflow")
            /\ UNCHANGED lock
       ELSE Finish(p) /\ UNCHANGED <<orders, occurrences>>
  /\ UNCHANGED <<schedule, failures, overlapped>>

Mine(p) == todo[p][1].row.order

\* startInstance, in a transaction of its own.
StartWorkflow(p) ==
  /\ At(p, "workflow")
  /\ orders' = [orders EXCEPT ![Mine(p)].state = "started"]
  /\ GoTo(p, "link")
  /\ UNCHANGED <<schedule, occurrences, lock, todo, failures, overlapped>>

\* The order row gets the id of its instance.
LinkWorkflow(p) ==
  /\ At(p, "link")
  /\ orders' = [orders EXCEPT ![Mine(p)].state = "linked"]
  /\ Advance(p)
  /\ UNCHANGED <<schedule, occurrences, failures, overlapped>>

\* performWorkflowAction when the instance is completed: the occurrence row is
\* updated whatever its status.
Complete(k) ==
  /\ orders[k] # NoOrder
  /\ orders[k].state = "linked"
  /\ orders' = [orders EXCEPT ![k].state = "done"]
  /\ occurrences' = [occurrences EXCEPT ![orders[k].for].status = "completed"]
  /\ UNCHANGED <<schedule, lock, pc, todo, failures, overlapped>>

-----------------------------------------------------------------------------
(* The handlers of MaintenanceSchedulingService *)

\* A handler reads its schedule and passes its check.
Read(c, place, statuses) ==
  /\ At(c, "idle")
  /\ schedule \in statuses
  /\ GoTo(c, place)
  /\ UNCHANGED <<schedule, occurrences, orders, lock, todo, failures, overlapped>>

\* It saves the row it read, and goes on.
SaveSchedule(c, from, status, place) ==
  /\ At(c, from)
  /\ schedule' = status
  /\ GoTo(c, place)
  /\ UNCHANGED <<occurrences, orders, lock, todo, failures, overlapped>>

Activate(c) ==
  \/ Read(c, "activate", {"draft", "active", "paused"})
  \/ SaveSchedule(c, "activate", "active", "idle")

\* Only a draft without occurrences may be changed; the draft is saved.
Update(c) ==
  \/ /\ \A o \in Occurrences : occurrences[o].status = "absent"
     /\ Read(c, "update", {"draft"})
  \/ SaveSchedule(c, "update", "draft", "idle")

Pause(c) ==
  \/ Read(c, "pause", {"active"})
  \/ SaveSchedule(c, "pause", "paused", "idle")

\* Planned occurrences are cancelled by one UPDATE with a condition.
Archive(c) ==
  \/ Read(c, "archive", {"draft", "active", "paused"})
  \/ SaveSchedule(c, "archive", "archived", "cancel")
  \/ /\ At(c, "cancel")
     /\ occurrences' = [o \in Occurrences |->
                          IF occurrences[o].status = "planned"
                            THEN [occurrences[o] EXCEPT !.status = "cancelled"]
                            ELSE occurrences[o]]
     /\ GoTo(c, "idle")
     /\ UNCHANGED <<schedule, orders, lock, todo, failures, overlapped>>

\* materializeTenant reads the active schedule and then inserts one row after
\* the other unless its dedupe key is there.  Activation, the calendar and
\* the hourly job call it; a window may leave dates out.
Materialize(c) ==
  \/ Read(c, "materialize", {"active"})
  \/ /\ At(c, "materialize")
     /\ \E o \in Occurrences :
          /\ occurrences[o].status = "absent"
          /\ occurrences' = [occurrences EXCEPT ![o].status = "planned"]
     /\ UNCHANGED <<schedule, orders, lock, pc, todo, failures, overlapped>>
  \/ /\ At(c, "materialize")
     /\ GoTo(c, "idle")
     /\ UNCHANGED <<schedule, occurrences, orders, lock, todo, failures, overlapped>>

\* skipOccurrence reads a planned row without order ...
ReadToSkip(c, o) ==
  /\ At(c, "idle")
  /\ occurrences[o].status = "planned"
  /\ occurrences[o].order = NoOrder
  /\ todo' = [todo EXCEPT ![c] = <<[at |-> o, row |-> occurrences[o]]>>]
  /\ GoTo(c, "skip")
  /\ UNCHANGED <<schedule, occurrences, orders, lock, failures, overlapped>>

\* ... and saves it as skipped.
Skip(c) ==
  /\ At(c, "skip")
  /\ occurrences' = [occurrences EXCEPT ![Current(c)] =
                       [todo[c][1].row EXCEPT !.status = "skipped"]]
  /\ Advance(c)
  /\ UNCHANGED <<schedule, orders, failures, overlapped>>

-----------------------------------------------------------------------------
(* Failures *)

\* A process dies, or throws, which gives the lock back.
Fail(p) ==
  /\ ~At(p, "idle")
  /\ failures < MaxFailures
  /\ failures' = failures + 1
  /\ GoTo(p, "idle")
  /\ todo' = [todo EXCEPT ![p] = <<>>]
  /\ lock' \in {lock, IF lock = p THEN Nobody ELSE lock}
  /\ UNCHANGED <<schedule, occurrences, orders, overlapped>>

\* Variant: the key is set without a time to live.
KeyWithoutTtl == FALSE /\ UNCHANGED vars

\* The key of a holder that is no longer there expires.
ExpireLock ==
  /\ lock # Nobody
  /\ At(lock, "idle")
  /\ lock' = Nobody
  /\ UNCHANGED <<schedule, occurrences, orders, pc, todo, failures, overlapped>>

\* The key of a running holder expires: its refreshes failed or came late.
LoseLock ==
  /\ lock # Nobody
  /\ ~At(lock, "idle")
  /\ failures < MaxFailures
  /\ failures' = failures + 1
  /\ lock' = Nobody
  /\ overlapped' = TRUE
  /\ UNCHANGED <<schedule, occurrences, orders, pc, todo>>

-----------------------------------------------------------------------------
Run(w) == LookUp(w) \/ Mark(w)
Create(p) == Resolve(p) \/ Insert(p) \/ StartWorkflow(p) \/ LinkWorkflow(p)

Next ==
  \/ \E w \in Workers : Begin(w) \/ Run(w)
  \/ \E p \in Processes : Create(p) \/ Fail(p)
  \/ \E c \in Callers : \/ \E o \in Occurrences : RequestOrder(c, o) \/ ReadToSkip(c, o)
                        \/ Update(c)
                        \/ Activate(c)
                        \/ Pause(c)
                        \/ Archive(c)
                        \/ Materialize(c)
                        \/ Skip(c)
  \/ \E k \in OrderIds : Complete(k)
  \/ ExpireLock
  \/ LoseLock

Spec == Init /\ [][Next]_vars

\* The job is started again and again, a run and a creation go on until they
\* end or fail, and the key of a dead holder expires.
FairSpec ==
  /\ Spec
  /\ WF_vars(\E w \in Workers : Begin(w))
  /\ \A w \in Workers : WF_vars(Run(w))
  /\ \A p \in Processes : WF_vars(Create(p))
  /\ WF_vars(ExpireLock)

-----------------------------------------------------------------------------
(* Properties *)

\* Two runs that overlap, callers, retries and crashes never give an
\* occurrence two work orders.
OneOrderPerOccurrence ==
  \A o \in Occurrences : \A j, k \in OrdersFor(o) : j = k

\* An occurrence is generated or completed only if there is a work order for
\* it: whatever the race, maintenance that is due is not ticked off for free.
NothingGeneratedForFree ==
  \A o \in Occurrences :
    occurrences[o].status \in {"generated", "completed"} => OrdersFor(o) # {}

\* The order an occurrence points to was made for it, and as long as the lock
\* kept the runs apart, a generated occurrence points to its order.
OccurrenceKnowsItsOrder ==
  \A o \in Occurrences :
    LET k == occurrences[o].order IN
    /\ k # NoOrder => k \in OrdersFor(o)
    /\ occurrences[o].status = "generated" /\ ~overlapped => k # NoOrder

\* A work order has its workflow, or somebody is about to give it one, unless
\* something failed.
OrdersHaveTheirWorkflow ==
  \A k \in OrderIds :
    orders[k] # NoOrder /\ orders[k].state \in {"created", "started"} =>
      \/ failures > 0
      \/ \E p \in Processes : pc[p] \in {"workflow", "link"} /\ Mine(p) = k

\* While the schedule stays active every planned occurrence is eventually
\* dealt with, through crashes, lost locks and runs cut short by an index.
\* It assumes that creation does not fail again and again for one
\* occurrence, which would end every run before the later ones are reached.
DueIsDealtWith ==
  \A o \in Occurrences :
    (occurrences[o].status = "planned" /\ schedule = "active")
      ~> (occurrences[o].status # "planned" \/ schedule # "active")

\* Orders and occurrences know each other, and the order its workflow.
OrdersAreLinked == OccurrenceKnowsItsOrder /\ OrdersHaveTheirWorkflow

=============================================================================
