----------------------------- MODULE WorkOrders -----------------------------
(***************************************************************************)
(* A work order of a maintenance occurrence (work-order.service.ts): its   *)
(* row, its checklist, its workflow instance and the job plan it was made  *)
(* from.  create commits the order and its checklist, then starts the      *)
(* instance, then saves the order with its instance.  Every other handler  *)
(* reads the whole row, works on it and saves it; performWorkflowAction    *)
(* commits the workflow before that, and reads its outcome by a query of   *)
(* its own.                                                                *)
(*                                                                         *)
(* A save writes every column as the handler has it.  (TypeORM loads the   *)
(* row first and writes what differs: both are one step here.)  CLOSED is  *)
(* treated by the code as COMPLETED is and left out.                       *)
(***************************************************************************)
EXTENDS JobPlans

CONSTANTS
    Users,   \* who an order may be assigned to
    NoUser   \* null

ASSUME NullIsNoUser == NoUser \notin Users

VARIABLES
    order,       \* row of work_orders
    checklist,   \* version and steps its checklist rows refer to
    workflow,    \* its workflow instance
    acted,       \* an action on the instance has its row
    occurrence,  \* status of its occurrence
    req,         \* caller -> what it does next and the order as it has it
    excused      \* history of what a later disagreement may come from

orderVars == <<order, checklist, workflow, acted, occurrence, req, excused>>
vars == <<planVars, pinned, requests, orderVars>>

Statuses == {"DRAFT", "ASSIGNED", "IN_PROGRESS", "COMPLETED", "CANCELLED"}
Final == {"COMPLETED", "CANCELLED"}
Order == [there : BOOLEAN, status : Statuses, assignee : Users \cup {NoUser}, bound : BOOLEAN]
Checklist == [version : Numbers \cup {None}, steps : 0..MaxRequests]
Steps == {"idle", "steps", "insert", "start", "bind", "act", "outcome",
          "completeOccurrence", "saveActed", "save", "saveUpdate", "finishOccurrence"}
Excuses == {"crash", "stale", "byHand", "direct", "automatic"}
Request == [at : Steps, mine : Order, read : Order, list : Checklist, assigns : BOOLEAN]

NoOrder == [there |-> FALSE, status |-> "DRAFT", assignee |-> NoUser, bound |-> FALSE]
NoList == [version |-> None, steps |-> 0]
Idle == [at |-> "idle", mine |-> NoOrder, read |-> NoOrder, list |-> NoList, assigns |-> FALSE]

TypeOK ==
    /\ JobPlansTypeOK
    /\ order \in Order
    /\ checklist \in Checklist
    /\ workflow \in {"none", "running", "completed"}
    /\ acted \in BOOLEAN
    /\ occurrence \in {"planned", "generated", "completed", "cancelled"}
    /\ req \in [Callers -> Request]
    /\ excused \subseteq Excuses

Init ==
    /\ JobPlansInit
    /\ order = NoOrder
    /\ checklist = NoList
    /\ workflow = "none"
    /\ acted = FALSE
    /\ occurrence = "planned"
    /\ req = [c \in Callers |-> Idle]
    /\ excused = {}

-----------------------------------------------------------------------------
At(c, step) == req[c].at = step
Goto(c, r) == req' = [req EXCEPT ![c] = r]
Next(c, step) == Goto(c, [req[c] EXCEPT !.at = step])

Begin(c, r) ==
    /\ At(c, "idle")
    /\ requests < MaxRequests
    /\ requests' = requests + 1
    /\ Goto(c, r)
    /\ UNCHANGED <<planVars, pinned, order, checklist, workflow, acted, occurrence, excused>>

\* requireWorkOrder, and the handler's changes
BeginOn(c, step, mine) ==
    /\ order.there
    /\ Begin(c, [Idle EXCEPT !.at = step, !.mine = mine, !.read = order])

Excuse(reasons) == excused' = excused \cup reasons

\* The row is written over: stale if it is not as it was read any more.
Save(c, mine) ==
    /\ order' = mine
    /\ Excuse(IF order # req[c].read THEN {"stale"} ELSE {})

-----------------------------------------------------------------------------
(* create *)

\* resolveContext: the current version of the plan, or any version of it that is asked for
Create(c, status, assignee, number) ==
    /\ ~order.there /\ \A d \in Callers : req[d].at = "idle"
    /\ number = plan.current \/ number \in Made
    /\ Begin(c, [Idle EXCEPT !.at = "steps", !.list.version = number,
                   !.mine = [there |-> TRUE, assignee |-> assignee, bound |-> FALSE,
                             status |-> IF assignee # NoUser THEN "ASSIGNED" ELSE status]])

ReadSteps(c) ==
    /\ At(c, "steps")
    /\ LET n == req[c].list.version IN
          Goto(c, [req[c] EXCEPT !.at = "insert", !.list.steps = IF n = None THEN 0 ELSE version[n].steps])
    /\ UNCHANGED <<planVars, pinned, requests, order, checklist, workflow, acted, occurrence, excused>>

\* The transaction of create; a checklist row needs the step it refers to.
Insert(c) ==
    /\ At(c, "insert")
    /\ LET n == req[c].list.version IN
          /\ n # None => version[n].steps = req[c].list.steps
          /\ pinned' = pinned \cup ({n} \ {None})
    /\ order' = req[c].mine
    /\ checklist' = req[c].list
    /\ occurrence' = "generated"
    /\ Excuse(IF req[c].mine.status \in Final THEN {"byHand"} ELSE {})
    /\ Goto(c, [req[c] EXCEPT !.at = "start", !.read = req[c].mine])
    /\ UNCHANGED <<planVars, requests, workflow, acted>>

\* workflow.startInstance; an instance whose automatic steps reach the end is over at once.
StartInstance(c) ==
    /\ At(c, "start")
    /\ workflow' \in {"running", "completed"}
    /\ Excuse(IF workflow' = "completed" THEN {"automatic"} ELSE {})
    /\ Next(c, "bind")
    /\ UNCHANGED <<planVars, pinned, requests, order, checklist, acted, occurrence>>

Bind(c) ==
    /\ At(c, "bind")
    /\ Save(c, [req[c].mine EXCEPT !.bound = TRUE])
    /\ Goto(c, Idle)
    /\ UNCHANGED <<planVars, pinned, requests, checklist, workflow, acted, occurrence>>

-----------------------------------------------------------------------------
(* update *)

\* assigneeId is assigned, but an assignee loaded with the row wins over it.
NewAssignee(user) == IF order.assignee = NoUser THEN user ELSE order.assignee

\* The status of an order with an instance is left to the workflow.
SettableStatus(status) == status = order.status \/ ~order.bound

Update(c, status, user) ==
    /\ SettableStatus(status)
    /\ BeginOn(c, "saveUpdate", [order EXCEPT !.status = status, !.assignee = NewAssignee(user)])

SaveUpdate(c) ==
    /\ At(c, "saveUpdate")
    /\ order' = req[c].mine
    /\ Excuse((IF order # req[c].read THEN {"stale"} ELSE {})
              \cup (IF ~req[c].read.bound /\ req[c].mine.status # req[c].read.status THEN {"byHand"} ELSE {}))
    /\ IF req[c].mine.status \in Final THEN Next(c, "finishOccurrence") ELSE Goto(c, Idle)
    /\ UNCHANGED <<planVars, pinned, requests, checklist, workflow, acted, occurrence>>

FinishOccurrence(c) ==
    /\ At(c, "finishOccurrence")
    /\ occurrence' = IF req[c].mine.status = "CANCELLED" THEN "cancelled" ELSE "completed"
    /\ Goto(c, Idle)
    /\ UNCHANGED <<planVars, pinned, requests, order, checklist, workflow, acted, excused>>

-----------------------------------------------------------------------------
(* performWorkflowAction *)

Act(c, assigns) ==
    /\ order.bound /\ order.there
    /\ Begin(c, [Idle EXCEPT !.at = "act", !.mine = order, !.read = order, !.assigns = assigns])

\* Variant: it is not looked whether the instance is still running.
TakeActionAnyway(c) ==
    /\ At(c, "act")
    /\ workflow' \in {"running", "completed"}
    /\ acted' = TRUE
    /\ Next(c, "outcome")
    /\ UNCHANGED <<planVars, pinned, requests, order, checklist, occurrence, excused>>

\* workflow.performAction up to its commit
TakeAction(c) ==
    /\ At(c, "act") /\ workflow = "running"
    /\ workflow' \in {"running", "completed"}
    /\ acted' = TRUE
    /\ Next(c, "outcome")
    /\ UNCHANGED <<planVars, pinned, requests, order, checklist, occurrence, excused>>

\* An action is not taken, and not refused either, if its idempotency key is known: from
\* the same action before, or from any other instance of the tenant.
Retry(c) ==
    /\ At(c, "act")
    /\ Next(c, "outcome")
    /\ UNCHANGED <<planVars, pinned, requests, order, checklist, workflow, acted, occurrence, excused>>

\* The instance is read again, with what others did to it meanwhile.
ReadOutcome(c) ==
    /\ At(c, "outcome")
    /\ \/ /\ workflow = "completed"
          /\ Goto(c, [req[c] EXCEPT !.at = "completeOccurrence", !.mine.status = "COMPLETED"])
       \/ /\ workflow # "completed"
          /\ Goto(c, [req[c] EXCEPT !.at = "saveActed",
                                    !.mine.status = IF req[c].assigns THEN "ASSIGNED" ELSE "IN_PROGRESS"])
    /\ UNCHANGED <<planVars, pinned, requests, order, checklist, workflow, acted, occurrence, excused>>

\* Variant: the occurrence is left to the scheduler.
LeaveOccurrence(c) ==
    /\ At(c, "completeOccurrence")
    /\ Next(c, "saveActed")
    /\ UNCHANGED <<planVars, pinned, requests, order, checklist, workflow, acted, occurrence, excused>>

CompleteOccurrence(c) ==
    /\ At(c, "completeOccurrence")
    /\ occurrence' = "completed"
    /\ Next(c, "saveActed")
    /\ UNCHANGED <<planVars, pinned, requests, order, checklist, workflow, acted, excused>>

SaveActed(c) ==
    /\ At(c, "saveActed")
    /\ Save(c, req[c].mine)
    /\ Goto(c, Idle)
    /\ UNCHANGED <<planVars, pinned, requests, checklist, workflow, acted, occurrence>>

\* The instance may also be acted on by itself, through the workflow's own endpoint.
ActOnInstance(c) ==
    /\ workflow = "running" /\ At(c, "idle") /\ requests < MaxRequests
    /\ workflow' \in {"running", "completed"}
    /\ acted' = TRUE
    /\ requests' = requests + 1
    /\ Excuse(IF workflow' = "completed" THEN {"direct"} ELSE {})
    /\ UNCHANGED <<planVars, pinned, order, checklist, occurrence, req>>

-----------------------------------------------------------------------------
(* addUpdate with a progress above zero *)

ProgressStatus == IF order.status = "ASSIGNED" THEN "IN_PROGRESS" ELSE order.status

AddUpdate(c) == BeginOn(c, "save", [order EXCEPT !.status = ProgressStatus])

SaveProgress(c) ==
    /\ At(c, "save")
    /\ Save(c, req[c].mine)
    /\ Goto(c, Idle)
    /\ UNCHANGED <<planVars, pinned, requests, checklist, workflow, acted, occurrence>>

\* A crash, or a refusal: what was committed before it stays.
GiveUp(c) ==
    /\ ~At(c, "idle")
    /\ Goto(c, Idle)
    /\ Excuse(IF req[c].at \in {"start", "bind", "outcome", "completeOccurrence", "saveActed", "finishOccurrence"}
              THEN {"crash"} ELSE {})
    /\ UNCHANGED <<planVars, pinned, requests, order, checklist, workflow, acted, occurrence>>

OrderNext(c) ==
    \/ \E status \in Statuses, user \in Users \cup {NoUser} :
          \/ \E number \in Numbers \cup {None} : Create(c, status, user, number)
          \/ Update(c, status, user)
    \/ ReadSteps(c) \/ Insert(c) \/ StartInstance(c) \/ Bind(c)
    \/ SaveUpdate(c) \/ FinishOccurrence(c)
    \/ \E assigns \in BOOLEAN : Act(c, assigns)
    \/ TakeAction(c) \/ Retry(c) \/ ReadOutcome(c) \/ CompleteOccurrence(c) \/ SaveActed(c) \/ ActOnInstance(c)
    \/ AddUpdate(c) \/ SaveProgress(c) \/ GiveUp(c)

\* A caller has one request in progress.
OneRequest == \A c \in Callers : edit'[c].at = "idle" \/ req'[c].at = "idle"

Step ==
    \E c \in Callers :
       /\ \/ JobPlansNext(c) /\ UNCHANGED orderVars
          \/ OrderNext(c)
       /\ OneRequest

Spec == Init /\ [][Step]_vars

-----------------------------------------------------------------------------
(* Properties *)

Quiet == \A c \in Callers : At(c, "idle")

\* When the workflow of an order is completed, so are the order and its occurrence, once
\* its handlers are done, retries included: unless one of them died half way, wrote a row
\* that had changed since it was read, or the instance was completed by itself, through the
\* workflow's endpoint or by its automatic steps.
OrderFollowsWorkflow ==
    Quiet /\ workflow = "completed" /\ excused = {} =>
        order.status = "COMPLETED" /\ occurrence = "completed"

\* Whatever handlers overlap or crash, an occurrence is completed by its workflow only,
\* unless somebody set the status of an order that had no instance yet.
OccurrenceDoneByWorkflow ==
    occurrence = "completed" /\ "byHand" \notin excused => workflow = "completed"

\* An order does not lose its instance, unless its creation crashed or a stale row, read
\* before the instance was bound, is saved after it.
InstanceStaysBound ==
    Quiet /\ workflow # "none" /\ excused \cap {"crash", "stale"} = {} => order.bound

\* The steps behind a checklist are never replaced, whoever edits the plan meanwhile, even
\* if the order was made from a version that is still a draft.
ChecklistKeepsItsSteps ==
    checklist.version # None => version[checklist.version].steps = checklist.steps

\* The instance behind an order lives as the engine promises: it is started once, a closed
\* one is never opened again, and retries and late requests change nothing of it.  What
\* there is to do until it is closed counts as one task here.
Instance == INSTANCE WorkflowLifecycle WITH
    TaskIds <- {"work"},
    phase   <- CASE workflow = "none" -> "none" [] workflow = "running" -> "open" [] OTHER -> "closed",
    todo    <- IF workflow = "running" THEN {"work"} ELSE {},
    served  <- IF workflow = "completed" /\ acted THEN {"work"} ELSE {}

InstanceKeepsItsLifecycle == Instance!Spec

\* Order, occurrence and workflow instance end together and stay bound to each other, but
\* for what is excused.
OrdersFollowTheirWorkflow ==
    OrderFollowsWorkflow /\ OccurrenceDoneByWorkflow /\ InstanceStaysBound

\* The versions of a plan are in order, and the one an order was made from keeps its steps.
PlansAreSound == TypeOK /\ VersionsInOrder /\ ChecklistKeepsItsSteps

=============================================================================
