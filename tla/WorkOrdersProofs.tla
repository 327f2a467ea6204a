--------------------------- MODULE WorkOrdersProofs ---------------------------
(***************************************************************************)
(* Theorems about WorkOrders and the job plan below it, for any number of  *)
(* requests, versions and users; and about Stock, the materials booked on  *)
(* orders, for any number of callers, orders and bookings.                 *)
(***************************************************************************)
EXTENDS WorkOrders, Stock, WellFoundedInduction, TLAPS

(* The plan.  As long as no change crosses another, what an editor read is   *)
(* still what there is.                                                      *)

EditsKnowTheirVersion ==
  \A c \in Callers : edit[c].at \in {"draft", "publish"} => edit[c].number \in Numbers

\* create made the first version, and no version is ever unmade.
FirstIsMade == \A n \in Numbers : n = 1 => version[n].status # "none"

EditsAreCurrent ==
  ~crossed =>
     \A c \in Callers :
        /\ edit[c].at # "idle" => edit[c].plan = plan
        /\ edit[c].at = "draft" => edit[c].number = DraftNumber
        /\ edit[c].at = "publish" => Drafts # {} /\ edit[c].number = Max(Drafts)

\* The version of a checklist is pinned.
ChecklistIsPinned == checklist.version # None => checklist.version \in pinned

PlanInv ==
  /\ EditsKnowTheirVersion
  /\ FirstIsMade
  /\ EditsAreCurrent
  /\ VersionsInOrder
  /\ ChecklistIsPinned
  /\ ChecklistKeepsItsSteps

(* The order.  Every handler carries the row it read and the row it will      *)
(* save, and where it is says how they differ.                               *)

ByHand == "byHand" \in excused

\* A row that says an order is done is right, unless its status was set by hand.
Truthful(row) ==
  ByHand \/ (row.status # "CANCELLED" /\ (row.status = "COMPLETED" => workflow = "completed"))

Creating(c) == req[c].at \in {"steps", "insert", "start"}

Knows(r) ==
  /\ r.at = "idle" => r = Idle
  /\ r.at # "idle" => r.mine.there
  /\ r.at \in {"start", "bind", "act", "outcome"} => r.mine = r.read
  /\ r.at \in {"saveUpdate", "save", "completeOccurrence", "saveActed"} =>
        r.mine.bound = r.read.bound
  /\ r.at = "saveUpdate" => r.mine.status = r.read.status \/ ~r.read.bound
  /\ r.at = "finishOccurrence" => /\ r.mine.status \in Final
                                  /\ ByHand \/ r.mine.status = r.read.status
  /\ r.at = "save" => r.mine.status = IF r.read.status = "ASSIGNED" THEN "IN_PROGRESS"
                                      ELSE r.read.status
  /\ r.at = "completeOccurrence" => workflow = "completed" /\ r.mine.status = "COMPLETED"
  /\ r.at = "saveActed" => /\ r.mine.status # "CANCELLED"
                           /\ r.mine.status = "COMPLETED" => workflow = "completed"
                           /\ r.mine.status # "COMPLETED" =>
                                 ByHand \/ r.read.status # "COMPLETED"

HandlersKnow == \A c \in Callers : Knows(req[c])

RowsAreTruthful == Truthful(order) /\ \A c \in Callers : Truthful(req[c].read)

\* An order is created once, by a handler that is alone until its row is there, and the
\* instance is started once.
CreatedOnce ==
  /\ \A c, d \in Callers : Creating(c) /\ Creating(d) => c = d
  /\ \A c \in Callers : req[c].at \in {"steps", "insert"} => ~order.there
  /\ \A c \in Callers : req[c].at = "start" => workflow = "none"
  /\ \A c \in Callers : req[c].at = "bind" => workflow # "none"
  /\ ~order.there => workflow = "none" /\ \A c \in Callers : req[c].at \in {"idle", "steps", "insert"}

\* An instance that no order is bound to is about to be bound.
BoundOrBinding ==
  excused \cap {"crash", "stale"} = {} /\ workflow # "none" =>
     order.bound \/ \E c \in Callers : At(c, "bind")

\* What a completed workflow has not yet told its order and occurrence, a handler will.
CompletionOnItsWay ==
  excused = {} /\ workflow = "completed" =>
     \/ \E c \in Callers : req[c].at \in {"outcome", "completeOccurrence"}
     \/ /\ occurrence = "completed"
        /\ \/ order.status = "COMPLETED"
           \/ \E c \in Callers : At(c, "saveActed") /\ req[c].mine.status = "COMPLETED"

OrderInv ==
  /\ HandlersKnow
  /\ RowsAreTruthful
  /\ CreatedOnce
  /\ BoundOrBinding
  /\ CompletionOnItsWay
  /\ OccurrenceDoneByWorkflow

IInv == TypeOK /\ PlanInv /\ OrderInv

-----------------------------------------------------------------------------
(* The highest of a set of version numbers *)

LEMMA MaxIsHighest ==
  ASSUME NEW S \in SUBSET Numbers, S # {}
  PROVE  Max(S) \in S /\ \A m \in S : m <= Max(S)
<1> DEFINE T == {MaxVersions - n : n \in S}
<1>1. T \subseteq Nat /\ T # {}
  BY JobPlanBounds DEF Numbers
<1>2. PICK x \in T : \A y \in T : ~ (<<y, x>> \in OpToRel(<, Nat))
  <2>1. IsWellFoundedOn(OpToRel(<, Nat), Nat)
    BY NatLessThanWellFounded
  <2> QED BY <1>1, <2>1, WFMin
<1>3. \A y \in T : ~ (y < x)
  BY <1>1, <1>2 DEF OpToRel
<1>4. PICK n \in S : x = MaxVersions - n
  OBVIOUS
<1>5. \A m \in S : n >= m
  <2> SUFFICES ASSUME NEW m \in S PROVE n >= m
    OBVIOUS
  <2>1. ~ (MaxVersions - m < x)
    BY <1>3
  <2> QED BY <1>4, <2>1, JobPlanBounds DEF Numbers
<1>6. Max(S) \in S /\ \A m \in S : Max(S) >= m
  BY <1>5 DEF Max
<1> QED BY <1>6, JobPlanBounds DEF Numbers

LEMMA MaxIsThe ==
  ASSUME NEW S \in SUBSET Numbers, NEW n \in S, \A m \in S : m <= n
  PROVE  Max(S) = n
<1>1. Max(S) \in S /\ n <= Max(S) /\ Max(S) <= n
  BY MaxIsHighest
<1>2. Max(S) \in Numbers /\ n \in Numbers
  BY <1>1
<1>3. \A m \in Numbers : m \in Nat
  BY JobPlanBounds DEF Numbers
<1>4. Max(S) \in Nat /\ n \in Nat
  BY <1>2, <1>3
<1> QED BY <1>1, <1>4

-----------------------------------------------------------------------------
(* Rows *)

LEMMA VersionWritten ==
  ASSUME NEW v \in Version, NEW steps \in 0..MaxRequests,
         NEW status \in {"none", "draft", "published", "retired"}
  PROVE  /\ [status |-> status, steps |-> steps] \in Version
         /\ LET w == [v EXCEPT !.status = status] IN
               w \in Version /\ w.status = status /\ w.steps = v.steps
BY DEF Version

LEMMA EditWritten ==
  ASSUME NEW at \in {"idle", "draft", "publish", "archive"}, NEW p \in Plan,
         NEW n \in Numbers \cup {None}, NEW steps \in 0..MaxRequests
  PROVE  [at |-> at, plan |-> p, number |-> n, steps |-> steps] \in Edit
BY DEF Edit

LEMMA NoEditIsAnEdit == NoEdit \in Edit /\ NoEdit.at = "idle"
<1>1. NewPlan \in Plan
  BY DEF NewPlan, Plan
<1> QED BY <1>1, EditWritten, JobPlanBounds DEF NoEdit

LEMMA OrderWritten ==
  ASSUME NEW o \in Order, NEW status \in Statuses, NEW user \in Users \cup {NoUser}
  PROVE  /\ LET p == [o EXCEPT !.status = status] IN
               /\ p \in Order /\ p.status = status /\ p.there = o.there
               /\ p.bound = o.bound
         /\ LET p == [o EXCEPT !.status = status, !.assignee = user] IN
               /\ p \in Order /\ p.status = status /\ p.there = o.there
               /\ p.bound = o.bound
         /\ LET p == [o EXCEPT !.bound = TRUE] IN
               /\ p \in Order /\ p.status = o.status /\ p.there = o.there /\ p.bound
BY DEF Order

LEMMA IdleIsARequest == Idle \in Request /\ Idle.at = "idle" /\ Idle.read.status = "DRAFT"
<1>1. NoOrder \in Order /\ NoOrder.status = "DRAFT"
  BY DEF NoOrder, Order, Statuses
<1>2. NoList \in Checklist
  BY JobPlanBounds DEF NoList, Checklist
<1> QED BY <1>1, <1>2 DEF Idle, Request, Steps

LEMMA RequestMoved ==
  ASSUME NEW q \in Request, NEW at \in Steps
  PROVE  LET r == [q EXCEPT !.at = at] IN
            r \in Request /\ r.at = at /\ r.mine = q.mine /\ r.read = q.read /\ r.list = q.list
BY DEF Request

LEMMA RequestStep ==
  ASSUME TypeOK, NEW c \in Callers, NEW r \in Request, Goto(c, r)
  PROVE  /\ req' \in [Callers -> Request]
         /\ req'[c] = r /\ \A d \in Callers \ {c} : req'[d] = req[d]
BY DEF TypeOK, Goto

-----------------------------------------------------------------------------
LEMMA InitInv == Init => IInv
<1> SUFFICES ASSUME Init PROVE IInv
  OBVIOUS
<1> USE DEF Init
<1>1. JobPlansTypeOK
  <2>1. plan \in Plan
    BY DEF JobPlansInit, NewPlan, Plan
  <2>2. version \in [Numbers -> Version]
    BY JobPlanBounds DEF JobPlansInit, Version
  <2>3. crossed \in BOOLEAN
    BY Zenon DEF JobPlansInit
  <2>4. /\ pinned \subseteq Numbers /\ edit \in [Callers -> Edit]
        /\ requests \in 0..MaxRequests
    BY NoEditIsAnEdit, JobPlanBounds DEF JobPlansInit
  <2> QED BY <2>1, <2>2, <2>3, <2>4 DEF JobPlansTypeOK
<1>2. order \in Order /\ order.status = "DRAFT" /\ ~order.there
  BY DEF NoOrder, Order, Statuses
<1>3. checklist \in Checklist /\ checklist.version = None
  BY JobPlanBounds DEF NoList, Checklist
<1>4. TypeOK
  BY <1>1, <1>2, <1>3, IdleIsARequest DEF TypeOK
<1>5. \A c \in Callers : edit[c].at = "idle"
  BY NoEditIsAnEdit DEF JobPlansInit
<1>6. FirstIsMade
  BY DEF FirstIsMade, JobPlansInit
<1>7. VersionsInOrder
  BY DEF VersionsInOrder, JobPlansInit, NewPlan, None, Numbers
<1>8. PlanInv
  BY <1>3, <1>5, <1>6, <1>7
  DEF PlanInv, EditsKnowTheirVersion, EditsAreCurrent, ChecklistIsPinned, ChecklistKeepsItsSteps
<1>9. \A c \in Callers : req[c] = Idle
  OBVIOUS
<1>10. HandlersKnow /\ RowsAreTruthful /\ CreatedOnce
  BY <1>2, <1>9, IdleIsARequest
  DEF HandlersKnow, Knows, RowsAreTruthful, Truthful, CreatedOnce, Creating
<1>11. BoundOrBinding /\ CompletionOnItsWay /\ OccurrenceDoneByWorkflow
  BY DEF BoundOrBinding, CompletionOnItsWay, OccurrenceDoneByWorkflow
<1> QED BY <1>4, <1>8, <1>10, <1>11 DEF IInv, OrderInv

-----------------------------------------------------------------------------
(* Changes of the plan *)

LEMMA OrderUnchanged ==
  ASSUME OrderInv, UNCHANGED orderVars
  PROVE  OrderInv'
BY DEF OrderInv, orderVars, HandlersKnow, Knows, RowsAreTruthful, Truthful, ByHand, CreatedOnce, Creating,
       BoundOrBinding, CompletionOnItsWay, OccurrenceDoneByWorkflow, At

LEMMA BeginEditInv ==
  ASSUME IInv, NEW c \in Callers, NEW at \in {"draft", "publish", "archive"},
         NEW n \in Numbers \cup {None}, BeginEdit(c, at, n),
         at = "draft" => n = DraftNumber /\ n \in Numbers,
         at = "publish" => Drafts # {} /\ n = Max(Drafts) /\ n \in Numbers
  PROVE  JobPlansTypeOK' /\ (UNCHANGED checklist => PlanInv')
<1> DEFINE e == [at |-> at, plan |-> plan, number |-> n, steps |-> requests + 1]
<1>1. requests + 1 \in 0..MaxRequests
  BY JobPlanBounds DEF IInv, TypeOK, JobPlansTypeOK, BeginEdit
<1>2. e \in Edit
  BY <1>1, EditWritten DEF IInv, TypeOK, JobPlansTypeOK
<1>3. e.at = at /\ e.plan = plan /\ e.number = n
  OBVIOUS
<1>4. edit' = [edit EXCEPT ![c] = e] /\ UNCHANGED <<plan, version, pinned, crossed>>
  BY DEF BeginEdit
<1> HIDE DEF e
<1>5. /\ edit' \in [Callers -> Edit]
      /\ edit'[c] = e /\ \A d \in Callers \ {c} : edit'[d] = edit[d]
  BY <1>2, <1>4 DEF IInv, TypeOK, JobPlansTypeOK
<1>6. JobPlansTypeOK'
  BY <1>1, <1>4, <1>5 DEF IInv, TypeOK, JobPlansTypeOK, BeginEdit
<1>7. EditsKnowTheirVersion'
  BY <1>3, <1>5 DEF IInv, PlanInv, EditsKnowTheirVersion
<1>8. EditsAreCurrent'
  <2>1. Drafts' = Drafts /\ DraftNumber' = DraftNumber
    BY <1>4 DEF Drafts, DraftNumber, NextNumber, Made
  <2> QED BY <1>3, <1>4, <1>5, <2>1 DEF IInv, PlanInv, EditsAreCurrent
<1>9. FirstIsMade' /\ VersionsInOrder'
  BY <1>4 DEF IInv, PlanInv, FirstIsMade, VersionsInOrder
<1>10. UNCHANGED checklist => ChecklistIsPinned' /\ ChecklistKeepsItsSteps'
  BY <1>4 DEF IInv, PlanInv, ChecklistIsPinned, ChecklistKeepsItsSteps
<1> QED BY <1>6, <1>7, <1>8, <1>9, <1>10 DEF PlanInv

\* Whoever commits without crossing another is the only one with a change in progress.
LEMMA EndEditStep ==
  ASSUME IInv, NEW c \in Callers, EndEdit(c)
  PROVE  /\ edit' \in [Callers -> Edit] /\ crossed' \in BOOLEAN
         /\ pinned' = pinned /\ requests' = requests
         /\ EditsKnowTheirVersion' /\ EditsAreCurrent'
         /\ ~crossed' => ~crossed
<1>1. /\ edit' \in [Callers -> Edit]
      /\ edit'[c] = NoEdit /\ \A d \in Callers \ {c} : edit'[d] = edit[d]
  BY NoEditIsAnEdit DEF IInv, TypeOK, JobPlansTypeOK, EndEdit
<1>2. crossed' \in BOOLEAN
  BY Zenon DEF EndEdit
<1>3. ~crossed' => ~crossed /\ \A d \in Callers \ {c} : edit[d].at = "idle"
  BY DEF EndEdit, Editing
<1>4. EditsKnowTheirVersion'
  BY <1>1, NoEditIsAnEdit DEF IInv, PlanInv, EditsKnowTheirVersion
<1>5. EditsAreCurrent'
  BY <1>1, <1>3, NoEditIsAnEdit DEF EditsAreCurrent
<1> QED BY <1>1, <1>2, <1>3, <1>4, <1>5 DEF EndEdit

\* While versions are in order the next draft comes right after the current version.
LEMMA DraftsComeNext ==
  ASSUME TypeOK, FirstIsMade, VersionsInOrder, ~crossed
  PROVE  /\ plan.current \in Nat
         /\ Drafts # {} => Max(Drafts) = plan.current + 1
         /\ DraftNumber \in Numbers => DraftNumber = plan.current + 1
<1>1. plan.current \in Nat /\ plan.current <= MaxVersions
  BY JobPlanBounds DEF TypeOK, JobPlansTypeOK, Plan, Numbers, None
<1>2. \A n \in Numbers : /\ n \in Nat /\ n >= 1
                         /\ n < plan.current => version[n].status = "retired"
                         /\ n = plan.current => version[n].status = "published"
                         /\ n > plan.current + 1 => version[n].status = "none"
                         /\ n = plan.current + 1 => version[n].status \in {"none", "draft"}
  BY DEF VersionsInOrder, Numbers
<1>3. \A n \in Drafts : n \in Numbers /\ n = plan.current + 1
  BY <1>1, <1>2 DEF Drafts
<1>4. Drafts # {} => Max(Drafts) = plan.current + 1
  BY <1>1, <1>3, MaxIsHighest
<1>5. ASSUME Drafts = {}, DraftNumber \in Numbers
      PROVE  DraftNumber = plan.current + 1
  <2>1. CASE plan.current = 0
    <3>1. 1 \in Numbers
      BY <1>5, JobPlanBounds DEF Numbers
    <3>2. version[1].status = "draft"
      BY <1>2, <2>1, <3>1 DEF FirstIsMade
    <3> QED BY <1>5, <3>1, <3>2 DEF Drafts
  <2>2. CASE plan.current # 0
    <3>1. plan.current \in Numbers
      BY <1>1, <2>2, JobPlanBounds DEF Numbers
    <3>2. plan.current \in Made
      BY <1>2, <3>1 DEF Made
    <3>3. \A n \in Made : n \in Numbers /\ n <= plan.current
      BY <1>1, <1>2, <1>5 DEF Made, Drafts
    <3>4. Max(Made) = plan.current
      BY <3>2, <3>3, MaxIsThe
    <3> QED BY <1>5, <3>4 DEF DraftNumber, NextNumber
  <2> QED BY <2>1, <2>2
<1>6. Drafts # {} => DraftNumber = Max(Drafts)
  BY DEF DraftNumber
<1> QED BY <1>1, <1>4, <1>5, <1>6

\* A pinned version is not the one that is replaced.
LEMMA SaveDraftInv ==
  ASSUME IInv, NEW c \in Callers, SaveDraft(c), UNCHANGED checklist
  PROVE  JobPlansTypeOK' /\ PlanInv'
<1> DEFINE n == edit[c].number
           row == [status |-> "draft", steps |-> edit[c].steps]
<1>1. n \in Numbers /\ edit[c] \in Edit /\ edit[c].at = "draft"
  BY DEF IInv, TypeOK, JobPlansTypeOK, PlanInv, EditsKnowTheirVersion, SaveDraft, Editing
<1>2. row \in Version /\ row.status = "draft"
  BY <1>1 DEF Version, Edit
<1>3. version' = [version EXCEPT ![n] = row] /\ n \notin pinned /\ plan' = plan
  BY DEF SaveDraft, MayReplaceSteps
<1> HIDE DEF n, row
<1>4. /\ version' \in [Numbers -> Version]
      /\ version'[n] = row /\ \A m \in Numbers \ {n} : version'[m] = version[m]
  BY <1>1, <1>2, <1>3 DEF IInv, TypeOK, JobPlansTypeOK
<1>5. /\ edit' \in [Callers -> Edit] /\ crossed' \in BOOLEAN
      /\ pinned' = pinned /\ requests' = requests
      /\ EditsKnowTheirVersion' /\ EditsAreCurrent'
      /\ ~crossed' => ~crossed
  BY EndEditStep DEF SaveDraft
<1>6. JobPlansTypeOK'
  BY <1>3, <1>4, <1>5 DEF IInv, TypeOK, JobPlansTypeOK
<1>7. FirstIsMade'
  BY <1>2, <1>4 DEF IInv, PlanInv, FirstIsMade
<1>8. VersionsInOrder'
  <2> SUFFICES ASSUME ~crossed
               PROVE  \A m \in Numbers :
                         /\ m < plan.current => version'[m].status = "retired"
                         /\ m = plan.current => version'[m].status = "published"
                         /\ m > plan.current + 1 => version'[m].status = "none"
                         /\ m = plan.current + 1 => version'[m].status \in {"none", "draft"}
    BY <1>3, <1>5 DEF VersionsInOrder
  <2>1. n = plan.current + 1 /\ plan.current \in Nat
    BY <1>1, DraftsComeNext DEF IInv, PlanInv, EditsAreCurrent, n
  <2> QED BY <1>2, <1>4, <2>1 DEF IInv, PlanInv, VersionsInOrder, Numbers
<1>9. ChecklistIsPinned' /\ ChecklistKeepsItsSteps'
  <2>1. checklist.version # None => checklist.version \in Numbers \ {n}
    BY <1>3 DEF IInv, TypeOK, JobPlansTypeOK, PlanInv, ChecklistIsPinned
  <2> QED BY <1>4, <1>5, <2>1 DEF IInv, PlanInv, ChecklistIsPinned, ChecklistKeepsItsSteps
<1> QED BY <1>5, <1>6, <1>7, <1>8, <1>9 DEF PlanInv

LEMMA PublishInv ==
  ASSUME IInv, NEW c \in Callers, Publish(c), UNCHANGED checklist
  PROVE  JobPlansTypeOK' /\ PlanInv'
<1> DEFINE n == edit[c].number
           old == edit[c].plan.current
<1>1. n \in Numbers /\ edit[c].at = "publish"
  BY DEF IInv, PlanInv, EditsKnowTheirVersion, Publish, Editing
<1>2. version' = [Retired(old) EXCEPT ![n].status = "published"]
  BY DEF Publish
<1>3. plan' = [status |-> "published", current |-> n]
  BY DEF Publish
<1> HIDE DEF n, old
<1>4. plan' \in Plan /\ plan'.current = n
  BY <1>1, <1>3 DEF Plan
<1>5. \A m \in Numbers : version[m] \in Version
  BY DEF IInv, TypeOK, JobPlansTypeOK
<1>6. ASSUME NEW m \in Numbers
      PROVE  /\ version'[m] \in Version
             /\ version'[m].steps = version[m].steps
             /\ version'[m].status = IF m = n THEN "published"
                                     ELSE IF m = old /\ version[m].status = "published" THEN "retired"
                                     ELSE version[m].status
  <2>1. /\ Retired(old)[m] \in Version
        /\ Retired(old)[m].steps = version[m].steps
        /\ Retired(old)[m].status = IF m = old /\ version[m].status = "published" THEN "retired"
                                    ELSE version[m].status
    <3>1. CASE m = old /\ version[m].status = "published"
      <4>1. Retired(old)[m] = [version[m] EXCEPT !.status = "retired"]
        BY <3>1 DEF Retired
      <4> QED BY <1>5, <3>1, <4>1 DEF Version
    <3>2. CASE ~(m = old /\ version[m].status = "published")
      <4>1. Retired(old)[m] = version[m]
        BY <3>2 DEF Retired
      <4> QED BY <1>5, <3>2, <4>1
    <3> QED BY <3>1, <3>2
  <2>2. CASE m = n
    <3>1. version'[m] = [Retired(old)[m] EXCEPT !.status = "published"]
      BY <1>2, <2>2 DEF Retired
    <3> QED BY <2>1, <2>2, <3>1 DEF Version
  <2>3. CASE m # n
    <3>1. version'[m] = Retired(old)[m]
      BY <1>2, <2>3 DEF Retired
    <3> QED BY <2>1, <2>3, <3>1
  <2> QED BY <2>2, <2>3
<1>7. version' \in [Numbers -> Version]
  <2>1. version' = [m \in Numbers |-> version'[m]]
    BY <1>2 DEF Retired
  <2> QED BY <1>6, <2>1
<1>8. /\ edit' \in [Callers -> Edit] /\ crossed' \in BOOLEAN
      /\ pinned' = pinned /\ requests' = requests
      /\ EditsKnowTheirVersion' /\ EditsAreCurrent'
      /\ ~crossed' => ~crossed
  BY EndEditStep DEF Publish
<1>9. JobPlansTypeOK'
  BY <1>4, <1>7, <1>8 DEF IInv, TypeOK, JobPlansTypeOK
<1>10. FirstIsMade'
  BY <1>6 DEF IInv, PlanInv, FirstIsMade
<1>11. VersionsInOrder'
  <2> SUFFICES ASSUME ~crossed
               PROVE  \A m \in Numbers :
                         /\ m < n => version'[m].status = "retired"
                         /\ m = n => version'[m].status = "published"
                         /\ m > n + 1 => version'[m].status = "none"
                         /\ m = n + 1 => version'[m].status \in {"none", "draft"}
    BY <1>4, <1>8 DEF VersionsInOrder
  <2>1. edit[c].plan = plan /\ Drafts # {} /\ n = Max(Drafts)
    BY <1>1 DEF IInv, PlanInv, EditsAreCurrent, n
  <2>2. n = plan.current + 1 /\ plan.current \in Nat /\ old = plan.current
    BY <2>1, DraftsComeNext DEF IInv, PlanInv, old
  <2> QED BY <1>6, <2>2 DEF IInv, PlanInv, VersionsInOrder, Numbers
<1>12. ChecklistIsPinned' /\ ChecklistKeepsItsSteps'
  <2>1. checklist.version # None => checklist.version \in Numbers
    BY DEF IInv, TypeOK, JobPlansTypeOK, PlanInv, ChecklistIsPinned
  <2> QED BY <1>6, <1>8, <2>1 DEF IInv, PlanInv, ChecklistIsPinned, ChecklistKeepsItsSteps
<1> QED BY <1>8, <1>9, <1>10, <1>11, <1>12 DEF PlanInv

LEMMA ArchiveInv ==
  ASSUME IInv, NEW c \in Callers, Archive(c), UNCHANGED checklist
  PROVE  JobPlansTypeOK' /\ PlanInv'
<1>1. edit[c].plan \in Plan /\ edit[c].at = "archive"
  BY DEF IInv, TypeOK, JobPlansTypeOK, Edit, Archive, Editing
<1>2. plan' \in Plan /\ plan'.current = edit[c].plan.current /\ version' = version
  BY <1>1 DEF Archive, Plan
<1>3. /\ edit' \in [Callers -> Edit] /\ crossed' \in BOOLEAN
      /\ pinned' = pinned /\ requests' = requests
      /\ EditsKnowTheirVersion' /\ EditsAreCurrent'
      /\ ~crossed' => ~crossed
  BY EndEditStep DEF Archive
<1>4. JobPlansTypeOK'
  BY <1>2, <1>3 DEF IInv, TypeOK, JobPlansTypeOK
<1>5. VersionsInOrder'
  <2> SUFFICES ASSUME ~crossed PROVE VersionsInOrder'
    BY <1>3 DEF VersionsInOrder
  <2>1. edit[c].plan = plan
    BY <1>1 DEF IInv, PlanInv, EditsAreCurrent
  <2>2. plan'.current = plan.current
    BY <1>2, <2>1
  <2> QED BY <1>2, <2>2 DEF IInv, PlanInv, VersionsInOrder
<1>6. FirstIsMade' /\ ChecklistIsPinned' /\ ChecklistKeepsItsSteps'
  BY <1>2, <1>3 DEF IInv, PlanInv, FirstIsMade, ChecklistIsPinned, ChecklistKeepsItsSteps
<1> QED BY <1>3, <1>4, <1>5, <1>6 DEF PlanInv

LEMMA GiveUpEditInv ==
  ASSUME IInv, NEW c \in Callers, GiveUpEdit(c), UNCHANGED checklist
  PROVE  JobPlansTypeOK' /\ PlanInv'
<1>1. /\ edit' \in [Callers -> Edit]
      /\ edit'[c] = NoEdit /\ \A d \in Callers \ {c} : edit'[d] = edit[d]
      /\ UNCHANGED <<plan, version, pinned, requests, crossed>>
  BY NoEditIsAnEdit DEF IInv, TypeOK, JobPlansTypeOK, GiveUpEdit
<1>2. JobPlansTypeOK'
  BY <1>1 DEF IInv, TypeOK, JobPlansTypeOK
<1>3. EditsKnowTheirVersion'
  BY <1>1, NoEditIsAnEdit DEF IInv, PlanInv, EditsKnowTheirVersion
<1>4. EditsAreCurrent'
  <2>1. Drafts' = Drafts /\ DraftNumber' = DraftNumber
    BY <1>1 DEF Drafts, DraftNumber, NextNumber, Made
  <2> QED BY <1>1, <2>1, NoEditIsAnEdit DEF IInv, PlanInv, EditsAreCurrent
<1>5. FirstIsMade' /\ VersionsInOrder' /\ ChecklistIsPinned' /\ ChecklistKeepsItsSteps'
  BY <1>1 DEF IInv, PlanInv, FirstIsMade, VersionsInOrder, ChecklistIsPinned, ChecklistKeepsItsSteps
<1> QED BY <1>2, <1>3, <1>4, <1>5 DEF PlanInv

LEMMA JobPlansNextInv ==
  ASSUME IInv, NEW c \in Callers, JobPlansNext(c), UNCHANGED orderVars
  PROVE  IInv'
<1>1. UNCHANGED <<order, checklist, workflow, acted, occurrence, req, excused>>
  BY DEF orderVars
<1>2. JobPlansTypeOK' /\ PlanInv'
  <2>1. CASE ReadToSaveDraft(c)
    BY <1>1, <2>1, BeginEditInv DEF ReadToSaveDraft
  <2>2. CASE ReadToPublish(c)
    <3>1. Max(Drafts) \in Numbers
      BY <2>2, MaxIsHighest DEF ReadToPublish, Drafts
    <3> QED BY <1>1, <2>2, <3>1, BeginEditInv DEF ReadToPublish
  <2>3. CASE ReadToArchive(c)
    BY <1>1, <2>3, BeginEditInv DEF ReadToArchive
  <2>4. CASE SaveDraft(c) \/ Publish(c) \/ Archive(c) \/ GiveUpEdit(c)
    BY <1>1, <2>4, SaveDraftInv, PublishInv, ArchiveInv, GiveUpEditInv
  <2> QED BY <2>1, <2>2, <2>3, <2>4 DEF JobPlansNext
<1>3. TypeOK'
  BY <1>1, <1>2 DEF IInv, TypeOK
<1>4. OrderInv'
  BY OrderUnchanged DEF IInv
<1> QED BY <1>2, <1>3, <1>4 DEF IInv

-----------------------------------------------------------------------------
(* What a step of one handler leaves as it was *)

LEMMA TypeStays ==
  ASSUME TypeOK, acted' \in BOOLEAN, NEW c \in Callers, NEW r \in Request, Goto(c, r),
         UNCHANGED planVars, pinned' \subseteq Numbers, requests' \in 0..MaxRequests,
         order' \in Order, checklist' \in Checklist,
         workflow' \in {"none", "running", "completed"},
         occurrence' \in {"planned", "generated", "completed", "cancelled"},
         excused' \subseteq Excuses
  PROVE  TypeOK'
<1>1. JobPlansTypeOK'
  BY Zenon DEF TypeOK, JobPlansTypeOK, planVars
<1>2. req' \in [Callers -> Request]
  BY RequestStep
<1> QED BY <1>1, <1>2 DEF TypeOK

LEMMA PlanStays ==
  ASSUME PlanInv, UNCHANGED <<planVars, pinned, checklist>>
  PROVE  PlanInv'
<1>1. /\ EditsKnowTheirVersion' /\ FirstIsMade' /\ VersionsInOrder'
      /\ ChecklistIsPinned' /\ ChecklistKeepsItsSteps'
  BY DEF PlanInv, planVars, EditsKnowTheirVersion, FirstIsMade, VersionsInOrder, ChecklistIsPinned,
         ChecklistKeepsItsSteps
<1>2. EditsAreCurrent'
  <2>1. Drafts' = Drafts /\ DraftNumber' = DraftNumber
    BY DEF planVars, Drafts, DraftNumber, NextNumber, Made
  <2> QED BY <2>1 DEF PlanInv, planVars, EditsAreCurrent
<1> QED BY <1>1, <1>2 DEF PlanInv

\* A row that was right stays right: a completed workflow stays completed.
LEMMA TruthfulStays ==
  ASSUME NEW row, Truthful(row), excused \subseteq excused',
         workflow = "completed" => workflow' = "completed"
  PROVE  Truthful(row)'
BY DEF Truthful, ByHand

LEMMA KnowsStays ==
  ASSUME NEW r, Knows(r), excused \subseteq excused',
         workflow = "completed" => workflow' = "completed"
  PROVE  Knows(r)'
BY DEF Knows, ByHand

LEMMA OthersKnow ==
  ASSUME TypeOK, HandlersKnow, RowsAreTruthful, NEW c \in Callers, NEW r \in Request, Goto(c, r),
         excused \subseteq excused', workflow = "completed" => workflow' = "completed",
         Knows(r)', Truthful(r.read)', Truthful(order)'
  PROVE  HandlersKnow' /\ RowsAreTruthful'
<1>1. req'[c] = r /\ \A d \in Callers \ {c} : req'[d] = req[d]
  BY RequestStep
<1>2. ASSUME NEW d \in Callers
      PROVE  Knows(req[d])' /\ Truthful(req[d].read)'
  <2>1. CASE d = c
    BY <1>1, <2>1
  <2>2. CASE d # c
    <3>1. Knows(req[d]) /\ Truthful(req[d].read) /\ req'[d] = req[d]
      BY <1>1, <2>2 DEF HandlersKnow, RowsAreTruthful
    <3> QED BY <3>1, KnowsStays, TruthfulStays
  <2> QED BY <2>1, <2>2
<1> QED BY <1>2 DEF HandlersKnow, RowsAreTruthful

LEMMA CreatedStays ==
  ASSUME TypeOK, CreatedOnce, NEW c \in Callers, NEW r \in Request, Goto(c, r),
         r.at \in {"steps", "insert"} => ~order'.there,
         r.at \in {"steps", "insert", "start"} =>
            Creating(c) \/ \A d \in Callers \ {c} : req[d].at = "idle",
         r.at = "start" => workflow' = "none",
         r.at = "bind" => workflow' # "none",
         order'.there # order.there => order'.there /\ Creating(c),
         workflow' # workflow => workflow' # "none" /\ (workflow # "none" \/ Creating(c)),
         ~order'.there => workflow' = "none" /\ r.at \in {"idle", "steps", "insert"}
  PROVE  CreatedOnce'
<1>1. req'[c] = r /\ \A d \in Callers \ {c} : req'[d] = req[d]
  BY RequestStep
<1>2. ASSUME NEW d \in Callers, NEW e \in Callers, Creating(d)', Creating(e)'
      PROVE  d = e
  <2>1. \A f \in Callers \ {c} : Creating(f)' => Creating(f) /\ req[f].at # "idle"
    BY <1>1 DEF Creating
  <2>2. Creating(c)' => r.at \in {"steps", "insert", "start"}
    BY <1>1 DEF Creating
  <2>3. d # c /\ e # c => d = e
    BY <1>2, <2>1 DEF CreatedOnce
  <2>4. d = c /\ e # c => FALSE
    BY <1>2, <2>1, <2>2 DEF CreatedOnce
  <2>5. d # c /\ e = c => FALSE
    BY <1>2, <2>1, <2>2 DEF CreatedOnce
  <2> QED BY <2>3, <2>4, <2>5
<1>3. ASSUME NEW d \in Callers \ {c}
      PROVE  /\ req[d].at \in {"steps", "insert"} => ~order'.there
             /\ req[d].at = "start" => workflow' = "none"
             /\ req[d].at = "bind" => workflow' # "none"
  <2>1. Creating(d) => ~Creating(c)
    BY <1>3 DEF CreatedOnce
  <2> QED BY <1>3, <2>1 DEF CreatedOnce, Creating
<1>4. /\ \A d \in Callers : req'[d].at \in {"steps", "insert"} => ~order'.there
      /\ \A d \in Callers : req'[d].at = "start" => workflow' = "none"
      /\ \A d \in Callers : req'[d].at = "bind" => workflow' # "none"
  BY <1>1, <1>3
<1>5. ~order'.there => \A d \in Callers : req'[d].at \in {"idle", "steps", "insert"}
  <2>1. ~order'.there => ~order.there
    OBVIOUS
  <2> QED BY <1>1, <2>1 DEF CreatedOnce
<1>6. \A d, e \in Callers : Creating(d)' /\ Creating(e)' => d = e
  BY <1>2
<1> QED BY <1>4, <1>5, <1>6 DEF CreatedOnce

LEMMA BindingStays ==
  ASSUME TypeOK, BoundOrBinding, NEW c \in Callers, NEW r \in Request, Goto(c, r),
         excused \subseteq excused',
         excused' \cap {"crash", "stale"} = {} =>
            /\ order.bound \/ At(c, "bind") => order'.bound
            /\ workflow' # "none" => workflow # "none" \/ r.at = "bind"
  PROVE  BoundOrBinding'
<1>1. req'[c] = r /\ \A d \in Callers \ {c} : req'[d] = req[d]
  BY RequestStep
<1> SUFFICES ASSUME excused' \cap {"crash", "stale"} = {}, workflow' # "none"
             PROVE  order'.bound \/ \E d \in Callers : req'[d].at = "bind"
  BY DEF BoundOrBinding, At
<1>2. excused \cap {"crash", "stale"} = {}
  OBVIOUS
<1>3. CASE r.at = "bind"
  BY <1>1, <1>3
<1>4. CASE workflow # "none"
  <2>1. CASE order.bound
    BY <2>1
  <2>2. CASE \E d \in Callers : At(d, "bind")
    <3>1. PICK d \in Callers : At(d, "bind")
      BY <2>2
    <3>2. CASE d = c
      BY <3>1, <3>2
    <3>3. CASE d # c
      BY <1>1, <3>1, <3>3 DEF At
    <3> QED BY <3>2, <3>3
  <2> QED BY <1>2, <1>4, <2>1, <2>2 DEF BoundOrBinding
<1> QED BY <1>3, <1>4

LEMMA CompletionStays ==
  ASSUME TypeOK, CompletionOnItsWay, NEW c \in Callers, NEW r \in Request, Goto(c, r),
         excused \subseteq excused',
         excused' = {} /\ workflow' = "completed" =>
            \/ r.at \in {"outcome", "completeOccurrence"}
            \/ /\ workflow = "completed" /\ req[c].at # "outcome"
               /\ At(c, "completeOccurrence") =>
                     r.at = "saveActed" /\ r.mine.status = "COMPLETED" /\ occurrence' = "completed"
               /\ occurrence = "completed" => occurrence' = "completed"
               /\ order.status = "COMPLETED" \/ (At(c, "saveActed") /\ req[c].mine.status = "COMPLETED") =>
                     order'.status = "COMPLETED"
  PROVE  CompletionOnItsWay'
<1>1. req'[c] = r /\ \A d \in Callers \ {c} : req'[d] = req[d]
  BY RequestStep
<1> DEFINE Goal ==
             \/ \E d \in Callers : req'[d].at \in {"outcome", "completeOccurrence"}
             \/ /\ occurrence' = "completed"
                /\ \/ order'.status = "COMPLETED"
                   \/ \E d \in Callers : req'[d].at = "saveActed" /\ req'[d].mine.status = "COMPLETED"
<1> SUFFICES ASSUME excused' = {}, workflow' = "completed"
             PROVE  Goal
  BY DEF CompletionOnItsWay, At
<1>2. excused = {}
  OBVIOUS
<1>3. CASE r.at \in {"outcome", "completeOccurrence"}
  BY <1>1, <1>3
<1>4. CASE r.at \notin {"outcome", "completeOccurrence"}
  <2>1. workflow = "completed"
    BY <1>4
  <2>2. CASE \E d \in Callers : req[d].at \in {"outcome", "completeOccurrence"}
    <3>1. PICK d \in Callers : req[d].at \in {"outcome", "completeOccurrence"}
      BY <2>2
    <3>2. CASE d = c
      BY <1>1, <1>4, <3>1, <3>2 DEF At
    <3>3. CASE d # c
      BY <1>1, <3>1, <3>3
    <3> QED BY <3>2, <3>3
  <2>3. CASE occurrence = "completed" /\ order.status = "COMPLETED"
    BY <1>4, <2>3
  <2>4. CASE /\ occurrence = "completed"
             /\ \E d \in Callers : At(d, "saveActed") /\ req[d].mine.status = "COMPLETED"
    <3>1. PICK d \in Callers : At(d, "saveActed") /\ req[d].mine.status = "COMPLETED"
      BY <2>4
    <3>2. CASE d = c
      BY <1>4, <2>4, <3>1, <3>2
    <3>3. CASE d # c
      BY <1>1, <1>4, <2>4, <3>1, <3>3 DEF At
    <3> QED BY <3>2, <3>3
  <2> QED BY <1>2, <2>1, <2>2, <2>3, <2>4 DEF CompletionOnItsWay
<1> QED BY <1>3, <1>4

-----------------------------------------------------------------------------
(* Saving a row *)

\* While nothing is stale, the row that is saved differs from the one in the table only
\* by what its handler did to it.
LEMMA SaveInv ==
  ASSUME IInv, acted' \in BOOLEAN, NEW c \in Callers, NEW r \in Request, Goto(c, r),
         NEW row \in Order, order' = row,
         req[c].at \in {"bind", "saveUpdate", "save", "saveActed"},
         row.there = req[c].mine.there, row.status = req[c].mine.status,
         IF req[c].at = "bind" THEN row.bound ELSE row.bound = req[c].mine.bound,
         excused' \subseteq Excuses, excused \subseteq excused',
         order # req[c].read => "stale" \in excused',
         req[c].at = "saveUpdate" /\ ~req[c].read.bound /\ row.status # req[c].read.status =>
            "byHand" \in excused',
         \/ r = Idle
         \/ /\ req[c].at = "saveUpdate" /\ r.at = "finishOccurrence"
            /\ r.mine = req[c].mine /\ r.read = req[c].read /\ r.mine.status \in Final,
         UNCHANGED <<planVars, pinned, requests, checklist, workflow, occurrence>>
  PROVE  IInv'
<1>1. Knows(req[c]) /\ Truthful(req[c].read)
  BY DEF IInv, OrderInv, HandlersKnow, RowsAreTruthful
<1>2. row.there /\ order.there
  BY <1>1 DEF Knows, IInv, OrderInv, CreatedOnce
<1>3. TypeOK'
  <2>1. workflow' \in {"none", "running", "completed"} /\ checklist' \in Checklist
        /\ occurrence' \in {"planned", "generated", "completed", "cancelled"}
        /\ pinned' \subseteq Numbers /\ requests' \in 0..MaxRequests
    BY DEF IInv, TypeOK, JobPlansTypeOK
  <2> QED BY <2>1, TypeStays DEF IInv
<1>4. PlanInv'
  BY PlanStays DEF IInv
<1>5. req[c].at = "saveUpdate" => row.status = req[c].read.status \/ "byHand" \in excused'
  BY <1>1 DEF Knows
<1>6. Truthful(row)'
  <2>1. CASE req[c].at = "saveActed"
    BY <1>1, <2>1 DEF Knows, Truthful, ByHand
  <2>2. CASE req[c].at = "saveUpdate"
    BY <1>1, <1>5, <2>2 DEF Truthful, ByHand
  <2>3. CASE req[c].at \in {"bind", "save"}
    BY <1>1, <2>3 DEF Knows, Truthful, ByHand
  <2> QED BY <2>1, <2>2, <2>3
<1>7. Knows(r)' /\ Truthful(r.read)'
  <2>1. CASE r = Idle
    BY <2>1, IdleIsARequest DEF Knows, Truthful
  <2>2. CASE r # Idle
    <3>1. Truthful(r.read)'
      BY <1>1, <2>2, TruthfulStays
    <3>2. Knows(r)'
      BY <1>1, <1>5, <2>2 DEF Knows, ByHand
    <3> QED BY <3>1, <3>2
  <2> QED BY <2>1, <2>2
<1>8. HandlersKnow' /\ RowsAreTruthful'
  <2>1. Truthful(order)'
    BY <1>6 DEF Truthful, ByHand
  <2> QED BY <1>7, <2>1, OthersKnow DEF IInv, OrderInv
<1>9. r.at \in {"idle", "finishOccurrence"}
  BY IdleIsARequest
<1>10. CreatedOnce'
  BY <1>2, <1>9, CreatedStays DEF IInv, OrderInv
<1>11. BoundOrBinding'
  <2>1. "stale" \notin excused' => order = req[c].read
    OBVIOUS
  <2>2. order = req[c].read /\ order.bound => row.bound
    BY <1>1 DEF Knows
  <2>3. At(c, "bind") => row.bound
    BY DEF At
  <2> QED BY <2>1, <2>2, <2>3, BindingStays DEF IInv, OrderInv
<1>12. CompletionOnItsWay'
  <2>1. excused' = {} => order = req[c].read /\ excused = {}
    OBVIOUS
  <2>2. excused' = {} /\ req[c].read.status = "COMPLETED" => row.status = "COMPLETED"
    BY <1>1, <1>5, <2>1 DEF Knows, ByHand
  <2>3. At(c, "saveActed") /\ req[c].mine.status = "COMPLETED" => row.status = "COMPLETED"
    OBVIOUS
  <2>4. ~At(c, "completeOccurrence") /\ req[c].at # "outcome"
    BY DEF At
  <2> QED BY <2>1, <2>2, <2>3, <2>4, CompletionStays DEF IInv, OrderInv
<1>13. OccurrenceDoneByWorkflow'
  BY DEF IInv, OrderInv, OccurrenceDoneByWorkflow
<1> QED BY <1>3, <1>4, <1>8, <1>10, <1>11, <1>12, <1>13 DEF IInv, OrderInv

LEMMA BindInv ==
  ASSUME IInv, acted' \in BOOLEAN, NEW c \in Callers, Bind(c)
  PROVE  IInv'
<1>1. req[c] \in Request /\ req[c].at = "bind"
  BY DEF IInv, TypeOK, Bind, At
<1> DEFINE row == [req[c].mine EXCEPT !.bound = TRUE]
<1>2. req[c].mine \in Order /\ req[c].mine.status \in Statuses
  BY <1>1 DEF Request, Order
<1>3. row \in Order /\ row.status = req[c].mine.status /\ row.there = req[c].mine.there /\ row.bound
  BY <1>2, OrderWritten DEF Order
<1>4. order' = row /\ Goto(c, Idle)
  BY DEF Bind, Save
<1> HIDE DEF row
<1>5. /\ excused' \subseteq Excuses /\ excused \subseteq excused'
      /\ order # req[c].read => "stale" \in excused'
  BY DEF Bind, Save, Excuse, IInv, TypeOK, Excuses
<1>6. UNCHANGED <<planVars, pinned, requests, checklist, workflow, occurrence>>
  BY DEF Bind
<1> QED BY <1>1, <1>3, <1>4, <1>5, <1>6, SaveInv, IdleIsARequest

LEMMA SaveMineInv ==
  ASSUME IInv, acted' \in BOOLEAN, NEW c \in Callers, SaveProgress(c) \/ SaveActed(c)
  PROVE  IInv'
<1>1. req[c] \in Request /\ req[c].at \in {"save", "saveActed"}
  BY DEF IInv, TypeOK, SaveProgress, SaveActed, At
<1>2. req[c].mine \in Order
  BY <1>1 DEF Request
<1>3. order' = req[c].mine /\ Goto(c, Idle)
  BY DEF SaveProgress, SaveActed, Save
<1>4. /\ excused' \subseteq Excuses /\ excused \subseteq excused'
      /\ order # req[c].read => "stale" \in excused'
  BY DEF SaveProgress, SaveActed, Save, Excuse, IInv, TypeOK, Excuses
<1>5. UNCHANGED <<planVars, pinned, requests, checklist, workflow, occurrence>>
  BY DEF SaveProgress, SaveActed
<1> QED BY <1>1, <1>2, <1>3, <1>4, <1>5, SaveInv, IdleIsARequest

LEMMA SaveUpdateInv ==
  ASSUME IInv, acted' \in BOOLEAN, NEW c \in Callers, SaveUpdate(c)
  PROVE  IInv'
<1>1. req[c] \in Request /\ req[c].at = "saveUpdate"
  BY DEF IInv, TypeOK, SaveUpdate, At
<1>2. req[c].mine \in Order /\ order' = req[c].mine
  BY <1>1 DEF Request, SaveUpdate
<1>3. /\ excused' \subseteq Excuses /\ excused \subseteq excused'
      /\ order # req[c].read => "stale" \in excused'
      /\ ~req[c].read.bound /\ req[c].mine.status # req[c].read.status => "byHand" \in excused'
  BY DEF SaveUpdate, Excuse, IInv, TypeOK, Excuses
<1>4. UNCHANGED <<planVars, pinned, requests, checklist, workflow, occurrence>>
  BY DEF SaveUpdate
<1>5. CASE req[c].mine.status \notin Final
  <2>1. Goto(c, Idle)
    BY <1>5 DEF SaveUpdate
  <2> QED BY <1>1, <1>2, <1>3, <1>4, <2>1, SaveInv, IdleIsARequest
<1>6. CASE req[c].mine.status \in Final
  <2> DEFINE r == [req[c] EXCEPT !.at = "finishOccurrence"]
  <2>1. r \in Request /\ r.at = "finishOccurrence" /\ r.mine = req[c].mine /\ r.read = req[c].read
    BY <1>1, RequestMoved DEF Steps
  <2>2. Goto(c, r)
    BY <1>6 DEF SaveUpdate, Next
  <2> HIDE DEF r
  <2> QED BY <1>1, <1>2, <1>3, <1>4, <1>6, <2>1, <2>2, SaveInv
<1> QED BY <1>5, <1>6

-----------------------------------------------------------------------------
(* Steps that leave the row alone *)

LEMMA MoveInv ==
  ASSUME IInv, acted' \in BOOLEAN, NEW c \in Callers, NEW r \in Request, Goto(c, r),
         UNCHANGED <<planVars, pinned, order, checklist>>, requests' \in 0..MaxRequests,
         workflow' \in {"none", "running", "completed"},
         occurrence' \in {"planned", "generated", "completed", "cancelled"},
         excused' \subseteq Excuses, excused \subseteq excused',
         workflow = "completed" => workflow' = "completed",
         Knows(r)', Truthful(r.read)',
         CreatedOnce', BoundOrBinding', CompletionOnItsWay', OccurrenceDoneByWorkflow'
  PROVE  IInv'
<1>1. TypeOK'
  <2>1. pinned' \subseteq Numbers /\ order' \in Order /\ checklist' \in Checklist
    BY DEF IInv, TypeOK, JobPlansTypeOK
  <2> QED BY <2>1, TypeStays DEF IInv
<1>2. PlanInv'
  BY PlanStays DEF IInv
<1>3. Truthful(order)'
  <2>1. Truthful(order) /\ order' = order
    BY DEF IInv, OrderInv, RowsAreTruthful
  <2> QED BY <2>1, TruthfulStays
<1>4. HandlersKnow' /\ RowsAreTruthful'
  BY <1>3, OthersKnow DEF IInv, OrderInv
<1> QED BY <1>1, <1>2, <1>4 DEF IInv, OrderInv

LEMMA BeginInv ==
  ASSUME IInv, acted' \in BOOLEAN, NEW c \in Callers, NEW r \in Request,
         Begin(c, r), Knows(r), Truthful(r.read),
         \/ order.there /\ r.at \in {"act", "save", "saveUpdate"}
         \/ ~order.there /\ r.at = "steps" /\ \A d \in Callers : req[d].at = "idle"
  PROVE  IInv'
<1>1. /\ At(c, "idle") /\ Goto(c, r)
      /\ UNCHANGED <<planVars, pinned, order, checklist, workflow, occurrence, excused>>
  BY DEF Begin
<1>2. requests' \in 0..MaxRequests
  BY JobPlanBounds DEF Begin, IInv, TypeOK, JobPlansTypeOK
<1>3. /\ workflow' \in {"none", "running", "completed"}
      /\ occurrence' \in {"planned", "generated", "completed", "cancelled"}
      /\ excused' \subseteq Excuses
  BY <1>1 DEF IInv, TypeOK
<1>4. Knows(r)' /\ Truthful(r.read)'
  BY <1>1, KnowsStays, TruthfulStays
<1>5. CreatedOnce'
  <2>1. ~order'.there => workflow' = "none" /\ r.at \in {"idle", "steps", "insert"}
    BY <1>1 DEF IInv, OrderInv, CreatedOnce
  <2> QED BY <1>1, <2>1, CreatedStays DEF IInv, OrderInv
<1>6. BoundOrBinding'
  BY <1>1, BindingStays DEF IInv, OrderInv, At
<1>7. CompletionOnItsWay'
  BY <1>1, CompletionStays DEF IInv, OrderInv, At
<1>8. OccurrenceDoneByWorkflow'
  BY <1>1 DEF IInv, OrderInv, OccurrenceDoneByWorkflow
<1> QED BY <1>1, <1>2, <1>3, <1>4, <1>5, <1>6, <1>7, <1>8, MoveInv

LEMMA UpdateInv ==
  ASSUME IInv, acted' \in BOOLEAN, NEW c \in Callers,
         NEW status \in Statuses, NEW user \in Users \cup {NoUser},
         Update(c, status, user)
  PROVE  IInv'
<1> DEFINE mine == [order EXCEPT !.status = status, !.assignee = NewAssignee(user)]
           r == [Idle EXCEPT !.at = "saveUpdate", !.mine = mine, !.read = order]
<1>1. order \in Order /\ order.there /\ Truthful(order) /\ (status = order.status \/ ~order.bound)
  BY DEF IInv, TypeOK, OrderInv, RowsAreTruthful, Update, BeginOn, SettableStatus
<1>2. NewAssignee(user) \in Users \cup {NoUser}
  BY <1>1 DEF NewAssignee, Order
<1>3. mine \in Order /\ mine.status = status /\ mine.there = order.there /\ mine.bound = order.bound
  BY <1>1, <1>2 DEF Order
<1>4. Begin(c, r)
  BY DEF Update, BeginOn
<1> HIDE DEF mine
<1>5. r \in Request /\ r.at = "saveUpdate" /\ r.mine = mine /\ r.read = order
  <2>1. Idle \in Request /\ "saveUpdate" \in Steps
    BY IdleIsARequest DEF Steps
  <2> QED BY <1>1, <1>3, <2>1 DEF Request
<1> HIDE DEF r
<1>6. Knows(r) /\ Truthful(r.read)
  BY <1>1, <1>3, <1>5 DEF Knows
<1> QED BY <1>1, <1>4, <1>5, <1>6, BeginInv

LEMMA AddUpdateInv ==
  ASSUME IInv, acted' \in BOOLEAN, NEW c \in Callers, AddUpdate(c)
  PROVE  IInv'
<1> DEFINE mine == [order EXCEPT !.status = ProgressStatus]
           r == [Idle EXCEPT !.at = "save", !.mine = mine, !.read = order]
<1>1. order \in Order /\ order.there /\ Truthful(order) /\ NoUser \in Users \cup {NoUser}
  BY DEF IInv, TypeOK, OrderInv, RowsAreTruthful, AddUpdate, BeginOn
<1>2. ProgressStatus \in Statuses
  BY <1>1 DEF ProgressStatus, Order, Statuses
<1>3. /\ mine \in Order /\ mine.there = order.there /\ mine.bound = order.bound
      /\ mine.status = IF order.status = "ASSIGNED" THEN "IN_PROGRESS" ELSE order.status
  BY <1>1, <1>2, OrderWritten DEF ProgressStatus
<1>4. Begin(c, r)
  BY DEF AddUpdate, BeginOn
<1> HIDE DEF mine
<1>5. r \in Request /\ r.at = "save" /\ r.mine = mine /\ r.read = order
  <2>1. Idle \in Request /\ "save" \in Steps
    BY IdleIsARequest DEF Steps
  <2> QED BY <1>1, <1>3, <2>1 DEF Request
<1> HIDE DEF r
<1>6. Knows(r) /\ Truthful(r.read)
  BY <1>1, <1>3, <1>5 DEF Knows
<1> QED BY <1>1, <1>4, <1>5, <1>6, BeginInv

LEMMA ActInv ==
  ASSUME IInv, acted' \in BOOLEAN, NEW c \in Callers, NEW assigns \in BOOLEAN, Act(c, assigns)
  PROVE  IInv'
<1> DEFINE r == [Idle EXCEPT !.at = "act", !.mine = order, !.read = order, !.assigns = assigns]
<1>1. order \in Order /\ order.there /\ Truthful(order)
  BY DEF IInv, TypeOK, OrderInv, RowsAreTruthful, Act
<1>2. Begin(c, r)
  BY DEF Act
<1>3. r \in Request /\ r.at = "act" /\ r.mine = order /\ r.read = order
  <2>1. Idle \in Request /\ "act" \in Steps
    BY IdleIsARequest DEF Steps
  <2> QED BY <1>1, <2>1 DEF Request
<1> HIDE DEF r
<1>4. Knows(r) /\ Truthful(r.read)
  BY <1>1, <1>3 DEF Knows
<1> QED BY <1>1, <1>2, <1>3, <1>4, BeginInv

LEMMA CreateInv ==
  ASSUME IInv, acted' \in BOOLEAN, NEW c \in Callers,
         NEW status \in Statuses, NEW user \in Users \cup {NoUser},
         NEW number \in Numbers \cup {None}, Create(c, status, user, number)
  PROVE  IInv'
<1> DEFINE mine == [there |-> TRUE, assignee |-> user, bound |-> FALSE,
                    status |-> IF user # NoUser THEN "ASSIGNED" ELSE status]
           r == [Idle EXCEPT !.at = "steps", !.list.version = number, !.mine = mine]
<1>1. mine \in Order /\ mine.there
  BY DEF Order, Statuses
<1>2. Begin(c, r) /\ ~order.there /\ \A d \in Callers : req[d].at = "idle"
  BY DEF Create
<1> HIDE DEF mine
<1>3. r \in Request /\ r.at = "steps" /\ r.mine = mine /\ r.read = Idle.read
  <2>1. Idle \in Request
    BY IdleIsARequest
  <2> QED BY <1>1, <2>1 DEF Request, Steps, Checklist
<1> HIDE DEF r
<1>4. Knows(r) /\ Truthful(r.read)
  BY <1>1, <1>3, IdleIsARequest DEF Knows, Truthful
<1> QED BY <1>2, <1>3, <1>4, BeginInv

LEMMA ReadStepsInv ==
  ASSUME IInv, acted' \in BOOLEAN, NEW c \in Callers, ReadSteps(c)
  PROVE  IInv'
<1> DEFINE n == req[c].list.version
           steps == IF n = None THEN 0 ELSE version[n].steps
           q == [req[c] EXCEPT !.at = "insert", !.list.steps = steps]
<1>1. /\ req[c] \in Request /\ req[c].at = "steps" /\ Goto(c, q)
      /\ UNCHANGED <<planVars, pinned, requests, order, checklist, workflow, occurrence, excused>>
  BY DEF IInv, TypeOK, ReadSteps, At
<1>2. steps \in 0..MaxRequests
  <2>1. n \in Numbers \cup {None}
    BY <1>1 DEF Request, Checklist
  <2> QED BY <2>1, JobPlanBounds DEF IInv, TypeOK, JobPlansTypeOK, Version
<1> HIDE DEF steps, n
<1>3. PICK r \in Request : /\ Goto(c, r) /\ r.at = "insert"
                           /\ r.mine = req[c].mine /\ r.read = req[c].read
  <2>1. "insert" \in Steps
    BY DEF Steps
  <2>2. q \in Request /\ q.at = "insert" /\ q.mine = req[c].mine /\ q.read = req[c].read
    BY <1>1, <1>2, <2>1 DEF Request, Checklist
  <2> HIDE DEF q
  <2> QED BY <1>1, <2>2
<1>4. /\ requests' \in 0..MaxRequests /\ workflow' \in {"none", "running", "completed"}
      /\ occurrence' \in {"planned", "generated", "completed", "cancelled"}
      /\ excused' \subseteq Excuses
  BY <1>1 DEF IInv, TypeOK, JobPlansTypeOK
<1>5. Knows(r)' /\ Truthful(r.read)'
  <2>1. Knows(req[c]) /\ Truthful(req[c].read)
    BY DEF IInv, OrderInv, HandlersKnow, RowsAreTruthful
  <2>2. Knows(r) /\ Truthful(r.read)
    BY <1>1, <1>3, <2>1 DEF Knows
  <2> QED BY <1>1, <2>2, KnowsStays, TruthfulStays
<1>6. Creating(c) /\ ~order.there /\ workflow = "none"
  BY <1>1 DEF IInv, OrderInv, CreatedOnce, Creating
<1>7. CreatedOnce'
  BY <1>1, <1>3, <1>6, CreatedStays DEF IInv, OrderInv
<1>8. BoundOrBinding'
  BY <1>1, <1>3, BindingStays DEF IInv, OrderInv, At
<1>9. CompletionOnItsWay'
  BY <1>1, <1>3, <1>6, CompletionStays DEF IInv, OrderInv
<1>10. OccurrenceDoneByWorkflow'
  BY <1>1 DEF IInv, OrderInv, OccurrenceDoneByWorkflow
<1> QED BY <1>1, <1>3, <1>4, <1>5, <1>7, <1>8, <1>9, <1>10, MoveInv

LEMMA StartInstanceInv ==
  ASSUME IInv, acted' \in BOOLEAN, NEW c \in Callers, StartInstance(c)
  PROVE  IInv'
<1> DEFINE q == [req[c] EXCEPT !.at = "bind"]
<1>1. /\ req[c] \in Request /\ req[c].at = "start" /\ Goto(c, q)
      /\ workflow' \in {"running", "completed"} /\ excused \subseteq excused'
      /\ excused' \subseteq Excuses /\ (workflow' = "completed" => excused' # {})
      /\ UNCHANGED <<planVars, pinned, requests, order, checklist, occurrence>>
  BY DEF IInv, TypeOK, StartInstance, At, Next, Excuse, Excuses
<1>2. PICK r \in Request : /\ Goto(c, r) /\ r.at = "bind"
                           /\ r.mine = req[c].mine /\ r.read = req[c].read
  <2>1. q \in Request /\ q.at = "bind" /\ q.mine = req[c].mine /\ q.read = req[c].read
    BY <1>1, RequestMoved DEF Steps
  <2> HIDE DEF q
  <2> QED BY <1>1, <2>1
<1>3. /\ requests' \in 0..MaxRequests
      /\ occurrence' \in {"planned", "generated", "completed", "cancelled"}
  BY <1>1 DEF IInv, TypeOK, JobPlansTypeOK
<1>4. Creating(c) /\ order.there /\ workflow = "none"
  BY <1>1 DEF IInv, OrderInv, CreatedOnce, Creating
<1>5. Knows(r)' /\ Truthful(r.read)'
  <2>1. Knows(req[c]) /\ Truthful(req[c].read)
    BY DEF IInv, OrderInv, HandlersKnow, RowsAreTruthful
  <2> QED BY <1>1, <1>2, <1>4, <2>1, TruthfulStays DEF Knows
<1>6. CreatedOnce'
  BY <1>1, <1>2, <1>4, CreatedStays DEF IInv, OrderInv
<1>7. BoundOrBinding'
  BY <1>1, <1>2, BindingStays DEF IInv, OrderInv, At
<1>8. CompletionOnItsWay'
  BY <1>1, <1>2, CompletionStays DEF IInv, OrderInv
<1>9. OccurrenceDoneByWorkflow'
  BY <1>1, <1>4 DEF IInv, OrderInv, OccurrenceDoneByWorkflow
<1> QED BY <1>1, <1>2, <1>3, <1>4, <1>5, <1>6, <1>7, <1>8, <1>9, MoveInv

LEMMA FinishOccurrenceInv ==
  ASSUME IInv, acted' \in BOOLEAN, NEW c \in Callers, FinishOccurrence(c)
  PROVE  IInv'
<1>1. /\ req[c].at = "finishOccurrence" /\ Goto(c, Idle)
      /\ occurrence' = IF req[c].mine.status = "CANCELLED" THEN "cancelled" ELSE "completed"
      /\ UNCHANGED <<planVars, pinned, requests, order, checklist, workflow, excused>>
  BY DEF FinishOccurrence, At
<1>2. /\ requests' \in 0..MaxRequests /\ workflow' \in {"none", "running", "completed"}
      /\ excused' \subseteq Excuses
  BY <1>1 DEF IInv, TypeOK, JobPlansTypeOK
<1>3. Knows(Idle)' /\ Truthful(Idle.read)'
  BY IdleIsARequest DEF Knows, Truthful
<1>4. ByHand \/ (occurrence' = "completed" /\ workflow = "completed")
  <2>1. Knows(req[c]) /\ Truthful(req[c].read)
    BY DEF IInv, OrderInv, HandlersKnow, RowsAreTruthful
  <2> QED BY <1>1, <2>1 DEF Knows, Truthful, Final
<1>5. CreatedOnce'
  <2>1. ~(~order.there)
    BY <1>1 DEF IInv, OrderInv, CreatedOnce
  <2> QED BY <1>1, <2>1, CreatedStays, IdleIsARequest DEF IInv, OrderInv
<1>6. BoundOrBinding'
  BY <1>1, BindingStays, IdleIsARequest DEF IInv, OrderInv, At
<1>7. CompletionOnItsWay'
  BY <1>1, <1>4, CompletionStays, IdleIsARequest DEF IInv, OrderInv, At, ByHand
<1>8. OccurrenceDoneByWorkflow'
  BY <1>1, <1>4 DEF OccurrenceDoneByWorkflow, ByHand
<1> QED BY <1>1, <1>2, <1>3, <1>5, <1>6, <1>7, <1>8, MoveInv, IdleIsARequest

LEMMA CompleteOccurrenceInv ==
  ASSUME IInv, acted' \in BOOLEAN, NEW c \in Callers, CompleteOccurrence(c)
  PROVE  IInv'
<1> DEFINE q == [req[c] EXCEPT !.at = "saveActed"]
<1>1. /\ req[c] \in Request /\ req[c].at = "completeOccurrence" /\ Goto(c, q)
      /\ occurrence' = "completed"
      /\ UNCHANGED <<planVars, pinned, requests, order, checklist, workflow, excused>>
  BY DEF IInv, TypeOK, CompleteOccurrence, At, Next
<1>2. PICK r \in Request : /\ Goto(c, r) /\ r.at = "saveActed"
                           /\ r.mine = req[c].mine /\ r.read = req[c].read
  <2>1. q \in Request /\ q.at = "saveActed" /\ q.mine = req[c].mine /\ q.read = req[c].read
    BY <1>1, RequestMoved DEF Steps
  <2> HIDE DEF q
  <2> QED BY <1>1, <2>1
<1>3. /\ requests' \in 0..MaxRequests /\ workflow' \in {"none", "running", "completed"}
      /\ excused' \subseteq Excuses
  BY <1>1 DEF IInv, TypeOK, JobPlansTypeOK
<1>4. Knows(req[c]) /\ Truthful(req[c].read)
  BY DEF IInv, OrderInv, HandlersKnow, RowsAreTruthful
<1>5. workflow = "completed" /\ r.mine.status = "COMPLETED" /\ order.there
  <2>1. order.there
    BY <1>1 DEF IInv, OrderInv, CreatedOnce
  <2> QED BY <1>1, <1>2, <1>4, <2>1 DEF Knows
<1>6. Knows(r)' /\ Truthful(r.read)'
  BY <1>1, <1>2, <1>4, <1>5, TruthfulStays DEF Knows
<1>7. CreatedOnce'
  BY <1>1, <1>2, <1>5, CreatedStays DEF IInv, OrderInv
<1>8. BoundOrBinding'
  BY <1>1, <1>2, BindingStays DEF IInv, OrderInv, At
<1>9. CompletionOnItsWay'
  BY <1>1, <1>2, <1>5, CompletionStays DEF IInv, OrderInv, At
<1>10. OccurrenceDoneByWorkflow'
  BY <1>1, <1>5 DEF OccurrenceDoneByWorkflow
<1> QED BY <1>1, <1>2, <1>3, <1>6, <1>7, <1>8, <1>9, <1>10, MoveInv

\* The first row of an order: nobody else is at work on it.
LEMMA InsertInv ==
  ASSUME IInv, acted' \in BOOLEAN, NEW c \in Callers, Insert(c)
  PROVE  IInv'
<1> DEFINE n == req[c].list.version
           q == [req[c] EXCEPT !.at = "start", !.read = req[c].mine]
<1>1. /\ req[c] \in Request /\ req[c].at = "insert" /\ Goto(c, q)
      /\ n # None => version[n].steps = req[c].list.steps
      /\ pinned' = pinned \cup ({n} \ {None})
      /\ order' = req[c].mine /\ checklist' = req[c].list /\ occurrence' = "generated"
      /\ excused' = excused \cup (IF req[c].mine.status \in Final THEN {"byHand"} ELSE {})
      /\ UNCHANGED <<planVars, requests, workflow>>
  BY DEF IInv, TypeOK, Insert, At, Excuse
<1>2. req[c].mine \in Order /\ req[c].list \in Checklist /\ n \in Numbers \cup {None}
  BY <1>1 DEF Request, Checklist
<1>3. PICK r \in Request : /\ Goto(c, r) /\ r.at = "start"
                           /\ r.mine = req[c].mine /\ r.read = req[c].mine
  <2>1. "start" \in Steps
    BY DEF Steps
  <2>2. q \in Request /\ q.at = "start" /\ q.mine = req[c].mine /\ q.read = req[c].mine
    BY <1>1, <1>2, <2>1 DEF Request
  <2> HIDE DEF q
  <2> QED BY <1>1, <2>2
<1>4. TypeOK'
  <2>1. /\ pinned' \subseteq Numbers /\ requests' \in 0..MaxRequests
        /\ workflow' \in {"none", "running", "completed"}
        /\ occurrence' \in {"planned", "generated", "completed", "cancelled"}
        /\ excused' \subseteq Excuses
    BY <1>1, <1>2 DEF IInv, TypeOK, JobPlansTypeOK, Excuses
  <2>2. UNCHANGED planVars /\ order' \in Order /\ checklist' \in Checklist
    BY <1>1, <1>2
  <2> QED BY <1>3, <2>1, <2>2, TypeStays DEF IInv
<1>5. PlanInv'
  <2>1. ChecklistIsPinned' /\ ChecklistKeepsItsSteps'
    BY <1>1 DEF ChecklistIsPinned, ChecklistKeepsItsSteps, planVars
  <2>2. EditsAreCurrent'
    <3>1. Drafts' = Drafts /\ DraftNumber' = DraftNumber
      BY <1>1 DEF planVars, Drafts, DraftNumber, NextNumber, Made
    <3> QED BY <1>1, <3>1 DEF IInv, PlanInv, planVars, EditsAreCurrent
  <2>3. EditsKnowTheirVersion' /\ FirstIsMade' /\ VersionsInOrder'
    BY <1>1 DEF IInv, PlanInv, planVars, EditsKnowTheirVersion, FirstIsMade, VersionsInOrder
  <2> QED BY <2>1, <2>2, <2>3 DEF PlanInv
<1>6. Creating(c) /\ ~order.there /\ workflow = "none"
  BY <1>1 DEF IInv, OrderInv, CreatedOnce, Creating
<1>7. req[c].mine.there
  BY <1>1 DEF IInv, OrderInv, HandlersKnow, Knows
<1>8. ByHand' \/ req[c].mine.status \notin Final
  BY <1>1 DEF ByHand
<1>9. Knows(r)' /\ Truthful(r.read)' /\ Truthful(order)'
  BY <1>1, <1>3, <1>7, <1>8 DEF Knows, Truthful, Final
<1>10. HandlersKnow' /\ RowsAreTruthful'
  BY <1>1, <1>3, <1>9, OthersKnow DEF IInv, OrderInv
<1>11. CreatedOnce'
  BY <1>1, <1>3, <1>6, <1>7, CreatedStays DEF IInv, OrderInv
<1>12. BoundOrBinding' /\ CompletionOnItsWay' /\ OccurrenceDoneByWorkflow'
  BY <1>1, <1>6 DEF BoundOrBinding, CompletionOnItsWay, OccurrenceDoneByWorkflow
<1> QED BY <1>4, <1>5, <1>10, <1>11, <1>12 DEF IInv, OrderInv

\* The handler waits for the outcome, whatever it is: nothing is settled yet.
LEMMA TakeActionInv ==
  ASSUME IInv, acted' \in BOOLEAN, NEW c \in Callers, TakeAction(c) \/ Retry(c)
  PROVE  IInv'
<1> DEFINE q == [req[c] EXCEPT !.at = "outcome"]
<1>1. /\ req[c] \in Request /\ req[c].at = "act" /\ Goto(c, q)
      /\ workflow' # workflow => workflow = "running" /\ workflow' = "completed"
      /\ workflow' \in {"none", "running", "completed"}
      /\ UNCHANGED <<planVars, pinned, requests, order, checklist, occurrence, excused>>
  BY DEF IInv, TypeOK, TakeAction, Retry, At, Next
<1>2. PICK r \in Request : /\ Goto(c, r) /\ r.at = "outcome"
                           /\ r.mine = req[c].mine /\ r.read = req[c].read
  <2>1. q \in Request /\ q.at = "outcome" /\ q.mine = req[c].mine /\ q.read = req[c].read
    BY <1>1, RequestMoved DEF Steps
  <2> HIDE DEF q
  <2> QED BY <1>1, <2>1
<1>3. /\ requests' \in 0..MaxRequests
      /\ occurrence' \in {"planned", "generated", "completed", "cancelled"}
      /\ excused' \subseteq Excuses
  BY <1>1 DEF IInv, TypeOK, JobPlansTypeOK
<1>4. order.there
  BY <1>1 DEF IInv, OrderInv, CreatedOnce
<1>5. Knows(r)' /\ Truthful(r.read)'
  <2>1. Knows(req[c]) /\ Truthful(req[c].read)
    BY DEF IInv, OrderInv, HandlersKnow, RowsAreTruthful
  <2> QED BY <1>1, <1>2, <2>1, TruthfulStays DEF Knows
<1>6. CreatedOnce'
  BY <1>1, <1>2, <1>4, CreatedStays DEF IInv, OrderInv
<1>7. BoundOrBinding'
  BY <1>1, <1>2, BindingStays DEF IInv, OrderInv, At
<1>8. CompletionOnItsWay'
  BY <1>1, <1>2, CompletionStays DEF IInv, OrderInv
<1>9. OccurrenceDoneByWorkflow'
  BY <1>1 DEF IInv, OrderInv, OccurrenceDoneByWorkflow
<1> QED BY <1>1, <1>2, <1>3, <1>5, <1>6, <1>7, <1>8, <1>9, MoveInv

\* A workflow that is not completed now was not when the row was read.
LEMMA ReadOutcomeInv ==
  ASSUME IInv, acted' \in BOOLEAN, NEW c \in Callers, ReadOutcome(c)
  PROVE  IInv'
<1>1. /\ req[c] \in Request /\ req[c].at = "outcome"
      /\ UNCHANGED <<planVars, pinned, requests, order, checklist, workflow, occurrence, excused>>
  BY DEF IInv, TypeOK, ReadOutcome, At
<1>2. Knows(req[c]) /\ Truthful(req[c].read)
  BY DEF IInv, OrderInv, HandlersKnow, RowsAreTruthful
<1>3. req[c].mine \in Order /\ req[c].mine.there /\ req[c].mine = req[c].read
  BY <1>1, <1>2 DEF Request, Knows
<1>4. PICK r \in Request :
        /\ Goto(c, r) /\ r.mine.there /\ r.mine.bound = r.read.bound /\ r.read = req[c].read
        /\ \/ /\ workflow = "completed" /\ r.at = "completeOccurrence"
              /\ r.mine.status = "COMPLETED"
           \/ /\ workflow # "completed" /\ r.at = "saveActed"
              /\ r.mine.status \in {"ASSIGNED", "IN_PROGRESS"}
  <2> DEFINE q(at, status) == [req[c] EXCEPT !.at = at, !.mine.status = status]
  <2>1. ASSUME NEW at \in Steps, NEW status \in Statuses
        PROVE  /\ q(at, status) \in Request /\ q(at, status).at = at
               /\ q(at, status).mine.status = status /\ q(at, status).mine.there
               /\ q(at, status).mine.bound = q(at, status).read.bound
               /\ q(at, status).read = req[c].read
    <3>1. [req[c].mine EXCEPT !.status = status] \in Order
      BY <1>3 DEF Order
    <3> QED BY <1>1, <1>3, <3>1 DEF Request, Order
  <2>2. /\ {"completeOccurrence", "saveActed"} \subseteq Steps
        /\ {"ASSIGNED", "IN_PROGRESS", "COMPLETED"} \subseteq Statuses
    BY DEF Steps, Statuses
  <2>3. \/ /\ workflow = "completed" /\ Goto(c, q("completeOccurrence", "COMPLETED"))
        \/ /\ workflow # "completed"
           /\ Goto(c, q("saveActed", IF req[c].assigns THEN "ASSIGNED" ELSE "IN_PROGRESS"))
    BY DEF ReadOutcome
  <2> HIDE DEF q
  <2>4. CASE workflow = "completed" /\ Goto(c, q("completeOccurrence", "COMPLETED"))
    BY <2>1, <2>2, <2>4
  <2>5. CASE workflow # "completed"
             /\ Goto(c, q("saveActed", IF req[c].assigns THEN "ASSIGNED" ELSE "IN_PROGRESS"))
    BY <2>1, <2>2, <2>5
  <2> QED BY <2>3, <2>4, <2>5
<1>5. /\ requests' \in 0..MaxRequests /\ workflow' \in {"none", "running", "completed"}
      /\ occurrence' \in {"planned", "generated", "completed", "cancelled"}
      /\ excused' \subseteq Excuses
  BY <1>1 DEF IInv, TypeOK, JobPlansTypeOK
<1>6. Knows(r)' /\ Truthful(r.read)'
  BY <1>1, <1>2, <1>4 DEF Knows, Truthful, ByHand
<1>7. CreatedOnce'
  <2>1. order.there
    BY <1>1 DEF IInv, OrderInv, CreatedOnce
  <2> QED BY <1>1, <1>4, <2>1, CreatedStays DEF IInv, OrderInv
<1>8. BoundOrBinding'
  BY <1>1, <1>4, BindingStays DEF IInv, OrderInv, At
<1>9. CompletionOnItsWay'
  BY <1>1, <1>4, CompletionStays DEF IInv, OrderInv
<1>10. OccurrenceDoneByWorkflow'
  BY <1>1 DEF IInv, OrderInv, OccurrenceDoneByWorkflow
<1> QED BY <1>1, <1>4, <1>5, <1>6, <1>7, <1>8, <1>9, <1>10, MoveInv

LEMMA ActOnInstanceInv ==
  ASSUME IInv, acted' \in BOOLEAN, NEW c \in Callers, ActOnInstance(c)
  PROVE  IInv'
<1>1. /\ workflow = "running" /\ workflow' \in {"running", "completed"} /\ req[c].at = "idle"
      /\ excused \subseteq excused' /\ excused' \subseteq excused \cup {"direct"}
      /\ workflow' = "completed" => excused' # {}
      /\ UNCHANGED <<planVars, pinned, order, checklist, occurrence, req>>
  BY DEF ActOnInstance, Excuse, At
<1>2. requests' \in 0..MaxRequests /\ excused' \subseteq Excuses
      /\ occurrence' \in {"planned", "generated", "completed", "cancelled"}
  BY <1>1, JobPlanBounds DEF ActOnInstance, IInv, TypeOK, JobPlansTypeOK, Excuses
<1>3. req[c] = Idle /\ Goto(c, Idle)
  BY <1>1 DEF IInv, TypeOK, OrderInv, HandlersKnow, Knows, Goto
<1>4. Knows(Idle)' /\ Truthful(Idle.read)'
  BY IdleIsARequest DEF Knows, Truthful
<1>5. CreatedOnce'
  <2>1. order.there
    BY <1>1 DEF IInv, OrderInv, CreatedOnce
  <2> QED BY <1>1, <1>3, <2>1, CreatedStays, IdleIsARequest DEF IInv, OrderInv
<1>6. BoundOrBinding'
  BY <1>1, <1>3, BindingStays, IdleIsARequest DEF IInv, OrderInv, At
<1>7. CompletionOnItsWay' /\ OccurrenceDoneByWorkflow'
  BY <1>1 DEF IInv, OrderInv, CompletionOnItsWay, OccurrenceDoneByWorkflow
<1> QED BY <1>1, <1>2, <1>3, <1>4, <1>5, <1>6, <1>7, MoveInv, IdleIsARequest

LEMMA GiveUpInv ==
  ASSUME IInv, acted' \in BOOLEAN, NEW c \in Callers, GiveUp(c)
  PROVE  IInv'
<1>1. /\ req[c].at # "idle" /\ Goto(c, Idle) /\ excused \subseteq excused'
      /\ excused' \subseteq excused \cup {"crash"}
      /\ req[c].at \in {"start", "bind", "outcome", "completeOccurrence", "saveActed",
                        "finishOccurrence"} => "crash" \in excused'
      /\ UNCHANGED <<planVars, pinned, requests, order, checklist, workflow, occurrence>>
  BY DEF GiveUp, Excuse, At
<1>2. /\ requests' \in 0..MaxRequests /\ workflow' \in {"none", "running", "completed"}
      /\ occurrence' \in {"planned", "generated", "completed", "cancelled"}
      /\ excused' \subseteq Excuses
  BY <1>1 DEF IInv, TypeOK, JobPlansTypeOK, Excuses
<1>3. Knows(Idle)' /\ Truthful(Idle.read)'
  BY IdleIsARequest DEF Knows, Truthful
<1>4. CreatedOnce'
  <2>1. ~order'.there => workflow' = "none"
    BY <1>1 DEF IInv, OrderInv, CreatedOnce
  <2> QED BY <1>1, <2>1, CreatedStays, IdleIsARequest DEF IInv, OrderInv
<1>5. BoundOrBinding'
  BY <1>1, BindingStays, IdleIsARequest DEF IInv, OrderInv, At
<1>6. CompletionOnItsWay'
  BY <1>1, CompletionStays, IdleIsARequest DEF IInv, OrderInv, At
<1>7. OccurrenceDoneByWorkflow'
  BY <1>1 DEF IInv, OrderInv, OccurrenceDoneByWorkflow
<1> QED BY <1>1, <1>2, <1>3, <1>4, <1>5, <1>6, <1>7, MoveInv, IdleIsARequest

-----------------------------------------------------------------------------
\* An action on the instance is taken once it runs; a new instance may be completed at once.
LEMMA InstanceMoves ==
  ASSUME NEW c \in Callers, OrderNext(c)
  PROVE  \/ UNCHANGED <<workflow, acted>>
         \/ At(c, "start") /\ workflow' \in {"running", "completed"} /\ UNCHANGED acted
         \/ workflow = "running" /\ workflow' \in {"running", "completed"} /\ acted' = TRUE
<1>1. CASE \/ \E status \in Statuses, user \in Users \cup {NoUser} :
                \/ \E number \in Numbers \cup {None} : Create(c, status, user, number)
                \/ Update(c, status, user)
           \/ \E assigns \in BOOLEAN : Act(c, assigns)
           \/ AddUpdate(c)
  BY <1>1, Zenon DEF Create, Update, Act, AddUpdate, BeginOn, Begin
<1>2. CASE ReadSteps(c) \/ Insert(c) \/ Bind(c) \/ SaveUpdate(c) \/ FinishOccurrence(c) \/ Retry(c)
           \/ ReadOutcome(c) \/ CompleteOccurrence(c) \/ SaveActed(c) \/ SaveProgress(c) \/ GiveUp(c)
  BY <1>2, Zenon DEF ReadSteps, Insert, Bind, SaveUpdate, FinishOccurrence, Retry, ReadOutcome,
                     CompleteOccurrence, SaveActed, SaveProgress, GiveUp
<1>3. CASE StartInstance(c)
  BY <1>3, Zenon DEF StartInstance
<1>4. CASE TakeAction(c) \/ ActOnInstance(c)
  BY <1>4, Zenon DEF TakeAction, ActOnInstance
<1> QED BY <1>1, <1>2, <1>3, <1>4 DEF OrderNext

LEMMA OrderNextInv ==
  ASSUME IInv, NEW c \in Callers, OrderNext(c)
  PROVE  IInv'
<1>0. acted' \in BOOLEAN
  <2>1. acted \in BOOLEAN
    BY DEF IInv, TypeOK
  <2> QED BY <2>1, InstanceMoves, Zenon
<1>1. CASE \E status \in Statuses, user \in Users \cup {NoUser}, number \in Numbers \cup {None} :
              Create(c, status, user, number)
  BY <1>0, <1>1, CreateInv
<1>2. CASE \E status \in Statuses, user \in Users \cup {NoUser} : Update(c, status, user)
  BY <1>0, <1>2, UpdateInv
<1>3. CASE ReadSteps(c) \/ Insert(c) \/ StartInstance(c) \/ Bind(c)
  BY <1>0, <1>3, ReadStepsInv, InsertInv, StartInstanceInv, BindInv
<1>4. CASE SaveUpdate(c) \/ FinishOccurrence(c)
  BY <1>0, <1>4, SaveUpdateInv, FinishOccurrenceInv
<1>5. CASE \E assigns \in BOOLEAN : Act(c, assigns)
  BY <1>0, <1>5, ActInv
<1>6. CASE \/ TakeAction(c) \/ Retry(c) \/ ReadOutcome(c)
           \/ CompleteOccurrence(c) \/ SaveActed(c) \/ ActOnInstance(c)
  BY <1>0, <1>6, TakeActionInv, ReadOutcomeInv, CompleteOccurrenceInv, SaveMineInv, ActOnInstanceInv
<1>7. CASE AddUpdate(c) \/ SaveProgress(c) \/ GiveUp(c)
  BY <1>0, <1>7, AddUpdateInv, SaveMineInv, GiveUpInv
<1> QED BY <1>1, <1>2, <1>3, <1>4, <1>5, <1>6, <1>7 DEF OrderNext

LEMMA StutterInv ==
  ASSUME IInv, UNCHANGED vars
  PROVE  IInv'
<1>1. OrderInv' /\ PlanInv'
  BY OrderUnchanged, PlanStays DEF vars, orderVars, IInv
<1>2. TypeOK'
  BY Zenon DEF vars, orderVars, planVars, IInv, TypeOK, JobPlansTypeOK
<1> QED BY <1>1, <1>2 DEF IInv

LEMMA NextInv == IInv /\ [Step]_vars => IInv'
<1>1. ASSUME IInv, Step PROVE IInv'
  <2>1. PICK c \in Callers : (JobPlansNext(c) /\ UNCHANGED orderVars) \/ OrderNext(c)
    BY <1>1 DEF Step
  <2> QED BY <1>1, <2>1, JobPlansNextInv, OrderNextInv
<1> QED BY <1>1, StutterInv

LEMMA Inductive == Spec => []IInv
BY InitInv, NextInv, PTL DEF Spec

-----------------------------------------------------------------------------
\* When no handler is at work any more, a completed workflow has its order and its
\* occurrence completed and its order bound to it, unless a handler crashed half way, saved
\* over a change it had not seen or the instance was acted on by itself; and, however the
\* handlers overlap or crash, no occurrence is completed before its workflow unless a status
\* was set by hand.
THEOREM CompletionReachesOrderAndOccurrence == Spec => []OrdersFollowTheirWorkflow
<1>1. IInv => OrdersFollowTheirWorkflow
  <2> SUFFICES ASSUME IInv PROVE OrdersFollowTheirWorkflow
    OBVIOUS
  <2>1. OccurrenceDoneByWorkflow
    BY DEF IInv, OrderInv
  <2>2. OrderFollowsWorkflow
    BY DEF OrderFollowsWorkflow, Quiet, At, IInv, OrderInv, CompletionOnItsWay
  <2>3. InstanceStaysBound
    BY DEF InstanceStaysBound, Quiet, At, IInv, OrderInv, BoundOrBinding
  <2> QED BY <2>1, <2>2, <2>3 DEF OrdersFollowTheirWorkflow
<1> QED BY <1>1, Inductive, PTL

\* Drafts, publications and archivings that do not cross each other keep the versions of a
\* plan in order, and no change of the plan, crossed or not, replaces the steps of a version
\* that a checklist was made from.
THEOREM ChecklistsOutliveTheirPlan == Spec => []PlansAreSound
<1>1. IInv => PlansAreSound
  BY DEF IInv, PlanInv, PlansAreSound
<1> QED BY <1>1, Inductive, PTL

-----------------------------------------------------------------------------
(* The instance behind an order *)

\* Nothing is done on an instance before it is started.
ActedOnStarted == workflow = "none" => acted = FALSE

LEMMA InstanceStep ==
  ASSUME IInv, ActedOnStarted, [Step]_vars
  PROVE  ActedOnStarted' /\ [Instance!Next]_Instance!vars
<1>1. CASE UNCHANGED <<workflow, acted>>
  BY <1>1 DEF ActedOnStarted, Instance!vars
<1>2. CASE workflow = "none" /\ workflow' \in {"running", "completed"} /\ UNCHANGED acted
  <2>1. Instance!Start
    BY <1>2 DEF ActedOnStarted, Instance!Start, Instance!Settle
  <2> QED BY <1>2, <2>1 DEF ActedOnStarted, Instance!Next
<1>3. CASE workflow = "running" /\ workflow' = "running"
  BY <1>3 DEF ActedOnStarted, Instance!vars
<1>4. CASE workflow = "running" /\ workflow' = "completed" /\ acted' = TRUE
  <2>1. Instance!Serve("work")
    BY <1>4 DEF Instance!Serve, Instance!Settle
  <2> QED BY <1>4, <2>1 DEF ActedOnStarted, Instance!Next
<1>5. CASE UNCHANGED vars
  BY <1>1, <1>5 DEF vars, orderVars
<1>6. CASE Step
  <2>1. PICK c \in Callers : (JobPlansNext(c) /\ UNCHANGED orderVars) \/ OrderNext(c)
    BY <1>6 DEF Step
  <2>2. UNCHANGED orderVars => UNCHANGED <<workflow, acted>>
    BY DEF orderVars
  <2>3. At(c, "start") => workflow = "none"
    BY DEF At, IInv, OrderInv, CreatedOnce
  <2> QED BY <1>1, <1>2, <1>3, <1>4, <2>1, <2>2, <2>3, InstanceMoves
<1> QED BY <1>5, <1>6

\* What performWorkflowAction, a retry of it with the same idempotency key, a late request
\* and the workflow's own endpoint do between them to the instance of an order is what the
\* engine promises of an instance: started once, never changed once it is closed.
THEOREM OrdersKeepTheLifecycle == Spec => InstanceKeepsItsLifecycle
<1>1. Init => ActedOnStarted /\ Instance!Init
  BY DEF Init, ActedOnStarted, Instance!Init
<1> QED BY <1>1, Inductive, InstanceStep, PTL DEF Spec, InstanceKeepsItsLifecycle, Instance!Spec

-----------------------------------------------------------------------------
(* The materials booked on orders.  None of the three invariants is           *)
(* inductive.  A return that has found its row and read the stock must still  *)
(* mean what it found when it writes; and no row may be booked on an item     *)
(* that was never in stock, or a return would credit the ledger and not the   *)
(* stock.                                                                     *)

\* What removeMaterial saw is a stock level, and a booked item has a row.
ReadsAreLevels == \A c \in Returners : returns[c] # NoRow => Quantity(returns[c].seen) >= 0
BookedMeansStocked == \A o \in Orders : booked[o] # NoRow => stock # NoRow

StockInv ==
  /\ StockTypeOK
  /\ StockIsTheLedger
  /\ OrdersPayForTheirRows
  /\ NeverOverdrawn
  /\ ReadsAreLevels
  /\ BookedMeansStocked

LEMMA StockInitInv == StockInit => StockInv
<1>1. SUFFICES ASSUME StockInit PROVE StockInv
  OBVIOUS
<1>2. StockTypeOK
  <2>1. stock \in Int \union {NoRow} /\ ledger \in Int
    BY <1>1 DEF StockInit
  <2>5. staleReturn \in BOOLEAN
    BY <1>1, Zenon DEF StockInit
  <2>2. created \in [Orders -> Nat] /\ charged \in [Orders -> Int]
    BY <1>1 DEF StockInit
  <2>3. booked \in [Orders -> Booking \union {NoRow}]
    BY <1>1 DEF StockInit
  <2>4. returns \in [Returners -> Return \union {NoRow}]
    BY <1>1 DEF StockInit
  <2>6. QED BY <2>1, <2>2, <2>3, <2>4, <2>5 DEF StockTypeOK
<1>3. StockIsTheLedger /\ OrdersPayForTheirRows /\ NeverOverdrawn
  BY <1>1 DEF StockInit, StockIsTheLedger, OrdersPayForTheirRows, BookedOn, NeverOverdrawn, Quantity
<1>4. ReadsAreLevels /\ BookedMeansStocked
  BY <1>1 DEF StockInit, ReadsAreLevels, BookedMeansStocked
<1>5. QED BY <1>2, <1>3, <1>4 DEF StockInv

\* The row addMaterial saves is a booking of that much more.
LEMMA BookingGrows ==
  ASSUME StockTypeOK, NEW o \in Orders, NEW q \in Nat
  PROVE  /\ RowWith(o, q) \in Booking
         /\ RowWith(o, q).quantity = BookedOn(o) + q
<1>1. created[o] \in Nat /\ booked[o] \in Booking \union {NoRow}
  BY DEF StockTypeOK
<1>2. CASE booked[o] = NoRow
  BY <1>1, <1>2 DEF RowWith, Booking, BookedOn
<1>3. CASE booked[o] # NoRow
  BY <1>1, <1>3 DEF RowWith, Booking, BookedOn
<1>4. QED BY <1>2, <1>3

LEMMA StockStep == StockInv /\ [StockNext]_stockVars => StockInv'
<1>1. SUFFICES ASSUME StockInv, [StockNext]_stockVars PROVE StockInv'
  OBVIOUS
<1>2. StockTypeOK /\ StockIsTheLedger /\ OrdersPayForTheirRows /\ NeverOverdrawn
        /\ ReadsAreLevels /\ BookedMeansStocked
  BY <1>1 DEF StockInv
<1>3. ASSUME NEW q \in Quantities, Import(q) PROVE StockInv'
  <2>1. q \in Nat \ {0} BY QuantityAssumption
  <2>2. stock' # NoRow /\ stock' \in Int
    BY <1>2, <1>3, <2>1, NullAssumption DEF Import, StockTypeOK, Quantity
  <2>3. QED
    BY <1>2, <1>3, <2>1, <2>2, NullAssumption
    DEF Import, StockInv, StockTypeOK, StockIsTheLedger, OrdersPayForTheirRows, BookedOn,
        NeverOverdrawn, ReadsAreLevels, BookedMeansStocked, Quantity
<1>4. ASSUME NEW q \in Quantities, Export(q) PROVE StockInv'
  <2>1. q \in Nat \ {0} BY QuantityAssumption
  <2>2. stock' # NoRow /\ stock' \in Int
    BY <1>2, <1>4, <2>1, NullAssumption DEF Export, StockTypeOK, Quantity
  <2>3. QED
    BY <1>2, <1>4, <2>1, <2>2, NullAssumption
    DEF Export, StockInv, StockTypeOK, StockIsTheLedger, OrdersPayForTheirRows, BookedOn,
        NeverOverdrawn, ReadsAreLevels, BookedMeansStocked, Quantity
<1>5. ASSUME NEW q \in Quantities, NEW o \in Orders, AddMaterial(o, q) PROVE StockInv'
  <2>1. q \in Nat \ {0} BY QuantityAssumption
  <2>2. stock \in Int /\ stock' = stock - q /\ stock' \in Int /\ stock' # NoRow /\ stock' >= 0
    BY <1>2, <1>5, <2>1, NullAssumption DEF AddMaterial, StockTypeOK
  <2>3. RowWith(o, q) \in Booking /\ RowWith(o, q).quantity = BookedOn(o) + q
    BY <1>2, <2>1, BookingGrows
  <2>4. RowWith(o, q) # NoRow
    BY <2>3, NullAssumption
  <2>5. \A p \in Orders : BookedOn(p)' = IF p = o THEN BookedOn(o) + q ELSE BookedOn(p)
    BY <1>2, <1>5, <2>3, <2>4 DEF AddMaterial, BookedOn, StockTypeOK
  <2>6. StockTypeOK'
    <3>1. booked' \in [Orders -> Booking \union {NoRow}]
      BY <1>2, <1>5, <2>3 DEF AddMaterial, StockTypeOK
    <3>2. created' \in [Orders -> Nat] /\ charged' \in [Orders -> Int] /\ ledger' \in Int
      BY <1>2, <1>5, <2>1 DEF AddMaterial, StockTypeOK
    <3>3. QED BY <1>2, <1>5, <2>2, <3>1, <3>2 DEF AddMaterial, StockTypeOK
  <2>7. StockIsTheLedger' /\ NeverOverdrawn' /\ ReadsAreLevels' /\ BookedMeansStocked'
    BY <1>2, <1>5, <2>1, <2>2, NullAssumption
    DEF AddMaterial, StockTypeOK, StockIsTheLedger, NeverOverdrawn, ReadsAreLevels,
        BookedMeansStocked, Quantity
  <2>8. OrdersPayForTheirRows'
    BY <1>2, <1>5, <2>5 DEF AddMaterial, StockTypeOK, OrdersPayForTheirRows
  <2>9. QED BY <2>6, <2>7, <2>8 DEF StockInv
<1>6. ASSUME NEW c \in Returners, NEW o \in Orders, FindBooking(c, o) PROVE StockInv'
  <2>1. booked[o] \in Booking BY <1>2, <1>6 DEF FindBooking, StockTypeOK
  <2>2. [order |-> o, row |-> booked[o], seen |-> NoRow, ready |-> FALSE] \in Return
    BY <2>1 DEF Return
  <2>3. StockTypeOK' BY <1>2, <1>6, <2>2 DEF FindBooking, StockTypeOK
  <2>4. ReadsAreLevels'
    BY <1>2, <1>6 DEF FindBooking, StockTypeOK, ReadsAreLevels, Quantity
  <2>5. QED
    BY <1>2, <1>6, <2>3, <2>4
    DEF FindBooking, StockInv, StockIsTheLedger, OrdersPayForTheirRows, BookedOn, NeverOverdrawn,
        BookedMeansStocked, Quantity
<1>7. ASSUME NEW c \in Returners, ReadInventory(c) PROVE StockInv'
  <2>1. returns[c] \in Return BY <1>2, <1>7 DEF ReadInventory, StockTypeOK
  <2>2. [returns[c] EXCEPT !.seen = stock, !.ready = TRUE] \in Return
    BY <1>2, <2>1 DEF Return, StockTypeOK
  <2>3. [returns[c] EXCEPT !.seen = stock, !.ready = TRUE].seen = stock
    BY <2>1 DEF Return
  <2>4. StockTypeOK' BY <1>2, <1>7, <2>2 DEF ReadInventory, StockTypeOK
  <2>5. ReadsAreLevels'
    BY <1>2, <1>7, <2>3 DEF ReadInventory, StockTypeOK, ReadsAreLevels, NeverOverdrawn
  <2>6. QED
    BY <1>2, <1>7, <2>4, <2>5
    DEF ReadInventory, StockInv, StockIsTheLedger, OrdersPayForTheirRows, BookedOn,
        NeverOverdrawn, BookedMeansStocked, Quantity
<1>8. ASSUME NEW c \in Returners, ReturnMaterial(c) PROVE StockInv'
  <2> DEFINE r == returns[c]
             o == r.order
  <2>1. r # NoRow /\ r \in Return BY <1>2, <1>8 DEF ReturnMaterial, StockTypeOK
  <2>2. /\ o \in Orders /\ r.row \in Booking
        /\ r.row.id \in Nat /\ r.row.quantity \in Nat
        /\ r.seen \in Int \union {NoRow}
    BY <2>1 DEF Return, Booking
  <2>3. Quantity(r.seen) >= 0 BY <1>2, <2>1 DEF ReadsAreLevels
  <2>4. /\ stock' = IF r.seen = NoRow THEN stock ELSE r.seen + r.row.quantity
        /\ ledger' = ledger + r.row.quantity
        /\ charged' = [charged EXCEPT ![o] = @ - r.row.quantity]
        /\ booked' = IF booked[o] # NoRow /\ booked[o].id = r.row.id
                       THEN [booked EXCEPT ![o] = NoRow] ELSE booked
        /\ staleReturn' = (staleReturn \/ ~Fresh(r))
        /\ returns' = [returns EXCEPT ![c] = NoRow]
        /\ created' = created
    BY <1>8 DEF ReturnMaterial
  <2> HIDE DEF o, r
  <2>5. stock' \in Int \union {NoRow} /\ Quantity(stock)' >= 0 /\ (stock # NoRow => stock' # NoRow)
    BY <1>2, <2>2, <2>3, <2>4, NullAssumption DEF StockTypeOK, NeverOverdrawn, Quantity
  <2>6. StockTypeOK'
    <3>1. booked' \in [Orders -> Booking \union {NoRow}] BY <1>2, <2>2, <2>4 DEF StockTypeOK
    <3>2. charged' \in [Orders -> Int] /\ ledger' \in Int
      BY <1>2, <2>2, <2>4 DEF StockTypeOK
    <3>3. returns' \in [Returners -> Return \union {NoRow}] BY <1>2, <2>4 DEF StockTypeOK
    <3>4. staleReturn' \in BOOLEAN BY <2>4
    <3>5. QED BY <1>2, <2>4, <2>5, <3>1, <3>2, <3>3, <3>4 DEF StockTypeOK
  <2>7. NeverOverdrawn' BY <2>5 DEF NeverOverdrawn
  <2>8. ReadsAreLevels' BY <1>2, <2>4 DEF StockTypeOK, ReadsAreLevels, Quantity
  <2>9. BookedMeansStocked' BY <1>2, <2>2, <2>4, <2>5 DEF StockTypeOK, BookedMeansStocked
  <2>10. ASSUME ~staleReturn'
         PROVE  Quantity(stock)' = ledger' /\ \A p \in Orders : charged'[p] = BookedOn(p)'
    <3>1. ~staleReturn /\ booked[o] = r.row /\ stock = r.seen
      BY <2>4, <2>10 DEF Fresh, r, o
    <3>2. booked[o] # NoRow /\ stock # NoRow /\ stock \in Int
      BY <1>2, <2>2, <3>1, NullAssumption DEF BookedMeansStocked, StockTypeOK
    <3>3. Quantity(stock)' = ledger'
      BY <1>2, <2>2, <2>4, <3>1, <3>2, NullAssumption DEF StockIsTheLedger, Quantity, StockTypeOK
    <3>4. booked' = [booked EXCEPT ![o] = NoRow] BY <2>4, <3>1, <3>2
    <3>5. charged[o] = r.row.quantity
      BY <1>2, <2>2, <3>1, <3>2 DEF OrdersPayForTheirRows, BookedOn
    <3>6. ASSUME NEW p \in Orders PROVE charged'[p] = BookedOn(p)'
      BY <1>2, <2>2, <2>4, <3>1, <3>4, <3>5 DEF OrdersPayForTheirRows, BookedOn, StockTypeOK
    <3>7. QED BY <3>3, <3>6
  <2>11. QED
    BY <2>6, <2>7, <2>8, <2>9, <2>10 DEF StockInv, StockIsTheLedger, OrdersPayForTheirRows
<1>9. ASSUME NEW c \in Returners, AbandonReturn(c) PROVE StockInv'
  BY <1>2, <1>9
  DEF AbandonReturn, StockInv, StockTypeOK, StockIsTheLedger, OrdersPayForTheirRows, BookedOn,
      NeverOverdrawn, ReadsAreLevels, BookedMeansStocked, Quantity
<1>10. CASE UNCHANGED stockVars
  BY <1>2, <1>10
  DEF stockVars, StockInv, StockTypeOK, StockIsTheLedger, OrdersPayForTheirRows, BookedOn,
      NeverOverdrawn, ReadsAreLevels, BookedMeansStocked, Quantity
<1>11. QED
  BY <1>1, <1>3, <1>4, <1>5, <1>6, <1>7, <1>8, <1>9, <1>10 DEF StockNext

LEMMA StockInvariance == StockSpec => []StockInv
BY StockInitInv, StockStep, PTL DEF StockSpec

\* Every row and every call in progress keeps its shape.
THEOREM StockTypeCorrect == StockSpec => []StockTypeOK
<1>1. StockInv => StockTypeOK BY DEF StockInv
<1>2. QED BY <1>1, StockInvariance, PTL

\* The inventory row equals the sum of the transaction rows, and each work order is charged
\* for what it has booked, unless a return was written from a stale read: addMaterial's and
\* executeTransaction's locks are enough for everything else.
THEOREM BooksStayBalanced == StockSpec => []BooksBalance
<1>1. StockInv => BooksBalance BY DEF StockInv, BooksBalance
<1>2. QED BY <1>1, StockInvariance, PTL

\* No interleaving, stale returns included, takes the stock below zero.
THEOREM StockIsNeverOverdrawn == StockSpec => []NeverOverdrawn
<1>1. StockInv => NeverOverdrawn BY DEF StockInv
<1>2. QED BY <1>1, StockInvariance, PTL

===============================================================================
