------------------------------ MODULE JobPlans ------------------------------
(***************************************************************************)
(* A job plan and its versions (maintenance-job-plan.service.ts).          *)
(* saveDraft and publish are transactions that lock nothing, archive a     *)
(* read and a save: each reads the plan and a version and writes the whole *)
(* rows as it has changed them.                                            *)
(***************************************************************************)
EXTENDS Integers, FiniteSets, FiniteSetsExt

CONSTANTS
    Callers,      \* requests in progress at a time
    MaxVersions,  \* bound: versions ever made
    MaxRequests   \* bound: requests ever made

ASSUME JobPlanBounds == MaxVersions \in Nat /\ MaxRequests \in Nat

VARIABLES
    plan,      \* row of maintenance_job_plans
    version,   \* number -> row of maintenance_job_plan_versions
    pinned,    \* versions whose steps a checklist row refers to
    edit,      \* caller -> the change of the plan in progress
    requests,  \* how many requests were made; the steps a request saves have its number
    crossed    \* history: a change was committed between the read and the commit of another

planVars == <<plan, version, edit, crossed>>

Numbers == 1..MaxVersions
None == 0  \* null
Plan == [status : {"draft", "published", "archived"}, current : Numbers \cup {None}]
Version == [status : {"none", "draft", "published", "retired"}, steps : 0..MaxRequests]
Edit == [at : {"idle", "draft", "publish", "archive"}, plan : Plan, number : Numbers \cup {None},
         steps : 0..MaxRequests]

JobPlansTypeOK ==
    /\ plan \in Plan
    /\ version \in [Numbers -> Version]
    /\ pinned \subseteq Numbers
    /\ edit \in [Callers -> Edit]
    /\ requests \in 0..MaxRequests
    /\ crossed \in BOOLEAN

NewPlan == [status |-> "draft", current |-> None]
NoEdit == [at |-> "idle", plan |-> NewPlan, number |-> None, steps |-> 0]

\* create inserts the plan with its first draft.
JobPlansInit ==
    /\ plan = NewPlan
    /\ version = [n \in Numbers |-> [status |-> IF n = 1 THEN "draft" ELSE "none", steps |-> 0]]
    /\ pinned = {}
    /\ edit = [c \in Callers |-> NoEdit]
    /\ requests = 0
    /\ crossed = FALSE

-----------------------------------------------------------------------------
Editing(c, at) == edit[c].at = at

BeginEdit(c, at, number) ==
    /\ Editing(c, "idle")
    /\ requests < MaxRequests
    /\ requests' = requests + 1
    /\ edit' = [edit EXCEPT ![c] = [at |-> at, plan |-> plan, number |-> number,
                                           steps |-> requests + 1]]
    /\ UNCHANGED <<plan, version, pinned, crossed>>

EndEdit(c) ==
    /\ edit' = [edit EXCEPT ![c] = NoEdit]
    /\ crossed' = (crossed \/ \E d \in Callers \ {c} : ~Editing(d, "idle"))
    /\ UNCHANGED <<pinned, requests>>

Drafts == {n \in Numbers : version[n].status = "draft"}
Made == {n \in Numbers : version[n].status # "none"}

\* ensureDraft: the newest draft, or a version with the next number.
NextNumber == Max(Made) + 1
DraftNumber == IF Drafts # {} THEN Max(Drafts) ELSE NextNumber

ReadToSaveDraft(c) ==
    /\ DraftNumber \in Numbers
    /\ BeginEdit(c, "draft", DraftNumber)

\* Variant: the checklist rows go with the steps.
ReplaceUsedSteps(n) == TRUE

\* replaceSteps deletes the steps; the checklist rows restrict it.
MayReplaceSteps(n) == n \notin pinned

\* The draft is saved as a draft, whatever it has become; a number is taken only once.
SaveDraft(c) ==
    /\ Editing(c, "draft")
    /\ LET n == edit[c].number IN
          /\ MayReplaceSteps(n)
          /\ version' = [version EXCEPT ![n] = [status |-> "draft", steps |-> edit[c].steps]]
    /\ EndEdit(c)
    /\ UNCHANGED plan

ReadToPublish(c) ==
    /\ Drafts # {}
    /\ BeginEdit(c, "publish", Max(Drafts))

\* UPDATE ... SET status = 'retired' WHERE id = current AND status = 'published'
Retired(current) ==
    [n \in Numbers |-> IF n = current /\ version[n].status = "published"
                       THEN [version[n] EXCEPT !.status = "retired"] ELSE version[n]]

\* An archived plan is published again by this.
Publish(c) ==
    /\ Editing(c, "publish")
    /\ version' = [Retired(edit[c].plan.current) EXCEPT ![edit[c].number].status = "published"]
    /\ plan' = [status |-> "published", current |-> edit[c].number]
    /\ EndEdit(c)

ReadToArchive(c) == BeginEdit(c, "archive", None)

\* The current version is written back as it was read.
Archive(c) ==
    /\ Editing(c, "archive")
    /\ plan' = [edit[c].plan EXCEPT !.status = "archived"]
    /\ EndEdit(c)
    /\ UNCHANGED version

\* A violated constraint or a crash: the transaction is rolled back.
GiveUpEdit(c) ==
    /\ ~Editing(c, "idle")
    /\ edit' = [edit EXCEPT ![c] = NoEdit]
    /\ UNCHANGED <<plan, version, pinned, requests, crossed>>

JobPlansNext(c) ==
    \/ ReadToSaveDraft(c) \/ SaveDraft(c)
    \/ ReadToPublish(c) \/ Publish(c)
    \/ ReadToArchive(c) \/ Archive(c)
    \/ GiveUpEdit(c)

-----------------------------------------------------------------------------
(* Properties *)

\* The current version of a plan is its only published one, versions before it are
\* retired and only a draft comes after it, unless changes crossed each other: a draft
\* saved over its publication is a draft again, a plan archived over one loses it.
VersionsInOrder ==
    ~crossed => \A n \in Numbers :
        /\ n < plan.current => version[n].status = "retired"
        /\ n = plan.current => version[n].status = "published"
        /\ n > plan.current + 1 => version[n].status = "none"
        /\ n = plan.current + 1 => version[n].status \in {"none", "draft"}

=============================================================================
