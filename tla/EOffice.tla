------------------------------ MODULE EOffice ------------------------------
(***************************************************************************)
(* A submission of the e-office, the log of its actions and its signature  *)
(* requests (e-office.service.ts, signatures.service.ts).  A handler reads *)
(* the submission with its assignee and its actions, checks its status and *)
(* saves it as it has changed it.                                          *)
(*                                                                         *)
(* save first loads the row again and writes the columns that differ.  It  *)
(* also detaches the action rows that the loaded list does not hold, which *)
(* submission_actions.submission_id NOT NULL refuses: a save fails if an   *)
(* action was logged since the read.  Nothing guards it between its load   *)
(* and its commit.                                                         *)
(***************************************************************************)
EXTENDS Naturals, Sequences

CONSTANTS
    Callers,     \* requests in progress at a time
    Requester, Reviewers, Admin, Nobody,  \* users, and null
    MaxActions   \* bound: actions ever logged

ASSUME UsersAreDistinct ==
    /\ Requester \notin Reviewers /\ Admin \notin Reviewers \cup {Requester}
    /\ Nobody \notin Reviewers \cup {Requester, Admin}

ASSUME BoundIsANumber == MaxActions \in Nat

VARIABLES
    row,         \* the row of submissions
    log,         \* the rows of submission_actions but the one of create, as committed
    created,     \* the action of create is logged
    signatures,  \* number of rows of signature_requests
    req,         \* caller -> what it does next, the row as it has it and as it was loaded
    overlapped   \* history: a save was committed between the load and the commit of another

vars == <<row, log, created, signatures, req, overlapped>>

Statuses == {"draft", "in_review", "returned", "approved", "cancelled"}
Assignees == Reviewers \cup {Requester, Nobody}
Row == [status : Statuses, assignee : Assignees, decided : BOOLEAN, text : {0, 1}]
Logged == {"submit", "approve", "return", "cancel"}
Entry == [action : Logged, from : Statuses, to : Statuses]
Steps == {"idle", "load", "commit", "sign", "insert"}
Request == [at : Steps, action : Logged \cup {"update"}, mine : Row, base : Row,
            seen : 0..(MaxActions + 1)]

TypeOK ==
    /\ row \in Row
    /\ log \in Seq(Entry) /\ Len(log) <= MaxActions
    /\ created \in BOOLEAN /\ overlapped \in BOOLEAN
    /\ signatures \in {0, 1}  \* UQ_signature_requests_submission
    /\ req \in [Callers -> Request]

\* create has saved the row; its action is saved next, on its own.
Draft == [status |-> "draft", assignee |-> Nobody, decided |-> FALSE, text |-> 0]
Idle == [at |-> "idle", action |-> "update", mine |-> Draft, base |-> Draft, seen |-> 0]

Init ==
    /\ row = Draft
    /\ log = <<>>
    /\ created = FALSE
    /\ signatures = 0
    /\ req = [c \in Callers |-> Idle]
    /\ overlapped = FALSE

-----------------------------------------------------------------------------
Rows == Len(log) + IF created THEN 1 ELSE 0
At(c, step) == req[c].at = step
Goto(c, r) == req' = [req EXCEPT ![c] = r]

LogCreate ==
    /\ ~created
    /\ created' = TRUE
    /\ UNCHANGED <<row, log, signatures, req, overlapped>>

\* currentAssigneeId is assigned, but a currentAssignee loaded with the row wins over it.
NewAssignee(user) == IF row.assignee = Nobody THEN user ELSE row.assignee

\* A handler has read the row and has changed it to mine.
Begin(c, action, mine) ==
    /\ At(c, "idle")
    /\ Len(log) < MaxActions
    /\ Goto(c, [at |-> "load", action |-> action, mine |-> mine, base |-> row, seen |-> Rows])
    /\ UNCHANGED <<row, log, created, signatures, overlapped>>

\* assertEditable
Editable == row.status \in {"draft", "returned"}

Update(c, text) ==
    /\ Editable
    /\ Begin(c, "update", [row EXCEPT !.text = text])

\* To any active member of the tenant, the requester included.
Submit(c, reviewer) ==
    /\ Editable
    /\ Begin(c, "submit", [row EXCEPT !.status = "in_review", !.assignee = NewAssignee(reviewer),
                                      !.decided = FALSE])

\* The assignee decides, or an administrator.
Review(c, user, approved) ==
    /\ row.status = "in_review"
    /\ user = row.assignee \/ user = Admin
    /\ Begin(c, IF approved THEN "approve" ELSE "return",
             [row EXCEPT !.status = IF approved THEN "approved" ELSE "returned",
                         !.assignee = NewAssignee(IF approved THEN Nobody ELSE Requester),
                         !.decided = TRUE])

\* Variant: whatever is not cancelled may be.
Uncancelled == row.status # "cancelled"

Cancellable == row.status \in {"draft", "returned", "in_review"}

Cancel(c) ==
    /\ Cancellable
    /\ Begin(c, "cancel", [row EXCEPT !.status = "cancelled", !.assignee = NewAssignee(Nobody),
                                      !.decided = TRUE])

\* Variant: actions that are not in the list are left alone.
LoadAnyway(c) ==
    /\ At(c, "load")
    /\ Goto(c, [req[c] EXCEPT !.at = "commit", !.base = row])
    /\ UNCHANGED <<row, log, created, signatures, overlapped>>

\* The first query of save.
Load(c) ==
    /\ At(c, "load")
    /\ Rows = req[c].seen
    /\ Goto(c, [req[c] EXCEPT !.at = "commit", !.base = row])
    /\ UNCHANGED <<row, log, created, signatures, overlapped>>

\* The columns that differ from the loaded row, and the action of a transition.
Commit(c) ==
    /\ At(c, "commit")
    /\ Len(log) < MaxActions
    /\ LET r == req[c] IN
          /\ row' = [k \in DOMAIN row |-> IF r.mine[k] # r.base[k] THEN r.mine[k] ELSE row[k]]
          /\ log' = IF r.action = "update" THEN log
                    ELSE Append(log, [action |-> r.action, from |-> r.base.status, to |-> r.mine.status])
    /\ overlapped' = (overlapped \/ \E d \in Callers \ {c} : At(d, "commit"))
    /\ Goto(c, Idle)
    /\ UNCHANGED <<created, signatures>>

\* signatures.create: the status of the submission is checked, then whether it has a
\* request; two requests are kept apart by UQ_signature_requests_submission only.
ReadToSign(c) ==
    /\ At(c, "idle") /\ row.status = "approved"
    /\ Goto(c, [Idle EXCEPT !.at = "sign"])
    /\ UNCHANGED <<row, log, created, signatures, overlapped>>

FindNoRequest(c) ==
    /\ At(c, "sign") /\ signatures = 0
    /\ Goto(c, [Idle EXCEPT !.at = "insert"])
    /\ UNCHANGED <<row, log, created, signatures, overlapped>>

InsertRequest(c) ==
    /\ At(c, "insert") /\ signatures = 0
    /\ signatures' = signatures + 1
    /\ Goto(c, Idle)
    /\ UNCHANGED <<row, log, created, overlapped>>

\* A refusal, a failed save or a crash.
GiveUp(c) ==
    /\ ~At(c, "idle")
    /\ Goto(c, Idle)
    /\ UNCHANGED <<row, log, created, signatures, overlapped>>

Next ==
    \/ LogCreate
    \/ \E c \in Callers :
          \/ \E text \in {0, 1} : Update(c, text)
          \/ \E reviewer \in Reviewers \cup {Requester} : Submit(c, reviewer)
          \/ \E user \in Reviewers \cup {Requester, Admin}, approved \in BOOLEAN : Review(c, user, approved)
          \/ Cancel(c) \/ Load(c) \/ Commit(c)
          \/ ReadToSign(c) \/ FindNoRequest(c) \/ InsertRequest(c) \/ GiveUp(c)

Spec == Init /\ [][Next]_vars

-----------------------------------------------------------------------------
(* Properties *)

\* The log tells the way of the submission: every action starts from the status the one
\* before it has left, the first from a draft and the last has left the status of the row.
\* Handlers may overlap up to the load of a save; only two saves that were both loaded
\* before one is committed break the chain.
LogIsTheHistory ==
    ~overlapped =>
        /\ log = <<>> => row.status = "draft"
        /\ log # <<>> => log[1].from = "draft" /\ log[Len(log)].to = row.status
        /\ \A n \in 2..Len(log) : log[n].from = log[n - 1].to

\* What is in review or decided keeps its text, although an editor may have read the
\* submission while it was a draft.
SubmittedTextIsFinal ==
    [][~overlapped' /\ row.status \notin {"draft", "returned"} => row'.text = row.text]_vars

\* The submission has a time of decision exactly while a decision stands.
DecidedWhenItStands ==
    ~overlapped => (row.decided <=> row.status \in {"returned", "approved", "cancelled"})

\* Only an approved submission is signed: an approval is final, also while a request for
\* a signature is in progress.
SignedIsApproved == signatures > 0 /\ ~overlapped => row.status = "approved"

\* Row, log and signature requests tell one story of the submission.
SubmissionIsSound == TypeOK /\ LogIsTheHistory /\ DecidedWhenItStands /\ SignedIsApproved

=============================================================================
