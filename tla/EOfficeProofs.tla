---------------------------- MODULE EOfficeProofs ----------------------------
(***************************************************************************)
(* The log of a submission is its history, a decision stands and a text    *)
(* under review stays: for any number of requests, reviewers and actions,  *)
(* and up to two saves that were both loaded before one was committed.     *)
(*                                                                         *)
(* The service compares nothing when it saves.  What keeps the properties  *)
(* is that the load of a save fails if an action was logged since the      *)
(* read, so that whatever is loaded still has the status it was read with. *)
(***************************************************************************)
EXTENDS EOffice, TLAPS

Open == {"draft", "returned"}
Closing == {"returned", "approved", "cancelled"}

\* The handlers differ in what they read and in what they made of it.
Changed(r) ==
    \/ /\ r.action = "update"
       /\ r.base.status \in Open
       /\ r.mine.status = r.base.status /\ r.mine.decided = r.base.decided
    \/ /\ r.action = "submit"
       /\ r.base.status \in Open
       /\ r.mine.status = "in_review" /\ r.mine.decided = FALSE
    \/ /\ r.action \in {"approve", "return"}
       /\ r.base.status = "in_review"
       /\ r.mine.status \in {"approved", "returned"} /\ r.mine.decided = TRUE
    \/ /\ r.action = "cancel"
       /\ r.base.status \in Open \cup {"in_review"}
       /\ r.mine.status = "cancelled" /\ r.mine.decided = TRUE

\* What a request knows of row w with n rows of actions.  As long as nothing was
\* logged since its read the row has the status it has read; the text of a
\* submission that may not be edited is the one it has read.
Knows(r, w, n, o) ==
    /\ r.at \in {"load", "commit"} => Changed(r)
    /\ r.at = "load" => r.seen <= n
    /\ r.at = "load" /\ r.seen = n =>
          /\ w.status = r.base.status /\ w.decided = r.base.decided
          /\ ~o /\ r.base.status \notin Open => r.mine.text = w.text
    /\ r.at = "commit" /\ ~o =>
          /\ r.base = w
          /\ r.base.status \notin Open => r.mine.text = w.text
    /\ r.at \in {"sign", "insert"} /\ ~o => w.status = "approved"

RequestsKnow == \A c \in Callers : Knows(req[c], row, Rows, overlapped)

IInv == SubmissionIsSound /\ RequestsKnow

-----------------------------------------------------------------------------
(* Rows, requests and entries, field by field *)

\* The fields of a row.
LEMMA RowFields ==
  ASSUME NEW w \in Row
  PROVE  /\ w.status \in Statuses /\ w.assignee \in Assignees
         /\ w.decided \in BOOLEAN /\ w.text \in {0, 1}
         /\ DOMAIN w = {"status", "assignee", "decided", "text"}
BY DEF Row

\* Rows with the same fields are the same.
LEMMA RowMade ==
  ASSUME NEW st \in Statuses, NEW a \in Assignees, NEW d \in BOOLEAN, NEW t \in {0, 1}
  PROVE  [status |-> st, assignee |-> a, decided |-> d, text |-> t] \in Row
BY DEF Row

\* The fields of a request.
LEMMA RequestFields ==
  ASSUME NEW r \in Request
  PROVE  /\ r.at \in Steps /\ r.action \in Logged \cup {"update"}
         /\ r.mine \in Row /\ r.base \in Row /\ r.seen \in 0..(MaxActions + 1)
BY DEF Request

\* What Begin, Load and the other steps make of a request is one.
LEMMA RequestMade ==
  ASSUME NEW a \in Steps, NEW x \in Logged \cup {"update"}, NEW m \in Row, NEW b \in Row,
         NEW n \in 0..(MaxActions + 1)
  PROVE  [at |-> a, action |-> x, mine |-> m, base |-> b, seen |-> n] \in Request
BY DEF Request

\* The new row of a submission and an idle request are well-typed, and nobody
\* who is idle has to know anything.
LEMMA DraftIsARow == Draft \in Row
<1>1. "draft" \in Statuses /\ Nobody \in Assignees /\ FALSE \in BOOLEAN /\ 0 \in {0, 1}
  BY DEF Statuses, Assignees
<1> QED BY <1>1, RowMade DEF Draft

LEMMA IdleIsARequest ==
  /\ Idle \in Request
  /\ Idle.at = "idle"
  /\ \A a \in Steps : [Idle EXCEPT !.at = a] \in Request /\ [Idle EXCEPT !.at = a].at = a
<1>1. "idle" \in Steps /\ "update" \in Logged \cup {"update"} /\ 0 \in 0..(MaxActions + 1)
  BY BoundIsANumber DEF Steps, Logged
<1>2. Idle \in Request
  BY <1>1, DraftIsARow, RequestMade DEF Idle
<1>3. ASSUME NEW a \in Steps
      PROVE  [Idle EXCEPT !.at = a] = [at |-> a, action |-> "update", mine |-> Draft,
                                       base |-> Draft, seen |-> 0]
  BY DEF Idle
<1>4. ASSUME NEW a \in Steps
      PROVE  [Idle EXCEPT !.at = a] \in Request
  <2>1. [at |-> a, action |-> "update", mine |-> Draft, base |-> Draft, seen |-> 0] \in Request
    BY <1>1, DraftIsARow, RequestMade
  <2> QED BY <1>3, <2>1, Zenon
<1> QED BY <1>2, <1>3, <1>4 DEF Idle

\* How many rows of actions there are.
LEMMA RowsCount ==
  ASSUME TypeOK
  PROVE  Rows \in 0..(MaxActions + 1) /\ Len(log) \in Nat /\ Rows \in Nat
<1>1. Len(log) \in Nat /\ Len(log) <= MaxActions
  BY DEF TypeOK
<1>2. CASE created
  BY <1>1, <1>2, BoundIsANumber DEF Rows
<1>3. CASE ~created
  BY <1>1, <1>3, BoundIsANumber DEF Rows
<1> QED BY <1>1, <1>2, <1>3

\* The columns a commit writes.
Written(r, w) == [k \in DOMAIN w |-> IF r.mine[k] # r.base[k] THEN r.mine[k] ELSE w[k]]

LEMMA WrittenFields ==
  ASSUME NEW r \in Request, NEW w \in Row
  PROVE  /\ Written(r, w) \in Row
         /\ r.mine.status = r.base.status => Written(r, w).status = w.status
         /\ r.mine.decided = r.base.decided => Written(r, w).decided = w.decided
         /\ r.mine.text = r.base.text => Written(r, w).text = w.text
         /\ r.base = w => Written(r, w) = r.mine
<1> DEFINE v == Written(r, w)
<1>1. /\ r.mine \in Row /\ r.base \in Row
      /\ DOMAIN w = {"status", "assignee", "decided", "text"}
      /\ DOMAIN r.mine = {"status", "assignee", "decided", "text"}
  BY RequestFields, RowFields
<1>2. /\ v.status = IF r.mine.status # r.base.status THEN r.mine.status ELSE w.status
      /\ v.assignee = IF r.mine.assignee # r.base.assignee THEN r.mine.assignee ELSE w.assignee
      /\ v.decided = IF r.mine.decided # r.base.decided THEN r.mine.decided ELSE w.decided
      /\ v.text = IF r.mine.text # r.base.text THEN r.mine.text ELSE w.text
  BY <1>1 DEF Written
<1>3. v = [k \in {"status", "assignee", "decided", "text"} |->
             IF r.mine[k] # r.base[k] THEN r.mine[k] ELSE w[k]]
  BY <1>1 DEF Written
<1>4. v = [status |-> v.status, assignee |-> v.assignee, decided |-> v.decided, text |-> v.text]
  BY <1>3
<1>5. /\ v.status \in Statuses /\ v.assignee \in Assignees
      /\ v.decided \in BOOLEAN /\ v.text \in {0, 1}
  BY <1>1, <1>2, RowFields, Zenon
<1>6. v \in Row
  BY <1>4, <1>5, RowMade, Zenon
<1>7. ASSUME r.base = w PROVE v = r.mine
  BY <1>1, <1>7 DEF Written, Row
<1> QED BY <1>2, <1>6, <1>7, Zenon

\* A row in a new state, and with a new text.
Moved(w, st, a, d) ==
    [k \in DOMAIN w |-> IF k = "decided" THEN d ELSE IF k = "assignee" THEN a
                        ELSE IF k = "status" THEN st ELSE w[k]]

LEMMA RowChanged ==
  ASSUME NEW w \in Row, NEW st \in Statuses, NEW a \in Assignees, NEW d,
         d \in BOOLEAN
  PROVE  /\ Moved(w, st, a, d) \in Row
         /\ Moved(w, st, a, d).status = st
         /\ Moved(w, st, a, d).decided = d
         /\ Moved(w, st, a, d).text = w.text
<1> DEFINE v == Moved(w, st, a, d)
<1>1. DOMAIN w = {"status", "assignee", "decided", "text"} /\ w.text \in {0, 1}
  BY RowFields
<1>2. v = [k \in {"status", "assignee", "decided", "text"} |->
             IF k = "decided" THEN d ELSE IF k = "assignee" THEN a
               ELSE IF k = "status" THEN st ELSE w[k]]
  BY <1>1, Zenon DEF Moved
<1>3. v = [status |-> st, assignee |-> a, decided |-> d, text |-> w.text]
  BY <1>2
<1>4. [status |-> st, assignee |-> a, decided |-> d, text |-> w.text] \in Row
  BY <1>1, RowMade
<1>5. v \in Row
  BY <1>3, <1>4, Zenon
<1>6. v.status = st /\ v.text = w.text
  BY <1>3
<1>7. v.decided = d
  BY <1>2
<1> QED BY <1>5, <1>6, <1>7, Zenon

LEMMA TextChanged ==
  ASSUME NEW w \in Row, NEW t \in {0, 1}, NEW v, v = [w EXCEPT !.text = t]
  PROVE  v \in Row /\ v.status = w.status /\ v.decided = w.decided
<1>1. w = [status |-> w.status, assignee |-> w.assignee, decided |-> w.decided, text |-> w.text]
  BY DEF Row
<1>2. v = [status |-> w.status, assignee |-> w.assignee, decided |-> w.decided, text |-> t]
  BY <1>1
<1>3. w.status \in Statuses /\ w.assignee \in Assignees /\ w.decided \in BOOLEAN
  BY RowFields, Zenon
<1>4. v \in Row
  <2>1. [status |-> w.status, assignee |-> w.assignee, decided |-> w.decided, text |-> t] \in Row
    BY <1>3, RowMade
  <2> QED BY <1>2, <2>1, Zenon
<1>5. v.status = w.status /\ v.decided = w.decided
  BY <1>2, Zenon
<1> QED BY <1>4, <1>5, Zenon

-----------------------------------------------------------------------------
(* The steps *)

LEMMA InitInv == Init => IInv
<1> SUFFICES ASSUME Init PROVE IInv
  OBVIOUS
<1>1. row = Draft /\ log = <<>> /\ signatures = 0 /\ req = [c \in Callers |-> Idle]
  BY DEF Init
<1>2. created \in BOOLEAN /\ overlapped \in BOOLEAN
  BY Zenon DEF Init
<1>3. row \in Row /\ req \in [Callers -> Request]
  BY <1>1, DraftIsARow, IdleIsARequest
<1>4. log \in Seq(Entry) /\ Len(log) <= MaxActions /\ signatures \in {0, 1}
  BY <1>1, BoundIsANumber
<1>5. TypeOK
  BY <1>2, <1>3, <1>4, Zenon DEF TypeOK
<1>6. LogIsTheHistory /\ SignedIsApproved
  BY <1>1 DEF LogIsTheHistory, SignedIsApproved, Draft
<1>7. DecidedWhenItStands
  <2>1. row.decided = FALSE /\ row.status = "draft"
    BY <1>1 DEF Draft
  <2>2. row.status \notin {"returned", "approved", "cancelled"}
    BY <2>1
  <2> QED BY <2>1, <2>2, Zenon DEF DecidedWhenItStands
<1>8. RequestsKnow
  BY <1>1, IdleIsARequest DEF RequestsKnow, Knows
<1> QED BY <1>5, <1>6, <1>7, <1>8 DEF IInv, SubmissionIsSound

\* A request that goes on by itself.
LEMMA RequestStep ==
  ASSUME IInv, NEW c \in Callers, NEW r \in Request, Goto(c, r),
         Knows(r, row, Rows, overlapped),
         UNCHANGED <<row, log, created, overlapped>>
  PROVE  req' \in [Callers -> Request] /\ RequestsKnow'
<1>1. req \in [Callers -> Request] /\ RequestsKnow
  BY DEF IInv, SubmissionIsSound, TypeOK
<1>2. req' = [req EXCEPT ![c] = r]
  BY DEF Goto
<1>3. req' \in [Callers -> Request]
  BY <1>1, <1>2
<1>4. Rows' = Rows /\ row' = row /\ overlapped' = overlapped
  BY DEF Rows
<1>5. ASSUME NEW d \in Callers
      PROVE  Knows(req'[d], row, Rows, overlapped)
  <2>1. CASE d = c
    BY <1>1, <1>2, <2>1
  <2>2. CASE d # c
    <3>1. req'[d] = req[d]
      BY <1>1, <1>2, <2>2
    <3> QED BY <1>1, <3>1 DEF RequestsKnow
  <2> QED BY <2>1, <2>2
<1>6. RequestsKnow'
  BY <1>4, <1>5 DEF RequestsKnow
<1> QED BY <1>3, <1>6

LEMMA StepAlone ==
  ASSUME IInv, NEW c \in Callers, NEW r \in Request, Goto(c, r),
         Knows(r, row, Rows, overlapped),
         UNCHANGED <<row, log, created, signatures, overlapped>>
  PROVE  IInv'
<1>1. req' \in [Callers -> Request] /\ RequestsKnow'
  BY RequestStep
<1>2. TypeOK /\ LogIsTheHistory /\ DecidedWhenItStands /\ SignedIsApproved
  BY DEF IInv, SubmissionIsSound
<1>3. /\ row' = row /\ log' = log /\ created' = created
      /\ signatures' = signatures /\ overlapped' = overlapped
  OBVIOUS
<1>4. TypeOK'
  BY <1>1, <1>2, <1>3, Zenon DEF TypeOK
<1>5. LogIsTheHistory' /\ SignedIsApproved'
  BY <1>2, <1>3 DEF LogIsTheHistory, SignedIsApproved
<1>6. DecidedWhenItStands'
  <2>1. row'.decided = row.decided /\ row'.status = row.status
    BY <1>3
  <2>2. ~overlapped' => ~overlapped
    BY <1>3
  <2> QED BY <1>2, <2>1, <2>2, Zenon DEF DecidedWhenItStands
<1> QED BY <1>1, <1>4, <1>5, <1>6 DEF IInv, SubmissionIsSound

\* A handler has read a row it may change and has changed it.
LEMMA BeginInv ==
  ASSUME IInv, NEW c \in Callers, NEW a \in Logged \cup {"update"}, NEW m \in Row,
         Begin(c, a, m),
         \A r : r.action = a /\ r.base = row /\ r.mine = m => Changed(r),
         row.status \notin Open => m.text = row.text
  PROVE  IInv'
<1> DEFINE r == [at |-> "load", action |-> a, mine |-> m, base |-> row, seen |-> Rows]
<1>1. TypeOK /\ row \in Row
  BY DEF IInv, SubmissionIsSound, TypeOK
<1>2. Goto(c, r) /\ UNCHANGED <<row, log, created, signatures, overlapped>>
  BY DEF Begin
<1>3. Rows \in 0..(MaxActions + 1) /\ "load" \in Steps
  BY <1>1, RowsCount DEF Steps
<1>4. r \in Request
  BY <1>1, <1>3, RequestMade
<1>5. r.at = "load" /\ r.action = a /\ r.mine = m /\ r.base = row /\ r.seen = Rows
  OBVIOUS
<1> HIDE DEF r
<1>6. Changed(r)
  BY <1>5
<1>7. Rows <= Rows
  BY <1>1, RowsCount
<1>8. Knows(r, row, Rows, overlapped)
  BY <1>5, <1>6, <1>7 DEF Knows
<1> QED BY <1>2, <1>4, <1>8, StepAlone

LEMMA UpdateInv ==
  ASSUME IInv, NEW c \in Callers, NEW t \in {0, 1}, Update(c, t)
  PROVE  IInv'
<1>1. row \in Row
  BY DEF IInv, SubmissionIsSound, TypeOK
<1> DEFINE m == [row EXCEPT !.text = t]
<1>2. Begin(c, "update", m) /\ row.status \in Open
  BY DEF Update, Editable, Open
<1>3. m \in Row /\ m.status = row.status /\ m.decided = row.decided
  BY <1>1, TextChanged
<1> HIDE DEF m
<1>4. ASSUME NEW r, r.action = "update", r.base = row, r.mine = m
      PROVE  Changed(r)
  BY <1>2, <1>3, <1>4, Zenon DEF Changed
<1> QED BY <1>2, <1>3, <1>4, BeginInv DEF Logged

\* Who a row is assigned to next.
LEMMA AssigneeType ==
  ASSUME IInv, NEW u \in Assignees
  PROVE  NewAssignee(u) \in Assignees
BY RowFields DEF IInv, SubmissionIsSound, TypeOK, NewAssignee

LEMMA SubmitInv ==
  ASSUME IInv, NEW c \in Callers, NEW u \in Reviewers \cup {Requester}, Submit(c, u)
  PROVE  IInv'
<1>1. row \in Row /\ NewAssignee(u) \in Assignees /\ "in_review" \in Statuses
  BY AssigneeType DEF IInv, SubmissionIsSound, TypeOK, Statuses, Assignees
<1>2. PICK m : /\ Begin(c, "submit", m) /\ row.status \in Open
               /\ m = [row EXCEPT !.status = "in_review", !.assignee = NewAssignee(u),
                                  !.decided = FALSE]
  BY DEF Submit, Editable, Open
<1>3. m \in Row /\ m.status = "in_review" /\ m.decided = FALSE
  <2>1. PICK d : d \in BOOLEAN /\ d = FALSE
    OBVIOUS
  <2>2. m = Moved(row, "in_review", NewAssignee(u), d)
    BY <1>2, <2>1, Zenon DEF Moved
  <2>3. m \in Row /\ m.status = "in_review" /\ m.decided = d /\ m.text = row.text
    BY <1>1, <2>1, <2>2, RowChanged
  <2> QED BY <2>1, <2>3, Zenon
<1>4. ASSUME NEW r, r.action = "submit", r.base = row, r.mine = m
      PROVE  Changed(r)
  BY <1>2, <1>3, <1>4, Zenon DEF Changed
<1> QED BY <1>2, <1>3, <1>4, BeginInv DEF Logged

LEMMA ReviewInv ==
  ASSUME IInv, NEW c \in Callers, NEW u \in Reviewers \cup {Requester, Admin},
         NEW ok \in BOOLEAN, Review(c, u, ok)
  PROVE  IInv'
<1> DEFINE a == IF ok THEN "approve" ELSE "return"
           st == IF ok THEN "approved" ELSE "returned"
           to == NewAssignee(IF ok THEN Nobody ELSE Requester)
<1>1. row \in Row
  BY DEF IInv, SubmissionIsSound, TypeOK
<1>2. PICK m : /\ Begin(c, a, m) /\ row.status = "in_review"
               /\ m = [row EXCEPT !.status = st, !.assignee = to, !.decided = TRUE]
  BY DEF Review
<1>3. a \in {"approve", "return"} /\ st \in {"approved", "returned"} /\ st \in Statuses
  BY DEF Statuses
<1>4. to \in Assignees
  <2>1. (IF ok THEN Nobody ELSE Requester) \in Assignees
    BY DEF Assignees
  <2> QED BY <2>1, AssigneeType
<1> HIDE DEF st, to
<1>5. m \in Row /\ m.status = st /\ m.decided = TRUE /\ m.text = row.text
  <2>1. PICK d : d \in BOOLEAN /\ d = TRUE
    OBVIOUS
  <2>2. m = Moved(row, st, to, d)
    BY <1>2, <2>1, Zenon DEF Moved
  <2>3. m \in Row /\ m.status = st /\ m.decided = d /\ m.text = row.text
    BY <1>1, <1>3, <1>4, <2>1, <2>2, RowChanged
  <2> QED BY <2>1, <2>3, Zenon
<1> HIDE DEF a
<1>6. ASSUME NEW r, r.action = a, r.base = row, r.mine = m
      PROVE  Changed(r)
  <2>1. r.action \in {"approve", "return"} /\ r.mine.status \in {"approved", "returned"}
    BY <1>3, <1>5, <1>6
  <2> QED BY <1>2, <1>5, <1>6, <2>1, Zenon DEF Changed
<1>7. a \in Logged \cup {"update"}
  BY <1>3 DEF Logged
<1> QED BY <1>2, <1>5, <1>6, <1>7, BeginInv

LEMMA CancelInv ==
  ASSUME IInv, NEW c \in Callers, Cancel(c)
  PROVE  IInv'
<1>1. row \in Row /\ NewAssignee(Nobody) \in Assignees /\ "cancelled" \in Statuses
  BY AssigneeType DEF IInv, SubmissionIsSound, TypeOK, Statuses, Assignees
<1>2. PICK m : /\ Begin(c, "cancel", m) /\ row.status \in Open \cup {"in_review"}
               /\ m = [row EXCEPT !.status = "cancelled", !.assignee = NewAssignee(Nobody),
                                  !.decided = TRUE]
  BY DEF Cancel, Cancellable, Open
<1>3. m \in Row /\ m.status = "cancelled" /\ m.decided = TRUE /\ m.text = row.text
  <2>1. PICK d : d \in BOOLEAN /\ d = TRUE
    OBVIOUS
  <2>2. m = Moved(row, "cancelled", NewAssignee(Nobody), d)
    BY <1>2, <2>1, Zenon DEF Moved
  <2>3. m \in Row /\ m.status = "cancelled" /\ m.decided = d /\ m.text = row.text
    BY <1>1, <2>1, <2>2, RowChanged
  <2> QED BY <2>1, <2>3, Zenon
<1>4. ASSUME NEW r, r.action = "cancel", r.base = row, r.mine = m
      PROVE  Changed(r)
  BY <1>2, <1>3, <1>4, Zenon DEF Changed
<1> QED BY <1>2, <1>3, <1>4, BeginInv DEF Logged

\* The first query of save: what is loaded still has the status that was read.
LEMMA LoadInv ==
  ASSUME IInv, NEW c \in Callers, Load(c)
  PROVE  IInv'
<1>1. /\ TypeOK /\ row \in Row /\ req[c] \in Request
      /\ Knows(req[c], row, Rows, overlapped)
  BY DEF IInv, SubmissionIsSound, RequestsKnow, TypeOK
<1>2. PICK q : q = req[c]
  OBVIOUS
<1>3. PICK r : r = [q EXCEPT !.at = "commit", !.base = row]
  OBVIOUS
<1>4. /\ Goto(c, r) /\ UNCHANGED <<row, log, created, signatures, overlapped>>
      /\ q.at = "load" /\ q.seen = Rows
  BY <1>2, <1>3 DEF Load, At
<1>5. r = [at |-> "commit", action |-> q.action, mine |-> q.mine, base |-> row, seen |-> q.seen]
  BY <1>1, <1>2, <1>3 DEF Request
<1>6. r \in Request
  <2>1. "commit" \in Steps
    BY DEF Steps
  <2> QED BY <1>1, <1>2, <1>5, <2>1, RequestFields, RequestMade
<1>7. r.at = "commit" /\ r.action = q.action /\ r.mine = q.mine /\ r.base = row
  BY <1>5
<1>8. /\ Changed(q)
      /\ row.status = q.base.status /\ row.decided = q.base.decided
      /\ ~overlapped /\ q.base.status \notin Open => q.mine.text = row.text
  BY <1>1, <1>2, <1>4 DEF Knows
<1>9. Changed(r)
  <2>1. r.base.status = q.base.status /\ r.base.decided = q.base.decided
    BY <1>7, <1>8
  <2> QED BY <1>7, <1>8, <2>1, Zenon DEF Changed
<1>10. Knows(r, row, Rows, overlapped)
  BY <1>7, <1>8, <1>9 DEF Knows
<1> QED BY <1>4, <1>6, <1>10, StepAlone

LEMMA SignInv ==
  ASSUME IInv, NEW c \in Callers, ReadToSign(c) \/ FindNoRequest(c)
  PROVE  IInv'
<1>1. Knows(req[c], row, Rows, overlapped)
  BY DEF IInv, RequestsKnow
<1>2. ~overlapped => row.status = "approved"
  BY <1>1 DEF ReadToSign, FindNoRequest, At, Knows
<1>3. PICK a \in {"sign", "insert"} :
         Goto(c, [Idle EXCEPT !.at = a]) /\ UNCHANGED <<row, log, created, signatures, overlapped>>
  BY DEF ReadToSign, FindNoRequest
<1>4. PICK r : r = [Idle EXCEPT !.at = a]
  OBVIOUS
<1>5. r \in Request /\ r.at = a
  BY <1>4, IdleIsARequest DEF Steps
<1>6. Knows(r, row, Rows, overlapped)
  BY <1>2, <1>5 DEF Knows
<1>7. Goto(c, r) /\ UNCHANGED <<row, log, created, signatures, overlapped>>
  BY <1>3, <1>4
<1> QED BY <1>5, <1>6, <1>7, StepAlone

LEMMA InsertRequestInv ==
  ASSUME IInv, NEW c \in Callers, InsertRequest(c)
  PROVE  IInv'
<1>1. /\ Goto(c, Idle) /\ signatures' = 1
      /\ UNCHANGED <<row, log, created, overlapped>>
      /\ req[c].at = "insert"
  BY DEF InsertRequest, At
<1>2. Knows(Idle, row, Rows, overlapped)
  BY IdleIsARequest DEF Knows
<1>3. req' \in [Callers -> Request] /\ RequestsKnow'
  BY <1>1, <1>2, RequestStep, IdleIsARequest
<1>4. ~overlapped => row.status = "approved"
  BY <1>1 DEF IInv, RequestsKnow, Knows
<1>5. TypeOK /\ LogIsTheHistory /\ DecidedWhenItStands
  BY DEF IInv, SubmissionIsSound
<1>6. /\ row' = row /\ log' = log /\ created' = created /\ overlapped' = overlapped
  BY <1>1
<1>7. TypeOK'
  <2>1. signatures' \in {0, 1}
    BY <1>1
  <2> QED BY <1>3, <1>5, <1>6, <2>1, Zenon DEF TypeOK
<1>8. LogIsTheHistory' /\ SignedIsApproved'
  BY <1>4, <1>5, <1>6 DEF LogIsTheHistory, SignedIsApproved
<1>9. DecidedWhenItStands'
  <2>1. row'.decided = row.decided /\ row'.status = row.status
    BY <1>6
  <2>2. ~overlapped' => ~overlapped
    BY <1>6
  <2> QED BY <1>5, <2>1, <2>2, Zenon DEF DecidedWhenItStands
<1> QED BY <1>3, <1>7, <1>8, <1>9 DEF IInv, SubmissionIsSound

\* Whoever gives up knows nothing any more.
LEMMA GiveUpInv ==
  ASSUME IInv, NEW c \in Callers, GiveUp(c)
  PROVE  IInv'
<1>1. Knows(Idle, row, Rows, overlapped)
  BY IdleIsARequest DEF Knows
<1>2. Goto(c, Idle) /\ UNCHANGED <<row, log, created, signatures, overlapped>>
  BY DEF GiveUp
<1> QED BY <1>1, <1>2, IdleIsARequest, StepAlone

\* The row of create's own action: every save that was not loaded before it fails.
LEMMA LogCreateInv ==
  ASSUME IInv, LogCreate
  PROVE  IInv'
<1>1. /\ row' = row /\ log' = log /\ signatures' = signatures
      /\ req' = req /\ overlapped' = overlapped
      /\ ~created /\ created'
  BY DEF LogCreate
<1>2. TypeOK /\ LogIsTheHistory /\ DecidedWhenItStands /\ SignedIsApproved /\ RequestsKnow
  BY DEF IInv, SubmissionIsSound
<1>3. Rows' = Rows + 1 /\ Rows \in Nat
  <2>1. Len(log) \in Nat
    BY <1>2, RowsCount
  <2>2. Rows = Len(log) + 0
    BY <1>1 DEF Rows
  <2>3. Rows' = Len(log) + 1
    BY <1>1 DEF Rows
  <2> QED BY <2>1, <2>2, <2>3
<1>4. TypeOK'
  <2>1. created' \in BOOLEAN
    BY DEF LogCreate
  <2> QED BY <1>1, <1>2, <2>1, Zenon DEF TypeOK
<1>5. LogIsTheHistory' /\ SignedIsApproved'
  BY <1>1, <1>2 DEF LogIsTheHistory, SignedIsApproved
<1>6. DecidedWhenItStands'
  <2>1. row'.decided = row.decided /\ row'.status = row.status
    BY <1>1
  <2>2. ~overlapped' => ~overlapped
    BY <1>1
  <2> QED BY <1>2, <2>1, <2>2, Zenon DEF DecidedWhenItStands
<1>7. ASSUME NEW d \in Callers
      PROVE  Knows(req'[d], row', Rows', overlapped')
  <2>1. PICK r : r = req[d]
    OBVIOUS
  <2>2. Knows(r, row, Rows, overlapped)
    BY <1>2, <2>1 DEF RequestsKnow
  <2>3. r.at = "load" => r.seen <= Rows' /\ r.seen # Rows'
    <3>1. r.at = "load" => r.seen <= Rows
      BY <2>2 DEF Knows
    <3>2. r.seen \in 0..(MaxActions + 1)
      BY <1>2, <2>1, RequestFields DEF TypeOK
    <3> QED BY <1>3, <3>1, <3>2, BoundIsANumber
  <2>4. Knows(r, row, Rows', overlapped)
    BY <2>2, <2>3 DEF Knows
  <2> QED BY <1>1, <2>1, <2>4
<1>8. RequestsKnow'
  BY <1>7 DEF RequestsKnow
<1> QED BY <1>4, <1>5, <1>6, <1>8 DEF IInv, SubmissionIsSound

\* The log with one more action still tells one way.
LEMMA LogGrows ==
  ASSUME log \in Seq(Entry), NEW e, log' = Append(log, e),
         log = <<>> => e.from = "draft",
         log # <<>> => log[1].from = "draft" /\ log[Len(log)].to = e.from,
         \A n \in 2..Len(log) : log[n].from = log[n - 1].to
  PROVE  /\ log' # <<>>
         /\ log'[1].from = "draft"
         /\ log'[Len(log')].to = e.to
         /\ \A n \in 2..Len(log') : log'[n].from = log'[n - 1].to
<1>1. Len(log) \in Nat /\ Len(log') = Len(log) + 1
  OBVIOUS
<1>2. log'[Len(log) + 1] = e /\ \A n \in 1..Len(log) : log'[n] = log[n]
  OBVIOUS
<1>3. log' # <<>>
  BY <1>1
<1>4. log'[1].from = "draft"
  <2>1. CASE log = <<>>
    BY <1>1, <1>2, <2>1
  <2>2. CASE log # <<>>
    <3>1. 1 \in 1..Len(log)
      BY <1>1, <2>2
    <3> QED BY <1>2, <2>2, <3>1
  <2> QED BY <2>1, <2>2
<1>5. log'[Len(log')].to = e.to
  BY <1>1, <1>2
<1>6. ASSUME NEW n \in 2..Len(log')
      PROVE  log'[n].from = log'[n - 1].to
  <2>1. CASE n \in 2..Len(log)
    <3>1. n \in 1..Len(log) /\ n - 1 \in 1..Len(log)
      BY <1>1, <2>1
    <3>2. log'[n] = log[n] /\ log'[n - 1] = log[n - 1]
      BY <1>2, <3>1
    <3>3. log[n].from = log[n - 1].to
      BY <2>1
    <3> QED BY <3>2, <3>3
  <2>2. CASE n = Len(log) + 1
    <3>1. n - 1 = Len(log) /\ Len(log) \in 1..Len(log) /\ log # <<>>
      BY <1>1, <1>6, <2>2
    <3>2. log'[n] = e /\ log'[n - 1] = log[Len(log)]
      BY <1>2, <2>2, <3>1
    <3> QED BY <3>1, <3>2
  <2> QED BY <1>1, <1>6, <2>1, <2>2
<1> QED BY <1>3, <1>4, <1>5, <1>6

\* A save that was not overtaken writes the row as its handler made it, and
\* whoever has read the submission before and not loaded it knows that it is late.
LEMMA CommitInv ==
  ASSUME IInv, NEW c \in Callers, Commit(c)
  PROVE  IInv'
<1>1. /\ TypeOK /\ LogIsTheHistory /\ DecidedWhenItStands /\ SignedIsApproved /\ RequestsKnow
      /\ row \in Row /\ req \in [Callers -> Request] /\ log \in Seq(Entry)
  BY DEF IInv, SubmissionIsSound, TypeOK
<1>2. PICK r : r = req[c]
  OBVIOUS
<1>3. r \in Request /\ r.at = "commit" /\ Knows(r, row, Rows, overlapped)
  BY <1>1, <1>2 DEF Commit, At, RequestsKnow
<1>4. /\ Changed(r)
      /\ ~overlapped => r.base = row
      /\ ~overlapped /\ r.base.status \notin Open => r.mine.text = row.text
  BY <1>3 DEF Knows
<1>5. /\ row' = Written(r, row)
      /\ log' = IF r.action = "update" THEN log
                ELSE Append(log, [action |-> r.action, from |-> r.base.status, to |-> r.mine.status])
      /\ Len(log) < MaxActions
      /\ req' = [req EXCEPT ![c] = Idle]
      /\ created' = created /\ signatures' = signatures
  BY <1>2 DEF Commit, Written, Goto
<1>6. overlapped' = (overlapped \/ \E d \in Callers \ {c} : At(d, "commit"))
  BY DEF Commit
<1>7. /\ row' \in Row
      /\ r.mine.status = r.base.status => row'.status = row.status
      /\ r.mine.decided = r.base.decided => row'.decided = row.decided
      /\ r.mine.text = r.base.text => row'.text = row.text
      /\ r.base = row => row' = r.mine
  BY <1>1, <1>3, <1>5, WrittenFields
<1>8. /\ ~overlapped' => ~overlapped
      /\ ~overlapped' => \A d \in Callers \ {c} : ~At(d, "commit")
  BY <1>6, Zenon
<1>9. ~overlapped' => r.base = row /\ row' = r.mine
  BY <1>4, <1>7, <1>8
<1>10. /\ req' \in [Callers -> Request] /\ req'[c] = Idle
       /\ \A d \in Callers \ {c} : req'[d] = req[d]
  BY <1>1, <1>5, IdleIsARequest
<1>11. CASE r.action = "update"
  <2>1. log' = log /\ Rows' = Rows
    BY <1>5, <1>11 DEF Rows
  <2>2. /\ r.base.status \in Open
        /\ r.mine.status = r.base.status /\ r.mine.decided = r.base.decided
    BY <1>4, <1>11, Zenon DEF Changed
  <2>3. row'.status = row.status /\ row'.decided = row.decided
    BY <1>7, <2>2
  <2>4. LogIsTheHistory' /\ SignedIsApproved'
    BY <1>1, <1>5, <1>8, <2>1, <2>3 DEF LogIsTheHistory, SignedIsApproved
  <2>5. DecidedWhenItStands'
    BY <1>1, <1>8, <2>3, Zenon DEF DecidedWhenItStands
  <2>6. TypeOK'
    <3>1. overlapped' \in BOOLEAN
      BY <1>6, Zenon
    <3> QED BY <1>1, <1>5, <1>7, <1>10, <2>1, <3>1, Zenon DEF TypeOK
  <2>7. ASSUME NEW d \in Callers
        PROVE  Knows(req'[d], row', Rows', overlapped')
    <3>1. CASE d = c
      BY <1>10, <3>1, IdleIsARequest DEF Knows
    <3>2. CASE d # c
      <4>1. PICK q : q = req[d] /\ q = req'[d]
        BY <1>10, <3>2
      <4>2. Knows(q, row, Rows, overlapped)
        BY <1>1, <4>1 DEF RequestsKnow
      <4>3. ~overlapped' => q.at # "commit"
        BY <1>8, <3>2, <4>1 DEF At
      <4>4. ~overlapped' => row.status \in Open
        BY <1>9, <2>2
      <4>5. q.at \in {"load", "commit"} => Changed(q)
        BY <4>2 DEF Knows
      <4>6. q.at = "load" => q.seen <= Rows'
        BY <2>1, <4>2 DEF Knows
      <4>7. q.at = "load" /\ q.seen = Rows' =>
              /\ row'.status = q.base.status /\ row'.decided = q.base.decided
              /\ ~overlapped' => q.base.status \in Open
        BY <2>1, <2>3, <4>2, <4>4 DEF Knows
      <4>8. q.at \in {"sign", "insert"} => overlapped'
        BY <1>8, <4>2, <4>4 DEF Knows, Open
      <4>9. Knows(q, row', Rows', overlapped')
        BY <4>3, <4>5, <4>6, <4>7, <4>8 DEF Knows
      <4> QED BY <4>1, <4>9
    <3> QED BY <3>1, <3>2
  <2>8. RequestsKnow'
    BY <2>7 DEF RequestsKnow
  <2> QED BY <2>4, <2>5, <2>6, <2>8 DEF IInv, SubmissionIsSound
<1>12. CASE r.action # "update"
  <2>1. PICK e : e = [action |-> r.action, from |-> r.base.status, to |-> r.mine.status]
    OBVIOUS
  <2>2. /\ r.action \in Logged
        /\ r.mine \in Row /\ r.base \in Row
        /\ r.base.status \in Statuses /\ r.mine.status \in Statuses
    BY <1>3, <1>12, RequestFields, RowFields
  <2>3. log' = Append(log, e) /\ e \in Entry /\ e.from = r.base.status /\ e.to = r.mine.status
    BY <1>5, <1>12, <2>1, <2>2 DEF Entry
  <2>4. log' \in Seq(Entry) /\ Len(log') = Len(log) + 1 /\ Len(log) \in Nat
    BY <1>1, <2>3
  <2>5. Len(log') <= MaxActions
    BY <1>5, <2>4, BoundIsANumber
  <2>6. TypeOK'
    <3>1. overlapped' \in BOOLEAN
      BY <1>6, Zenon
    <3> QED BY <1>1, <1>5, <1>7, <1>10, <2>4, <2>5, <3>1, Zenon DEF TypeOK
  <2>7. r.base.status \in Open \cup {"in_review"}
    BY <1>4 DEF Changed
  <2>8. LogIsTheHistory'
    <3> SUFFICES ASSUME ~overlapped'
                 PROVE  /\ log' # <<>> /\ log'[1].from = "draft"
                        /\ log'[Len(log')].to = row'.status
                        /\ \A n \in 2..Len(log') : log'[n].from = log'[n - 1].to
      BY DEF LogIsTheHistory
    <3>1. r.base = row /\ row' = r.mine /\ ~overlapped
      BY <1>8, <1>9
    <3>2. /\ log = <<>> => e.from = "draft"
          /\ log # <<>> => log[1].from = "draft" /\ log[Len(log)].to = e.from
          /\ \A n \in 2..Len(log) : log[n].from = log[n - 1].to
      BY <1>1, <2>3, <3>1 DEF LogIsTheHistory
    <3>3. /\ log' # <<>> /\ log'[1].from = "draft" /\ log'[Len(log')].to = e.to
          /\ \A n \in 2..Len(log') : log'[n].from = log'[n - 1].to
      BY <1>1, <2>3, <3>2, LogGrows
    <3> QED BY <2>3, <3>1, <3>3
  <2>9. DecidedWhenItStands'
    <3>1. CASE r.mine.status = "in_review" /\ r.mine.decided = FALSE
      <4>1. r.mine.status \notin {"returned", "approved", "cancelled"}
        BY <3>1
      <4>2. ~overlapped' => row' = r.mine
        BY <1>9
      <4>3. ~r.mine.decided
        BY <3>1, Zenon
      <4> QED BY <4>1, <4>2, <4>3 DEF DecidedWhenItStands
    <3>2. CASE r.mine.status \in {"returned", "approved", "cancelled"} /\ r.mine.decided = TRUE
      <4>2. ~overlapped' => row' = r.mine
        BY <1>9
      <4>3. r.mine.decided
        BY <3>2, Zenon
      <4> QED BY <3>2, <4>2, <4>3 DEF DecidedWhenItStands
    <3>3. \/ r.mine.status = "in_review" /\ r.mine.decided = FALSE
          \/ r.mine.status \in {"returned", "approved", "cancelled"} /\ r.mine.decided = TRUE
      BY <1>4, <1>12 DEF Changed
    <3> QED BY <3>1, <3>2, <3>3
  <2>10. SignedIsApproved'
    <3>1. ~overlapped' => row.status # "approved"
      BY <1>9, <2>7 DEF Open
    <3> QED BY <1>1, <1>5, <1>8, <3>1 DEF SignedIsApproved
  <2>11. Rows' = Rows + 1 /\ Rows \in Nat
    <3>1. CASE created
      BY <1>5, <2>4, <3>1 DEF Rows
    <3>2. CASE ~created
      BY <1>5, <2>4, <3>2 DEF Rows
    <3> QED BY <3>1, <3>2
  <2>12. ASSUME NEW d \in Callers
         PROVE  Knows(req'[d], row', Rows', overlapped')
    <3>1. CASE d = c
      BY <1>10, <3>1, IdleIsARequest DEF Knows
    <3>2. CASE d # c
      <4>1. PICK q : q = req[d] /\ q = req'[d]
        BY <1>10, <3>2
      <4>2. Knows(q, row, Rows, overlapped) /\ q \in Request
        BY <1>1, <4>1 DEF RequestsKnow
      <4>3. ~overlapped' => q.at # "commit"
        BY <1>8, <3>2, <4>1 DEF At
      <4>4. q.at = "load" => q.seen <= Rows
        BY <4>2 DEF Knows
      <4>5. q.seen \in 0..(MaxActions + 1)
        BY <4>2, RequestFields
      <4>6. q.at = "load" => q.seen <= Rows' /\ q.seen # Rows'
        BY <2>11, <4>4, <4>5, BoundIsANumber
      <4>7. q.at \in {"sign", "insert"} => overlapped'
        <5>1. ~overlapped' => row.status # "approved"
          BY <1>9, <2>7 DEF Open
        <5> QED BY <1>8, <4>2, <5>1 DEF Knows
      <4>8. q.at \in {"load", "commit"} => Changed(q)
        BY <4>2 DEF Knows
      <4>9. Knows(q, row', Rows', overlapped')
        BY <4>3, <4>6, <4>7, <4>8 DEF Knows
      <4> QED BY <4>1, <4>9
    <3> QED BY <3>1, <3>2
  <2>13. RequestsKnow'
    BY <2>12 DEF RequestsKnow
  <2> QED BY <2>6, <2>8, <2>9, <2>10, <2>13 DEF IInv, SubmissionIsSound
<1> QED BY <1>11, <1>12

-----------------------------------------------------------------------------
\* No step of the office disturbs the invariant.
LEMMA NextInv == IInv /\ [Next]_vars => IInv'
<1> SUFFICES ASSUME IInv, [Next]_vars PROVE IInv'
  OBVIOUS
<1>1. CASE LogCreate
  BY <1>1, LogCreateInv
<1>2. ASSUME NEW c \in Callers, NEW t \in {0, 1}, Update(c, t) PROVE IInv'
  BY <1>2, UpdateInv
<1>3. ASSUME NEW c \in Callers, NEW u \in Reviewers \cup {Requester}, Submit(c, u) PROVE IInv'
  BY <1>3, SubmitInv
<1>4. ASSUME NEW c \in Callers, NEW u \in Reviewers \cup {Requester, Admin}, NEW ok \in BOOLEAN,
             Review(c, u, ok)
      PROVE  IInv'
  BY <1>4, ReviewInv
<1>5. ASSUME NEW c \in Callers, Cancel(c) PROVE IInv'
  BY <1>5, CancelInv
<1>6. ASSUME NEW c \in Callers, Load(c) PROVE IInv'
  BY <1>6, LoadInv
<1>7. ASSUME NEW c \in Callers, Commit(c) PROVE IInv'
  BY <1>7, CommitInv
<1>8. ASSUME NEW c \in Callers, ReadToSign(c) \/ FindNoRequest(c) PROVE IInv'
  BY <1>8, SignInv
<1>9. ASSUME NEW c \in Callers, InsertRequest(c) PROVE IInv'
  BY <1>9, InsertRequestInv
<1>10. ASSUME NEW c \in Callers, GiveUp(c) PROVE IInv'
  BY <1>10, GiveUpInv
<1>11. CASE UNCHANGED vars
  <2>1. /\ row' = row /\ log' = log /\ created' = created /\ req' = req
        /\ signatures' = signatures /\ overlapped' = overlapped
    BY <1>11 DEF vars
  <2> QED
    BY <2>1 DEF IInv, SubmissionIsSound, TypeOK, LogIsTheHistory, DecidedWhenItStands,
                SignedIsApproved, RequestsKnow, Rows
<1> QED
  BY <1>1, <1>2, <1>3, <1>4, <1>5, <1>6, <1>7, <1>8, <1>9, <1>10, <1>11 DEF Next

\* A save that is not overlapped changes no text that is in review or decided.
LEMMA TextStays ==
  ASSUME IInv, [Next]_vars, ~overlapped', row.status \notin {"draft", "returned"}
  PROVE  row'.text = row.text
<1>1. CASE row' = row
  BY <1>1
<1>2. ASSUME NEW c \in Callers, Commit(c)
      PROVE  row'.text = row.text
  <2>1. PICK r : r = req[c]
    OBVIOUS
  <2>2. r \in Request /\ row \in Row /\ r.at = "commit" /\ Knows(r, row, Rows, overlapped)
    BY <1>2, <2>1 DEF IInv, SubmissionIsSound, TypeOK, RequestsKnow, Commit, At
  <2>3. ~overlapped
    <3>1. overlapped' = (overlapped \/ \E d \in Callers \ {c} : At(d, "commit"))
      BY <1>2 DEF Commit
    <3> QED BY <3>1, Zenon
  <2>4. r.base = row /\ r.mine.text = row.text
    BY <2>2, <2>3 DEF Knows, Open
  <2>5. row' = Written(r, row)
    BY <1>2, <2>1 DEF Commit, Written
  <2> QED BY <2>2, <2>4, <2>5, WrittenFields
<1>3. row' = row \/ \E c \in Callers : Commit(c)
  BY DEF Next, vars, LogCreate, Update, Submit, Review, Cancel, Begin, Load, ReadToSign,
         FindNoRequest, InsertRequest, GiveUp
<1> QED BY <1>1, <1>2, <1>3

LEMMA Invariance == Spec => []IInv
<1>1. Init => IInv
  BY InitInv
<1>2. IInv /\ [Next]_vars => IInv'
  BY NextInv
<1> QED BY <1>1, <1>2, PTL DEF Spec

\* The log of a submission is its history, the time of its decision is there while one
\* stands, and only an approved submission is signed: whatever requests overlap, up to
\* two saves loaded before either is committed (e-office.service.ts, signatures.service.ts).
THEOREM SubmissionsAreSound == Spec => []SubmissionIsSound
<1>1. IInv => SubmissionIsSound
  BY DEF IInv
<1> QED BY <1>1, Invariance, PTL

\* A text under review or decided upon is never replaced, on the same condition.
THEOREM SubmittedTextsStay == Spec => SubmittedTextIsFinal
<1>1. IInv /\ [Next]_vars =>
        [~overlapped' /\ row.status \notin {"draft", "returned"} => row'.text = row.text]_vars
  BY TextStays
<1> QED BY <1>1, Invariance, PTL DEF Spec, SubmittedTextIsFinal
=============================================================================
