---------------------------- MODULE AccountsProofs ----------------------------
(***************************************************************************)
(* Theorems about Accounts, for any number of requests, tenants, sessions  *)
(* and passwords.                                                          *)
(***************************************************************************)
EXTENDS Accounts, TLAPS

(* The inductive invariant adds what a request carries from the row it read, *)
(* and that only sessions that were opened have a row or were ended.         *)

Knows(r) ==
  /\ r.at \in {"open", "rotate"} => r.pw \in Passwords
  /\ r.at = "rotate" => r.s \in 1..opened
  /\ r.at = "switch" => r.s \in Sessions
  /\ r.at \in {"rotate", "saveUser", "saveMember", "removeMember", "dropUser",
               "saveTenant", "deleteTenant"} => r.t \in Tenants
  /\ r.at = "saveTenant" => r.to \in {"active", "archived"}

RequestsKnow == \A c \in Callers : Knows(req[c])

OpenedOnly ==
  /\ loggedOut \subseteq 1..opened
  /\ \A s \in Sessions : session[s].row => s <= opened

IInv ==
  /\ TypeOK
  /\ RequestsKnow
  /\ OpenedOnly
  /\ RowsBelongTogether
  /\ RemovedUsersAreGone
  /\ EndedForGood
  /\ OnlyTheCurrentPasswordIsIn

(* Rows, field by field *)

LEMMA UserFields ==
  ASSUME NEW R, NEW A, NEW P, NEW a \in [row : R, active : A, pw : P]
  PROVE  a.row \in R /\ a.active \in A /\ a.pw \in P
OBVIOUS

LEMMA SessionFields ==
  ASSUME NEW R, NEW T, NEW V, NEW P, NEW x \in [row : R, t : T, revoked : V, pw : P]
  PROVE  x.row \in R /\ x.t \in T /\ x.revoked \in V /\ x.pw \in P
OBVIOUS

LEMMA UserRow ==
  ASSUME NEW a \in Account \cup {NoAccount}
  PROVE  /\ a.row \in BOOLEAN /\ a.active \in BOOLEAN
         /\ a.pw \in 0..MaxPasswords
         /\ a.row => a \in Account /\ a.pw \in Passwords
<1>1. CASE a = NoAccount
  <2>1. a.row = FALSE /\ a.active = FALSE /\ a.pw = 0
    BY <1>1 DEF NoAccount
  <2>2. a.row \in BOOLEAN /\ a.active \in BOOLEAN /\ ~a.row
    BY <2>1, Zenon
  <2>3. a.pw \in 0..MaxPasswords
    BY <2>1, BoundsAreNumbers
  <2> QED BY <2>2, <2>3, Zenon
<1>2. CASE a \in Account
  <2>1. a.row \in {TRUE} /\ a.active \in BOOLEAN /\ a.pw \in Passwords
    BY <1>2, UserFields, Zenon DEF Account
  <2>2. a.row \in BOOLEAN
    BY <2>1, Zenon
  <2>3. a.pw \in 0..MaxPasswords
    BY <2>1, BoundsAreNumbers DEF Passwords
  <2> QED BY <1>2, <2>1, <2>2, <2>3, Zenon
<1> QED BY <1>1, <1>2

LEMMA SessionRow ==
  ASSUME NEW x \in Session \cup {NoSession}
  PROVE  /\ x.row \in BOOLEAN /\ x.revoked \in BOOLEAN
         /\ x.row => x \in Session /\ x.t \in Tenants /\ x.pw \in Passwords
<1>1. CASE x = NoSession
  <2>1. x.row = FALSE /\ x.revoked = FALSE
    BY <1>1 DEF NoSession
  <2> QED BY <2>1, Zenon
<1>2. CASE x \in Session
  <2>1. x.row \in {TRUE} /\ x.revoked \in BOOLEAN /\ x.t \in Tenants /\ x.pw \in Passwords
    BY <1>2, SessionFields, Zenon DEF Session
  <2>2. x.row \in BOOLEAN
    BY <2>1, Zenon
  <2> QED BY <1>2, <2>1, <2>2, Zenon
<1> QED BY <1>1, <1>2

LEMMA UserRowWritten ==
  ASSUME NEW a \in BOOLEAN, NEW p \in Passwords
  PROVE  [row |-> TRUE, active |-> a, pw |-> p] \in Account
BY DEF Account

LEMMA SessionRowWritten ==
  ASSUME NEW t \in Tenants, NEW p \in Passwords
  PROVE  [row |-> TRUE, t |-> t, revoked |-> FALSE, pw |-> p] \in Session
BY DEF Session

-----------------------------------------------------------------------------
LEMMA InitInv == Init => IInv
<1> SUFFICES ASSUME Init PROVE IInv
  OBVIOUS
<1>1. PICK home \in Tenants :
         /\ members = {home}
         /\ tenant = [t \in Tenants |-> IF t = home THEN "active" ELSE "none"]
  BY DEF Init
<1>2. protected \in BOOLEAN /\ orphaned = FALSE
  BY Zenon DEF Init
<1>3. Idle \in Request
  BY BoundsAreNumbers DEF Idle, Request, Steps, Status
<1>4. account \in Account /\ 1 \in Passwords
  BY BoundsAreNumbers DEF Init, Account, Passwords
<1>5. /\ members \subseteq Tenants /\ tenant \in [Tenants -> Status]
      /\ session \in [Sessions -> Session \cup {NoSession}]
      /\ opened \in 0..MaxSessions
      /\ req \in [Callers -> Request]
      /\ loggedOut \subseteq Sessions /\ excused \subseteq Sessions
  BY <1>1, <1>3, BoundsAreNumbers DEF Init, Status
<1>6. orphaned \in BOOLEAN
  BY <1>2, Zenon
<1>7. TypeOK
  BY <1>2, <1>4, <1>5, <1>6, Zenon DEF TypeOK
<1>8. RequestsKnow
  BY DEF Init, RequestsKnow, Knows, Idle
<1>9. OpenedOnly
  BY DEF Init, OpenedOnly, NoSession
<1>10. RowsBelongTogether
  BY <1>1 DEF Init, RowsBelongTogether, NoSession
<1>11. RemovedUsersAreGone /\ EndedForGood
  BY <1>1 DEF Init, RemovedUsersAreGone, EndedForGood
<1>12. OnlyTheCurrentPasswordIsIn
  BY DEF Init, OnlyTheCurrentPasswordIsIn, Live, LiveIn, NoSession
<1> QED BY <1>7, <1>8, <1>9, <1>10, <1>11, <1>12 DEF IInv

-----------------------------------------------------------------------------
(* What every handler does to the requests *)

LEMMA IdleIsARequest == Idle \in Request /\ \A r : r = Idle => Knows(r)
BY BoundsAreNumbers DEF Idle, Request, Steps, Status, Knows

LEMMA RequestStep ==
  ASSUME IInv, NEW c \in Callers, NEW r \in Request, Goto(c, r), Knows(r),
         opened' \in {opened, opened + 1}
  PROVE  /\ req' \in [Callers -> Request]
         /\ RequestsKnow'
         /\ req'[c] = r /\ \A d \in Callers \ {c} : req'[d] = req[d]
<1>1. req \in [Callers -> Request]
  BY DEF IInv, TypeOK
<1>2. /\ req' \in [Callers -> Request]
      /\ req'[c] = r /\ \A d \in Callers \ {c} : req'[d] = req[d]
  BY <1>1 DEF Goto
<1>3. \A d \in Callers : Knows(req'[d])
  BY <1>2 DEF IInv, RequestsKnow
<1>4. \A n \in 1..opened : n \in 1..opened'
  BY DEF IInv, TypeOK
<1>5. RequestsKnow'
  BY <1>3, <1>4 DEF RequestsKnow, Knows
<1> QED BY <1>2, <1>5

\* A request that ends leaves the others where they were.
LEMMA DoneStep ==
  ASSUME IInv, NEW c \in Callers, Done(c), opened' \in {opened, opened + 1}
  PROVE  /\ req' \in [Callers -> Request]
         /\ RequestsKnow'
         /\ req'[c] = Idle /\ \A d \in Callers \ {c} : req'[d] = req[d]
BY IdleIsARequest, RequestStep DEF Done

\* A handler that only reads: the rows stay as they are.
LEMMA ReadingStep ==
  ASSUME IInv, NEW c \in Callers, NEW r \in Request, Knows(r), Goto(c, r),
         ~RevocationPending(c), ~At(c, "dropUser"),
         UNCHANGED <<account, protected, members, tenant, session, opened,
                     loggedOut, excused, orphaned>>
  PROVE  IInv'
<1>1. /\ req' \in [Callers -> Request] /\ RequestsKnow'
      /\ \A d \in Callers \ {c} : req'[d] = req[d]
  BY RequestStep
<1>2. TypeOK'
  <2>1. protected' = protected /\ orphaned' = orphaned
    BY Zenon
  <2>2. protected' \in BOOLEAN /\ orphaned' \in BOOLEAN
    BY <2>1, Zenon DEF IInv, TypeOK
  <2>3. /\ account' \in Account \cup {NoAccount} /\ members' \subseteq Tenants
        /\ tenant' \in [Tenants -> Status]
        /\ session' \in [Sessions -> Session \cup {NoSession}]
        /\ opened' \in 0..MaxSessions
        /\ loggedOut' \subseteq Sessions /\ excused' \subseteq Sessions
    BY DEF IInv, TypeOK
  <2> QED BY <1>1, <2>2, <2>3, Zenon DEF TypeOK
<1>3. OpenedOnly' /\ RowsBelongTogether' /\ EndedForGood'
  BY DEF IInv, OpenedOnly, RowsBelongTogether, EndedForGood, Live, LiveIn
<1>4. RemovedUsersAreGone'
  <2> SUFFICES ASSUME account.row, members = {}, ~orphaned
               PROVE  \E d \in Callers : At(d, "dropUser")'
    BY Zenon DEF RemovedUsersAreGone
  <2>1. PICK d \in Callers : At(d, "dropUser")
    BY Zenon DEF IInv, RemovedUsersAreGone
  <2>2. req'[d] = req[d]
    BY <1>1, <2>1
  <2> QED BY <2>1, <2>2 DEF At
<1>5. OnlyTheCurrentPasswordIsIn'
  <2> SUFFICES ASSUME \A d \in Callers : ~RevocationPending(d)'
               PROVE  \A s \in Live \ excused : session[s].pw = account.pw /\ account.active
    BY DEF OnlyTheCurrentPasswordIsIn, Live, LiveIn
  <2>1. \A d \in Callers : ~RevocationPending(d)
    BY <1>1 DEF RevocationPending, At
  <2> QED BY <2>1 DEF IInv, OnlyTheCurrentPasswordIsIn
<1> QED BY <1>1, <1>2, <1>3, <1>4, <1>5 DEF IInv

-----------------------------------------------------------------------------
(* What a statement does to the sessions *)

\* A revocation ends the sessions it names and changes nothing else of them.
LEMMA RevokeStep ==
  ASSUME TypeOK, OpenedOnly, EndedForGood, NEW which \in SUBSET Sessions,
         Revoke(which), opened' = opened, excused' = excused \/ excused' = excused \cup Live
  PROVE  /\ session' \in [Sessions -> Session \cup {NoSession}]
         /\ \A s \in Sessions : /\ session'[s].row = session[s].row
                                /\ session'[s].t = session[s].t
                                /\ session'[s].pw = session[s].pw
         /\ Live' = Live \ which
         /\ loggedOut' \subseteq Sessions
         /\ OpenedOnly'
         /\ EndedForGood'
<1>1. \A s \in Sessions : session[s] \in Session \cup {NoSession}
  BY DEF TypeOK
<1>2. ASSUME NEW s \in Sessions
      PROVE  /\ session'[s] \in Session \cup {NoSession}
             /\ session'[s].row = session[s].row
             /\ session'[s].t = session[s].t
             /\ session'[s].pw = session[s].pw
             /\ session'[s].revoked = (session[s].revoked \/ s \in which \cap Live)
  <2>1. CASE s \in which \cap Live
    <3>1. session[s] \in Session
      BY <1>1, <2>1 DEF Live, LiveIn, NoSession
    <3>2. session'[s] = [session[s] EXCEPT !.revoked = TRUE]
      BY <2>1 DEF Revoke
    <3> QED BY <2>1, <3>1, <3>2 DEF Session
  <2>2. CASE s \notin which \cap Live
    <3>1. session'[s] = session[s] /\ session[s].revoked \in BOOLEAN
      BY <1>1, <2>2, SessionRow DEF Revoke
    <3> QED BY <1>1, <2>2, <3>1
  <2> QED BY <2>1, <2>2
<1>3. session' \in [Sessions -> Session \cup {NoSession}]
  <2>1. session' = [s \in Sessions |-> session'[s]]
    BY DEF Revoke
  <2> QED BY <1>2, <2>1
<1>4. Live' = Live \ which
  BY <1>2 DEF Live, LiveIn
<1>5. loggedOut' \subseteq Sessions /\ loggedOut' = loggedOut \cup (which \cap Live)
  BY DEF TypeOK, Revoke
<1>6. OpenedOnly'
  <2>1. Live \subseteq 1..opened
    BY DEF OpenedOnly, Live, LiveIn, Sessions, TypeOK
  <2> QED BY <1>2, <1>5, <2>1 DEF OpenedOnly
<1>7. EndedForGood'
  BY <1>4, <1>5 DEF EndedForGood
<1> QED BY <1>2, <1>3, <1>4, <1>5, <1>6, <1>7

\* Rows that are not removed stay as they are.
LEMMA RemovalStep ==
  ASSUME TypeOK, OpenedOnly, EndedForGood, NEW kept \in SUBSET Sessions,
         session' = [s \in Sessions |-> IF s \in kept THEN session[s] ELSE NoSession],
         opened' = opened, UNCHANGED <<loggedOut, excused>>
  PROVE  /\ session' \in [Sessions -> Session \cup {NoSession}]
         /\ Live' = Live \cap kept
         /\ OpenedOnly'
         /\ EndedForGood'
<1>1. session' \in [Sessions -> Session \cup {NoSession}]
  BY DEF TypeOK
<1>2. \A s \in Sessions : session'[s] = IF s \in kept THEN session[s] ELSE NoSession
  OBVIOUS
<1>3. Live' = Live \cap kept
  BY <1>2 DEF Live, LiveIn, NoSession
<1>4. OpenedOnly'
  BY <1>2 DEF OpenedOnly, NoSession
<1>5. EndedForGood'
  BY <1>3 DEF EndedForGood
<1> QED BY <1>1, <1>3, <1>4, <1>5

\* Writing one row that is open makes its session live, and no other.
LEMMA WriteStep ==
  ASSUME TypeOK, NEW n \in Sessions, NEW row \in Session, ~row.revoked,
         session' = [session EXCEPT ![n] = row]
  PROVE  /\ session' \in [Sessions -> Session \cup {NoSession}]
         /\ Live' = Live \cup {n}
<1>1. session' \in [Sessions -> Session \cup {NoSession}]
  BY DEF TypeOK
<1>2. session'[n] = row /\ \A s \in Sessions \ {n} : session'[s] = session[s]
  BY DEF TypeOK
<1>3. Live' = Live \cup {n}
  BY <1>2 DEF Live, LiveIn, Session
<1> QED BY <1>1, <1>3

-----------------------------------------------------------------------------
(* Handlers that only read *)

LEMMA VerifyInv ==
  ASSUME IInv, NEW c \in Callers, Verify(c)
  PROVE  IInv'
<1>1. account.pw \in Passwords /\ account.pw \in 0..MaxPasswords
  BY UserRow DEF IInv, TypeOK, Verify
<1> DEFINE r == [Idle EXCEPT !.at = "open", !.pw = account.pw]
<1>2. r \in Request /\ r.at = "open" /\ r.pw = account.pw
  BY <1>1, IdleIsARequest DEF Request, Steps
<1>3. Knows(r)
  BY <1>1, <1>2 DEF Knows
<1> QED BY <1>2, <1>3, ReadingStep DEF Verify, RevocationPending, At

LEMMA FindSessionInv ==
  ASSUME IInv, NEW c \in Callers, NEW s \in Sessions, FindSession(c, s)
  PROVE  IInv'
<1>1. session[s].row /\ session[s] \in Session \cup {NoSession}
  BY DEF IInv, TypeOK, FindSession, Valid, Live, LiveIn
<1>2. s \in 1..opened /\ s \in 0..MaxSessions
  BY <1>1 DEF IInv, TypeOK, OpenedOnly, Sessions
<1>3. session[s].t \in Tenants /\ session[s].pw \in Passwords /\ session[s].pw \in 0..MaxPasswords
  BY <1>1, SessionRow DEF Passwords
<1> DEFINE r == [Idle EXCEPT !.at = "rotate", !.s = s, !.t = session[s].t, !.pw = session[s].pw]
<1>4. r \in Request /\ r.at = "rotate" /\ r.s = s /\ r.t = session[s].t /\ r.pw = session[s].pw
  BY <1>2, <1>3, IdleIsARequest DEF Request, Steps
<1>5. Knows(r)
  BY <1>2, <1>3, <1>4 DEF Knows
<1> QED BY <1>4, <1>5, ReadingStep DEF FindSession, RevocationPending, At

LEMMA AuthenticateInv ==
  ASSUME IInv, NEW c \in Callers, NEW s \in Sessions,
         NEW what \in {"switch", "logoutAll", "password"}, Authenticate(c, s, what)
  PROVE  IInv'
<1> DEFINE r == [Idle EXCEPT !.at = what, !.s = s]
<1>1. s \in 0..MaxSessions /\ what \in Steps
  BY BoundsAreNumbers DEF Sessions, Steps
<1>2. r \in Request /\ r.at = what /\ r.s = s
  BY <1>1, IdleIsARequest DEF Request
<1>3. Knows(r)
  BY <1>2 DEF Knows
<1> QED BY <1>2, <1>3, ReadingStep DEF Authenticate, RevocationPending, At

LEMMA VerifyPasswordInv ==
  ASSUME IInv, NEW c \in Callers, VerifyPassword(c)
  PROVE  IInv'
<1>1. account.active \in BOOLEAN
  BY UserRow DEF IInv, TypeOK
<1> DEFINE r == [Idle EXCEPT !.at = "savePassword", !.active = account.active]
<1>2. r \in Request /\ r.at = "savePassword"
  BY <1>1, IdleIsARequest DEF Request, Steps
<1>3. Knows(r)
  BY <1>2 DEF Knows
<1> QED BY <1>2, <1>3, ReadingStep DEF VerifyPassword, RevocationPending, At

LEMMA ReadMemberInv ==
  ASSUME IInv, NEW c \in Callers, NEW t \in Tenants,
         NEW active \in BOOLEAN, NEW lock \in BOOLEAN, ReadMember(c, t, active, lock)
  PROVE  IInv'
<1> DEFINE r == [Idle EXCEPT !.at = "saveUser", !.t = t, !.active = active, !.lock = lock]
<1>1. r \in Request /\ r.at = "saveUser" /\ r.t = t
  BY IdleIsARequest DEF Request, Steps
<1>2. Knows(r)
  BY <1>1 DEF Knows
<1> QED BY <1>1, <1>2, ReadingStep DEF ReadMember, RevocationPending, At

LEMMA ReadToRemoveInv ==
  ASSUME IInv, NEW c \in Callers, NEW t \in Tenants, ReadToRemove(c, t)
  PROVE  IInv'
<1> DEFINE r == [Idle EXCEPT !.at = "removeMember", !.t = t]
<1>1. r \in Request /\ r.at = "removeMember" /\ r.t = t
  BY IdleIsARequest DEF Request, Steps
<1>2. Knows(r)
  BY <1>1 DEF Knows
<1> QED BY <1>1, <1>2, ReadingStep DEF ReadToRemove, RevocationPending, At

LEMMA ReadTenantInv ==
  ASSUME IInv, NEW c \in Callers, NEW t \in Tenants, NEW from,
         NEW to \in {"active", "archived"}, ReadTenant(c, t, from, to)
  PROVE  IInv'
<1> DEFINE r == [Idle EXCEPT !.at = "saveTenant", !.t = t, !.to = to]
<1>1. r \in Request /\ r.at = "saveTenant" /\ r.t = t /\ r.to = to
  BY IdleIsARequest DEF Request, Steps, Status
<1>2. Knows(r)
  BY <1>1 DEF Knows
<1> QED BY <1>1, <1>2, ReadingStep DEF ReadTenant, RevocationPending, At

LEMMA ConfirmDeletionInv ==
  ASSUME IInv, NEW c \in Callers, NEW t \in Tenants, ConfirmDeletion(c, t)
  PROVE  IInv'
<1> DEFINE r == [Idle EXCEPT !.at = "deleteTenant", !.t = t]
<1>1. r \in Request /\ r.at = "deleteTenant" /\ r.t = t
  BY IdleIsARequest DEF Request, Steps
<1>2. Knows(r)
  BY <1>1 DEF Knows
<1> QED BY <1>1, <1>2, ReadingStep DEF ConfirmDeletion, RevocationPending, At

-----------------------------------------------------------------------------
(* Handlers that write.  The windows of the others stay as they were. *)

LEMMA OthersPending ==
  ASSUME NEW c \in Callers, ~RevocationPending(c), \A d \in Callers \ {c} : req'[d] = req[d],
         \A d \in Callers : ~RevocationPending(d)'
  PROVE  \A d \in Callers : ~RevocationPending(d)
BY DEF RevocationPending, At

LEMMA OthersDropping ==
  ASSUME NEW c \in Callers, ~At(c, "dropUser"), \A d \in Callers \ {c} : req'[d] = req[d],
         \E d \in Callers : At(d, "dropUser")
  PROVE  (\E d \in Callers : At(d, "dropUser"))'
BY DEF At

LEMMA OpenSessionInv ==
  ASSUME IInv, NEW c \in Callers, OpenSession(c)
  PROVE  IInv'
<1> DEFINE n == opened + 1
<1>1. n \in Sessions /\ opened \in Nat
  BY BoundsAreNumbers DEF IInv, TypeOK, OpenSession, Sessions
<1>2. PICK t \in ActiveMemberships :
         session' = [session EXCEPT ![n] = [row |-> TRUE, t |-> t, revoked |-> FALSE, pw |-> req[c].pw]]
  BY DEF OpenSession
<1> DEFINE row == [row |-> TRUE, t |-> t, revoked |-> FALSE, pw |-> req[c].pw]
<1>3. t \in Tenants /\ t \in members /\ req[c].pw \in Passwords
  BY <1>2 DEF IInv, TypeOK, ActiveMemberships, RequestsKnow, Knows, OpenSession, At
<1>4. row \in Session
  BY <1>3, SessionRowWritten
<1>5. row.t = t /\ ~row.revoked /\ row.pw = req[c].pw
  OBVIOUS
<1> HIDE DEF row
<1>6. session' \in [Sessions -> Session \cup {NoSession}] /\ Live' = Live \cup {n}
  BY <1>1, <1>2, <1>4, <1>5, WriteStep DEF IInv, row
<1>7. session'[n] = row /\ \A s \in Sessions \ {n} : session'[s] = session[s]
  BY <1>1, <1>2 DEF IInv, TypeOK, row
<1>8. /\ req' \in [Callers -> Request] /\ RequestsKnow'
      /\ \A d \in Callers \ {c} : req'[d] = req[d]
  BY DoneStep DEF OpenSession
<1>9. excused' \subseteq Sessions /\ excused \subseteq excused'
  BY <1>1 DEF IInv, TypeOK, OpenSession
<1>10. opened' \in 0..MaxSessions
  BY <1>1, BoundsAreNumbers DEF OpenSession
<1>11. TypeOK'
  BY <1>6, <1>8, <1>9, <1>10 DEF IInv, TypeOK, OpenSession
<1>12. OpenedOnly'
  BY <1>1, <1>7 DEF IInv, OpenedOnly, OpenSession, Sessions
<1>13. RowsBelongTogether'
  BY <1>3, <1>5, <1>7 DEF IInv, RowsBelongTogether, OpenSession
<1>14. RemovedUsersAreGone'
  BY <1>3 DEF RemovedUsersAreGone, OpenSession
<1>15. EndedForGood'
  BY <1>1, <1>6, <1>9 DEF IInv, EndedForGood, OpenedOnly, OpenSession
<1>16. OnlyTheCurrentPasswordIsIn'
  <2> SUFFICES ASSUME \A d \in Callers : ~RevocationPending(d)', NEW s \in Live' \ excused'
               PROVE  session'[s].pw = account.pw /\ account.active
    BY DEF OnlyTheCurrentPasswordIsIn, OpenSession
  <2>1. CASE s = n
    BY <1>5, <1>7, <2>1 DEF OpenSession
  <2>2. CASE s # n
    <3>1. \A d \in Callers : ~RevocationPending(d)
      BY <1>8, OthersPending DEF OpenSession, RevocationPending, At
    <3>2. s \in Live \ excused /\ session'[s] = session[s]
      BY <1>6, <1>7, <1>9, <2>2 DEF Live, LiveIn
    <3> QED BY <3>1, <3>2 DEF IInv, OnlyTheCurrentPasswordIsIn
  <2> QED BY <2>1, <2>2
<1> QED BY <1>8, <1>11, <1>12, <1>13, <1>14, <1>15, <1>16 DEF IInv

\* Saving the row as it was read changes nothing, or revives it and is excused.
LEMMA RotateInv ==
  ASSUME IInv, NEW c \in Callers, Rotate(c)
  PROVE  IInv'
<1> DEFINE n == req[c].s
           row == Saved(req[c])
<1>1. /\ n \in 1..opened /\ n \in Sessions
      /\ req[c].t \in Tenants /\ req[c].t \in members /\ req[c].pw \in Passwords
  <2>1. req[c].s \in 1..opened /\ req[c].t \in Tenants /\ req[c].pw \in Passwords
    BY DEF IInv, RequestsKnow, Knows, Rotate, At
  <2> QED BY <2>1, BoundsAreNumbers DEF IInv, TypeOK, Rotate, Sessions
<1>2. row \in Session
  BY <1>1, SessionRowWritten DEF Saved
<1>3. row.t = req[c].t /\ ~row.revoked /\ row.pw = req[c].pw
  BY DEF Saved
<1>4. session' = [session EXCEPT ![n] = row]
  BY DEF Rotate
<1>5. excused' = IF session[n] = row THEN excused ELSE excused \cup {n}
  BY DEF Rotate
<1> HIDE DEF n, row
<1>6. session' \in [Sessions -> Session \cup {NoSession}] /\ Live' = Live \cup {n}
  BY <1>1, <1>2, <1>3, <1>4, WriteStep DEF IInv
<1>7. session'[n] = row /\ \A s \in Sessions \ {n} : session'[s] = session[s]
  BY <1>1, <1>4 DEF IInv, TypeOK
<1>8. /\ req' \in [Callers -> Request] /\ RequestsKnow'
      /\ \A d \in Callers \ {c} : req'[d] = req[d]
  BY DoneStep DEF Rotate
<1>9. excused' \subseteq Sessions /\ excused \subseteq excused'
  BY <1>1, <1>5 DEF IInv, TypeOK
<1>10. \A s \in Live' \ excused' : s \in Live \ excused /\ session'[s] = session[s]
  <2>1. session[n] = row => n \in Live
    BY <1>1, <1>2, <1>3, UserRow, SessionRow, SessionFields, Zenon DEF Live, LiveIn, Session
  <2> QED BY <1>1, <1>5, <1>6, <1>7, <2>1 DEF Live, LiveIn
<1>11. TypeOK'
  BY <1>6, <1>8, <1>9 DEF IInv, TypeOK, Rotate
<1>12. OpenedOnly'
  BY <1>1, <1>7 DEF IInv, TypeOK, OpenedOnly, Rotate, Sessions
<1>13. RowsBelongTogether'
  BY <1>1, <1>3, <1>7 DEF IInv, RowsBelongTogether, Rotate
<1>14. RemovedUsersAreGone'
  BY <1>1 DEF RemovedUsersAreGone, Rotate
<1>15. EndedForGood'
  BY <1>10 DEF IInv, EndedForGood, Rotate
<1>16. OnlyTheCurrentPasswordIsIn'
  <2> SUFFICES ASSUME \A d \in Callers : ~RevocationPending(d)', NEW s \in Live' \ excused'
               PROVE  session'[s].pw = account.pw /\ account.active
    BY DEF OnlyTheCurrentPasswordIsIn, Rotate
  <2>1. \A d \in Callers : ~RevocationPending(d)
    BY <1>8, OthersPending DEF Rotate, RevocationPending, At
  <2> QED BY <1>10, <2>1 DEF IInv, OnlyTheCurrentPasswordIsIn
<1> QED BY <1>8, <1>11, <1>12, <1>13, <1>14, <1>15, <1>16 DEF IInv

LEMMA SwitchTenantInv ==
  ASSUME IInv, NEW c \in Callers, NEW t \in Tenants, SwitchTenant(c, t)
  PROVE  IInv'
<1> DEFINE n == req[c].s
           row == [session[n] EXCEPT !.t = t]
<1>1. n \in Sessions /\ t \in members
  BY DEF IInv, RequestsKnow, Knows, SwitchTenant, At, ActiveMemberships
<1>2. /\ req' \in [Callers -> Request] /\ RequestsKnow'
      /\ \A d \in Callers \ {c} : req'[d] = req[d]
  BY DoneStep DEF SwitchTenant
<1>3. ASSUME n \in Live
      PROVE  /\ row \in Session /\ ~row.revoked /\ row.t = t /\ row.pw = session[n].pw
             /\ session' = [session EXCEPT ![n] = row]
  <2>1. session[n].row /\ ~session[n].revoked /\ session[n] \in Session
    BY <1>1, <1>3, SessionRow DEF IInv, TypeOK, Live, LiveIn
  <2>2. row \in Session /\ ~row.revoked /\ row.t = t /\ row.pw = session[n].pw
    BY <2>1 DEF Session
  <2> QED BY <1>1, <1>3, <2>2 DEF IInv, TypeOK, SwitchTenant
<1> HIDE DEF n, row
<1>4. /\ session' \in [Sessions -> Session \cup {NoSession}] /\ Live' = Live
      /\ \A s \in Sessions : /\ session'[s].row => session[s].row
                             /\ session'[s].t \in {session[s].t, t}
                             /\ s \in Live => session'[s].pw = session[s].pw
  <2>1. CASE n \in Live
    <3>1. /\ session' \in [Sessions -> Session \cup {NoSession}]
          /\ Live' = Live \cup {n}
      BY <1>1, <1>3, <2>1, WriteStep DEF IInv
    <3>2. session'[n] = row /\ \A s \in Sessions \ {n} : session'[s] = session[s]
      BY <1>1, <1>3, <2>1 DEF IInv, TypeOK
    <3> QED BY <1>3, <2>1, <3>1, <3>2 DEF Live, LiveIn
  <2>2. CASE n \notin Live
    <3>1. session' = session
      BY <2>2 DEF SwitchTenant, n
    <3> QED BY <3>1 DEF IInv, TypeOK, Live, LiveIn
  <2> QED BY <2>1, <2>2
<1>5. TypeOK'
  BY <1>2, <1>4 DEF IInv, TypeOK, SwitchTenant
<1>6. OpenedOnly' /\ RowsBelongTogether' /\ RemovedUsersAreGone' /\ EndedForGood'
  BY <1>1, <1>4
  DEF IInv, OpenedOnly, RowsBelongTogether, RemovedUsersAreGone, EndedForGood, SwitchTenant
<1>7. OnlyTheCurrentPasswordIsIn'
  <2> SUFFICES ASSUME \A d \in Callers : ~RevocationPending(d)', NEW s \in Live \ excused
               PROVE  session'[s].pw = account.pw /\ account.active
    BY <1>4 DEF OnlyTheCurrentPasswordIsIn, SwitchTenant
  <2>1. \A d \in Callers : ~RevocationPending(d)
    BY <1>2, OthersPending DEF SwitchTenant, RevocationPending, At
  <2> QED BY <1>4, <2>1 DEF IInv, OnlyTheCurrentPasswordIsIn, Live, LiveIn
<1> QED BY <1>2, <1>5, <1>6, <1>7 DEF IInv

\* With every row as it was but for the revocations, the rows still belong together.
LEMMA LogoutInv ==
  ASSUME IInv, NEW s \in Sessions, Logout(s)
  PROVE  IInv'
<1>1. /\ session' \in [Sessions -> Session \cup {NoSession}]
      /\ \A x \in Sessions : /\ session'[x].row = session[x].row
                             /\ session'[x].t = session[x].t
                             /\ session'[x].pw = session[x].pw
      /\ Live' = Live \ {s}
      /\ loggedOut' \subseteq Sessions
      /\ OpenedOnly' /\ EndedForGood'
  BY RevokeStep DEF IInv, Logout
<1>2. TypeOK'
  BY <1>1 DEF IInv, TypeOK, Logout
<1>3. RequestsKnow' /\ RowsBelongTogether' /\ RemovedUsersAreGone'
  BY <1>1
  DEF IInv, RequestsKnow, Knows, RowsBelongTogether, RemovedUsersAreGone, Logout, At
<1>4. OnlyTheCurrentPasswordIsIn'
  BY <1>1 DEF IInv, OnlyTheCurrentPasswordIsIn, Logout, RevocationPending, At, Live, LiveIn
<1> QED BY <1>1, <1>2, <1>3, <1>4 DEF IInv

\* Every session is revoked: nobody is logged in afterwards.
LEMMA AllRevokedInv ==
  ASSUME IInv, NEW c \in Callers, LogoutAll(c) \/ RevokeAll(c)
  PROVE  IInv'
<1> USE DEF LogoutAll, RevokeAll
<1>1. /\ session' \in [Sessions -> Session \cup {NoSession}]
      /\ \A x \in Sessions : session'[x].row = session[x].row /\ session'[x].t = session[x].t
      /\ Live' = Live \ Sessions
      /\ loggedOut' \subseteq Sessions
      /\ OpenedOnly' /\ EndedForGood'
  BY RevokeStep DEF IInv
<1>2. /\ req' \in [Callers -> Request] /\ RequestsKnow'
      /\ \A d \in Callers \ {c} : req'[d] = req[d]
  BY DoneStep
<1>3. TypeOK'
  BY <1>1, <1>2 DEF IInv, TypeOK
<1>4. RowsBelongTogether'
  BY <1>1 DEF IInv, RowsBelongTogether
<1>5. RemovedUsersAreGone'
  <2>1. ~At(c, "dropUser")
    BY DEF At
  <2>2. account' = account /\ members' = members /\ orphaned' = orphaned
    OBVIOUS
  <2>3. (\E d \in Callers : At(d, "dropUser")) => (\E d \in Callers : At(d, "dropUser"))'
    BY <1>2, <2>1, OthersDropping
  <2> QED BY <2>2, <2>3, Zenon DEF IInv, RemovedUsersAreGone
<1>6. OnlyTheCurrentPasswordIsIn'
  BY <1>1 DEF OnlyTheCurrentPasswordIsIn, Live, LiveIn
<1> QED BY <1>1, <1>2, <1>3, <1>4, <1>5, <1>6 DEF IInv

\* A new password: the revocation is pending from here on.
LEMMA NewPasswordInv ==
  ASSUME IInv, NEW c \in Callers, SavePassword(c) \/ ResetPassword(c)
  PROVE  IInv'
<1> DEFINE r == [Idle EXCEPT !.at = "revoke"]
<1>1. r \in Request /\ r.at = "revoke"
  BY IdleIsARequest DEF Request, Steps
<1>2. Goto(c, r) /\ Knows(r)
  BY <1>1 DEF Knows, SavePassword, ResetPassword
<1> HIDE DEF r
<1>3. UNCHANGED <<protected, members, tenant, session, opened, loggedOut, excused>>
  BY Zenon DEF SavePassword, ResetPassword
<1>4. /\ req' \in [Callers -> Request] /\ RequestsKnow' /\ req'[c] = r
      /\ \A d \in Callers \ {c} : req'[d] = req[d]
  BY <1>1, <1>2, <1>3, RequestStep
<1>5. account' \in Account
  <2>1. account.pw + 1 \in Passwords
    BY UserRow, BoundsAreNumbers DEF IInv, TypeOK, SavePassword, ResetPassword, Passwords
  <2>2. CASE SavePassword(c)
    <3>1. req[c].active \in BOOLEAN
      BY DEF IInv, TypeOK, Request
    <3> QED BY <2>1, <2>2, <3>1, UserRowWritten DEF SavePassword
  <2>3. CASE ResetPassword(c)
    <3>1. account \in Account
      BY <2>3, UserRow DEF IInv, TypeOK, RowsBelongTogether, ResetPassword, Manageable
    <3> QED BY <2>1, <2>3, <3>1 DEF ResetPassword, Account
  <2> QED BY <2>2, <2>3
<1>6. account'.row
  BY <1>5 DEF Account
<1>7. orphaned' \in BOOLEAN /\ (members = {} => orphaned')
  <2>1. CASE SavePassword(c)
    BY <2>1, Zenon DEF SavePassword
  <2>2. CASE ResetPassword(c)
    BY <2>2 DEF IInv, TypeOK, ResetPassword, Manageable
  <2> QED BY <2>1, <2>2
<1>8. TypeOK'
  BY <1>3, <1>4, <1>5, <1>7 DEF IInv, TypeOK
<1>9. OpenedOnly' /\ RowsBelongTogether' /\ RemovedUsersAreGone' /\ EndedForGood'
  BY <1>3, <1>6, <1>7
  DEF IInv, OpenedOnly, RowsBelongTogether, RemovedUsersAreGone, EndedForGood, Live, LiveIn
<1>10. OnlyTheCurrentPasswordIsIn'
  BY <1>1, <1>4 DEF OnlyTheCurrentPasswordIsIn, RevocationPending, At
<1> QED BY <1>4, <1>8, <1>9, <1>10 DEF IInv

\* Locking opens the window; deactivating without revoking excuses whoever is logged in.
LEMMA SaveUserInv ==
  ASSUME IInv, NEW c \in Callers, SaveUser(c)
  PROVE  IInv'
<1> DEFINE r == [req[c] EXCEPT !.at = "saveMember"]
<1>1. req[c] \in Request /\ req[c].t \in Tenants /\ account \in Account
  BY UserRow DEF IInv, TypeOK, RequestsKnow, Knows, SaveUser, At
<1>2. /\ r \in Request /\ r.at = "saveMember"
      /\ r.t = req[c].t /\ r.lock = req[c].lock /\ r.active = req[c].active
  BY <1>1 DEF Request, Steps
<1>3. Goto(c, r) /\ Knows(r)
  BY <1>1, <1>2 DEF Knows, SaveUser
<1> HIDE DEF r
<1>4. /\ req' \in [Callers -> Request] /\ RequestsKnow' /\ req'[c] = r
      /\ \A d \in Callers \ {c} : req'[d] = req[d]
  BY <1>2, <1>3, RequestStep DEF SaveUser
<1>5. /\ account' \in Account /\ account'.pw = account.pw
      /\ account'.active = req[c].active /\ account'.row
  BY <1>1 DEF SaveUser, Account, Request
<1>6. excused' \subseteq Sessions /\ excused \subseteq excused'
  BY DEF IInv, TypeOK, SaveUser, Live, LiveIn
<1>7. TypeOK'
  BY <1>4, <1>5, <1>6 DEF IInv, TypeOK, SaveUser
<1>8. OpenedOnly' /\ RowsBelongTogether' /\ EndedForGood'
  BY <1>5, <1>6
  DEF IInv, OpenedOnly, RowsBelongTogether, EndedForGood, Live, LiveIn, SaveUser
<1>9. RemovedUsersAreGone'
  <2>1. ~At(c, "dropUser") /\ account.row /\ members' = members /\ orphaned' = orphaned
    BY DEF At, SaveUser
  <2>2. (\E d \in Callers : At(d, "dropUser")) => (\E d \in Callers : At(d, "dropUser"))'
    BY <1>4, <2>1, OthersDropping
  <2> QED BY <2>1, <2>2, Zenon DEF IInv, RemovedUsersAreGone
<1>10. OnlyTheCurrentPasswordIsIn'
  <2> SUFFICES ASSUME \A d \in Callers : ~RevocationPending(d)', NEW s \in Live \ excused'
               PROVE  session[s].pw = account'.pw /\ account'.active
    BY DEF OnlyTheCurrentPasswordIsIn, SaveUser, Live, LiveIn
  <2>1. ~req[c].lock
    BY <1>2, <1>4 DEF RevocationPending, At
  <2>2. req[c].active
    BY <2>1 DEF SaveUser
  <2>3. \A d \in Callers : ~RevocationPending(d)
    BY <1>4, OthersPending DEF SaveUser, RevocationPending, At
  <2> QED BY <1>5, <1>6, <2>2, <2>3 DEF IInv, OnlyTheCurrentPasswordIsIn
<1> QED BY <1>4, <1>7, <1>8, <1>9, <1>10 DEF IInv

LEMMA SaveMemberInv ==
  ASSUME IInv, NEW c \in Callers, SaveMember(c)
  PROVE  IInv'
<1> DEFINE t == req[c].t
           r == IF req[c].lock THEN [Idle EXCEPT !.at = "revoke"] ELSE Idle
<1>1. t \in Tenants
  BY DEF IInv, RequestsKnow, Knows, SaveMember, At
<1>2. r \in Request /\ (req[c].lock => r.at = "revoke") /\ (~req[c].lock => r = Idle)
  BY IdleIsARequest DEF Request, Steps
<1>3. Goto(c, r) /\ Knows(r)
  BY <1>2, IdleIsARequest DEF Knows, SaveMember
<1> HIDE DEF r
<1>4. /\ req' \in [Callers -> Request] /\ RequestsKnow' /\ req'[c] = r
      /\ \A d \in Callers \ {c} : req'[d] = req[d]
  BY <1>2, <1>3, RequestStep DEF SaveMember
<1>5. TypeOK'
  BY <1>1, <1>4 DEF IInv, TypeOK, SaveMember
<1>6. OpenedOnly' /\ RowsBelongTogether' /\ RemovedUsersAreGone' /\ EndedForGood'
  BY <1>1
  DEF IInv, OpenedOnly, RowsBelongTogether, RemovedUsersAreGone, EndedForGood, Live, LiveIn, SaveMember
<1>7. OnlyTheCurrentPasswordIsIn'
  <2> SUFFICES ASSUME \A d \in Callers : ~RevocationPending(d)', NEW s \in Live \ excused
               PROVE  session[s].pw = account.pw /\ account.active
    BY DEF OnlyTheCurrentPasswordIsIn, SaveMember, Live, LiveIn
  <2>1. ~req[c].lock
    BY <1>2, <1>4 DEF RevocationPending, At
  <2>2. \A d \in Callers : ~RevocationPending(d)
    BY <1>4, <2>1, OthersPending DEF SaveMember, RevocationPending, At
  <2> QED BY <2>2 DEF IInv, OnlyTheCurrentPasswordIsIn
<1> QED BY <1>4, <1>5, <1>6, <1>7 DEF IInv

\* The sessions of a membership go with it.
LEMMA CascadeStep ==
  ASSUME IInv, NEW t \in Tenants, session' = Cascade({t}), members' = members \ {t},
         UNCHANGED <<account, opened, loggedOut, excused>>
  PROVE  /\ session' \in [Sessions -> Session \cup {NoSession}]
         /\ Live' \subseteq Live /\ \A s \in Live' : session'[s] = session[s]
         /\ \A s \in Sessions : session'[s].row => session'[s].t \in members'
         /\ OpenedOnly' /\ EndedForGood'
<1> DEFINE kept == {s \in Sessions : session[s].t # t}
<1>1. session' = [s \in Sessions |-> IF s \in kept THEN session[s] ELSE NoSession]
  BY DEF Cascade
<1>2. /\ session' \in [Sessions -> Session \cup {NoSession}]
      /\ Live' = Live \cap kept /\ OpenedOnly' /\ EndedForGood'
  BY <1>1, RemovalStep DEF IInv
<1>3. \A s \in Sessions : session'[s] = IF s \in kept THEN session[s] ELSE NoSession
  BY <1>1
<1>4. \A s \in Sessions : session'[s].row => s \in kept
  BY <1>3 DEF NoSession
<1>5. \A s \in Sessions : session'[s].row => session'[s].t \in members'
  BY <1>3, <1>4 DEF IInv, RowsBelongTogether
<1> QED BY <1>2, <1>3, <1>5

LEMMA RemoveMemberInv ==
  ASSUME IInv, NEW c \in Callers, RemoveMember(c)
  PROVE  IInv'
<1> DEFINE r == [req[c] EXCEPT !.at = "dropUser"]
<1>1. req[c] \in Request /\ req[c].t \in Tenants
  BY DEF IInv, TypeOK, RequestsKnow, Knows, RemoveMember, At
<1>2. r \in Request /\ r.at = "dropUser" /\ r.t = req[c].t
  BY <1>1 DEF Request, Steps
<1>3. Goto(c, r) /\ Knows(r)
  BY <1>1, <1>2 DEF Knows, RemoveMember
<1> HIDE DEF r
<1>4. /\ req' \in [Callers -> Request] /\ RequestsKnow' /\ req'[c] = r
      /\ \A d \in Callers \ {c} : req'[d] = req[d]
  BY <1>2, <1>3, RequestStep DEF RemoveMember
<1>5. /\ session' \in [Sessions -> Session \cup {NoSession}]
      /\ Live' \subseteq Live /\ \A s \in Live' : session'[s] = session[s]
      /\ \A s \in Sessions : session'[s].row => session'[s].t \in members'
      /\ OpenedOnly' /\ EndedForGood'
  BY <1>1, CascadeStep DEF RemoveMember
<1>6. TypeOK'
  BY <1>4, <1>5 DEF IInv, TypeOK, RemoveMember
<1>7. RowsBelongTogether'
  BY <1>5 DEF IInv, RowsBelongTogether, RemoveMember
<1>8. RemovedUsersAreGone'
  BY <1>2, <1>4 DEF RemovedUsersAreGone, At
<1>9. OnlyTheCurrentPasswordIsIn'
  <2> SUFFICES ASSUME \A d \in Callers : ~RevocationPending(d)', NEW s \in Live' \ excused
               PROVE  session'[s].pw = account.pw /\ account.active
    BY DEF OnlyTheCurrentPasswordIsIn, RemoveMember
  <2>1. \A d \in Callers : ~RevocationPending(d)
    BY <1>4, OthersPending DEF RemoveMember, RevocationPending, At
  <2> QED BY <1>5, <2>1 DEF IInv, OnlyTheCurrentPasswordIsIn
<1> QED BY <1>4, <1>5, <1>6, <1>7, <1>8, <1>9 DEF IInv

LEMMA DropUserInv ==
  ASSUME IInv, NEW c \in Callers, DropUser(c)
  PROVE  IInv'
<1>1. /\ req' \in [Callers -> Request] /\ RequestsKnow'
      /\ \A d \in Callers \ {c} : req'[d] = req[d]
  BY DoneStep DEF DropUser
<1>2. CASE IsLast
  <2>1. /\ account' = NoAccount /\ members' = {} /\ loggedOut' = loggedOut /\ excused' = excused
        /\ session' = [s \in Sessions |-> IF s \in {} THEN session[s] ELSE NoSession]
    BY <1>2 DEF DropUser
  <2>2. /\ session' \in [Sessions -> Session \cup {NoSession}] /\ Live' = {}
        /\ OpenedOnly' /\ EndedForGood'
    BY <2>1, RemovalStep DEF IInv, DropUser
  <2>3. \A s \in Sessions : ~session'[s].row
    BY <2>1 DEF NoSession
  <2>4. TypeOK'
    BY <1>1, <2>1, <2>2 DEF IInv, TypeOK, DropUser
  <2>5. ~account'.row
    BY <2>1 DEF NoAccount
  <2>6. RowsBelongTogether' /\ RemovedUsersAreGone' /\ OnlyTheCurrentPasswordIsIn'
    BY <2>1, <2>2, <2>3, <2>5
    DEF RowsBelongTogether, RemovedUsersAreGone, OnlyTheCurrentPasswordIsIn
  <2> QED BY <1>1, <2>2, <2>4, <2>6 DEF IInv
<1>3. CASE ~IsLast
  <2> DEFINE which == {s \in Sessions : session[s].t = req[c].t}
  <2>1. Revoke(which) /\ account' = account /\ members' = members
    BY <1>3 DEF DropUser
  <2>2. /\ session' \in [Sessions -> Session \cup {NoSession}]
        /\ \A s \in Sessions : /\ session'[s].row = session[s].row
                               /\ session'[s].t = session[s].t
                               /\ session'[s].pw = session[s].pw
        /\ Live' = Live \ which
        /\ loggedOut' \subseteq Sessions /\ OpenedOnly' /\ EndedForGood'
    BY <2>1, RevokeStep DEF IInv, DropUser
  <2>3. TypeOK'
    BY <1>1, <2>1, <2>2 DEF IInv, TypeOK, DropUser
  <2>4. RowsBelongTogether' /\ RemovedUsersAreGone'
    BY <1>3, <2>1, <2>2 DEF IInv, RowsBelongTogether, RemovedUsersAreGone, DropUser, IsLast
  <2>5. OnlyTheCurrentPasswordIsIn'
    <3> SUFFICES ASSUME \A d \in Callers : ~RevocationPending(d)', NEW s \in Live \ excused
                 PROVE  session[s].pw = account.pw /\ account.active
      BY <2>1, <2>2 DEF OnlyTheCurrentPasswordIsIn, DropUser, Live, LiveIn
    <3>1. \A d \in Callers : ~RevocationPending(d)
      BY <1>1, OthersPending DEF DropUser, RevocationPending, At
    <3> QED BY <3>1 DEF IInv, OnlyTheCurrentPasswordIsIn
  <2> QED BY <1>1, <2>2, <2>3, <2>4, <2>5 DEF IInv
<1> QED BY <1>2, <1>3

-----------------------------------------------------------------------------
(* Tenants *)

LEMMA SaveTenantInv ==
  ASSUME IInv, NEW c \in Callers, SaveTenant(c)
  PROVE  IInv'
<1>1. /\ req' \in [Callers -> Request] /\ RequestsKnow'
      /\ \A d \in Callers \ {c} : req'[d] = req[d]
  BY DoneStep DEF SaveTenant
<1>2. req[c].t \in Tenants /\ req[c].to \in {"active", "archived"}
  BY DEF IInv, RequestsKnow, Knows, SaveTenant, At
<1>3. TypeOK'
  BY <1>1, <1>2 DEF IInv, TypeOK, SaveTenant, Status
<1>4. OpenedOnly' /\ RowsBelongTogether' /\ EndedForGood'
  BY <1>2
  DEF IInv, TypeOK, OpenedOnly, RowsBelongTogether, EndedForGood, SaveTenant, Live, LiveIn
<1>5. RemovedUsersAreGone'
  <2>1. ~At(c, "dropUser") /\ UNCHANGED <<account, members, orphaned>>
    BY DEF At, SaveTenant
  <2>2. (\E d \in Callers : At(d, "dropUser")) => (\E d \in Callers : At(d, "dropUser"))'
    BY <1>1, <2>1, OthersDropping
  <2> QED BY <2>1, <2>2, Zenon DEF IInv, RemovedUsersAreGone
<1>6. OnlyTheCurrentPasswordIsIn'
  <2> SUFFICES ASSUME \A d \in Callers : ~RevocationPending(d)', NEW s \in Live \ excused
               PROVE  session[s].pw = account.pw /\ account.active
    BY DEF OnlyTheCurrentPasswordIsIn, SaveTenant, Live, LiveIn
  <2>1. \A d \in Callers : ~RevocationPending(d)
    BY <1>1, OthersPending DEF SaveTenant, RevocationPending, At
  <2> QED BY <2>1 DEF IInv, OnlyTheCurrentPasswordIsIn
<1> QED BY <1>1, <1>3, <1>4, <1>5, <1>6 DEF IInv

LEMMA CreateTenantInv ==
  ASSUME IInv, NEW t \in Tenants, CreateTenant(t)
  PROVE  IInv'
<1>1. TypeOK'
  BY DEF IInv, TypeOK, CreateTenant, Status
<1>2. RequestsKnow' /\ OpenedOnly' /\ RowsBelongTogether' /\ RemovedUsersAreGone' /\ EndedForGood'
  BY DEF IInv, TypeOK, RequestsKnow, Knows, OpenedOnly, RowsBelongTogether, RemovedUsersAreGone,
         EndedForGood, Live, LiveIn, CreateTenant
<1>3. OnlyTheCurrentPasswordIsIn'
  BY DEF IInv, OnlyTheCurrentPasswordIsIn, RevocationPending, At, Live, LiveIn, CreateTenant
<1> QED BY <1>1, <1>2, <1>3 DEF IInv

LEMMA DeleteTenantInv ==
  ASSUME IInv, NEW c \in Callers, DeleteTenant(c)
  PROVE  IInv'
<1>1. /\ req' \in [Callers -> Request] /\ RequestsKnow'
      /\ \A d \in Callers \ {c} : req'[d] = req[d]
  BY DoneStep DEF DeleteTenant
<1>2. req[c].t \in Tenants
  BY DEF IInv, RequestsKnow, Knows, DeleteTenant, At
<1>3. /\ session' \in [Sessions -> Session \cup {NoSession}]
      /\ Live' \subseteq Live /\ \A s \in Live' : session'[s] = session[s]
      /\ \A s \in Sessions : session'[s].row => session'[s].t \in members'
      /\ OpenedOnly' /\ EndedForGood'
  BY <1>2, CascadeStep DEF DeleteTenant
<1>4. orphaned' \in BOOLEAN /\ (members' = {} => orphaned')
  BY Zenon DEF DeleteTenant
<1>5. TypeOK'
  BY <1>1, <1>2, <1>3, <1>4 DEF IInv, TypeOK, DeleteTenant, Status
<1>6. RowsBelongTogether' /\ RemovedUsersAreGone'
  BY <1>2, <1>3, <1>4 DEF IInv, TypeOK, RowsBelongTogether, RemovedUsersAreGone, DeleteTenant
<1>7. OnlyTheCurrentPasswordIsIn'
  <2> SUFFICES ASSUME \A d \in Callers : ~RevocationPending(d)', NEW s \in Live' \ excused
               PROVE  session'[s].pw = account.pw /\ account.active
    BY DEF OnlyTheCurrentPasswordIsIn, DeleteTenant
  <2>1. \A d \in Callers : ~RevocationPending(d)
    BY <1>1, OthersPending DEF DeleteTenant, RevocationPending, At
  <2> QED BY <1>3, <2>1 DEF IInv, OnlyTheCurrentPasswordIsIn
<1> QED BY <1>1, <1>3, <1>5, <1>6, <1>7 DEF IInv

-----------------------------------------------------------------------------
\* A request that dies while a revocation is due excuses everybody who is logged in.
LEMMA GiveUpInv ==
  ASSUME IInv, NEW c \in Callers, GiveUp(c)
  PROVE  IInv'
<1>1. /\ req' \in [Callers -> Request] /\ RequestsKnow'
      /\ \A d \in Callers \ {c} : req'[d] = req[d]
  BY DoneStep DEF GiveUp
<1>2. excused' \subseteq Sessions /\ excused \subseteq excused'
  BY DEF IInv, TypeOK, GiveUp, Live, LiveIn
<1>3. orphaned' \in BOOLEAN /\ (orphaned \/ (At(c, "dropUser") /\ members = {}) => orphaned')
  BY Zenon DEF GiveUp
<1>4. TypeOK'
  BY <1>1, <1>2, <1>3 DEF IInv, TypeOK, GiveUp
<1>5. OpenedOnly' /\ RowsBelongTogether' /\ EndedForGood'
  BY <1>2 DEF IInv, OpenedOnly, RowsBelongTogether, EndedForGood, GiveUp, Live, LiveIn
<1>6. RemovedUsersAreGone'
  <2>1. UNCHANGED <<account, members>>
    BY DEF GiveUp
  <2>2. CASE At(c, "dropUser")
    BY <1>3, <2>1, <2>2, Zenon DEF RemovedUsersAreGone
  <2>3. CASE ~At(c, "dropUser")
    <3>1. (\E d \in Callers : At(d, "dropUser")) => (\E d \in Callers : At(d, "dropUser"))'
      BY <1>1, <2>3, OthersDropping
    <3> QED BY <1>3, <2>1, <3>1, Zenon DEF IInv, RemovedUsersAreGone
  <2> QED BY <2>2, <2>3
<1>7. OnlyTheCurrentPasswordIsIn'
  <2> SUFFICES ASSUME \A d \in Callers : ~RevocationPending(d)', NEW s \in Live \ excused'
               PROVE  session[s].pw = account.pw /\ account.active
    BY DEF OnlyTheCurrentPasswordIsIn, GiveUp, Live, LiveIn
  <2>1. ~RevocationPending(c)
    BY DEF GiveUp
  <2>2. \A d \in Callers : ~RevocationPending(d)
    BY <1>1, <2>1, OthersPending
  <2> QED BY <1>2, <2>2 DEF IInv, OnlyTheCurrentPasswordIsIn
<1> QED BY <1>1, <1>4, <1>5, <1>6, <1>7 DEF IInv

LEMMA StutterInv == IInv /\ UNCHANGED vars => IInv'
<1> SUFFICES ASSUME IInv, UNCHANGED vars PROVE IInv'
  OBVIOUS
<1>1. TypeOK'
  BY DEF IInv, TypeOK, vars
<1>2. RequestsKnow' /\ OpenedOnly' /\ RowsBelongTogether' /\ RemovedUsersAreGone' /\ EndedForGood'
  BY DEF IInv, RequestsKnow, Knows, OpenedOnly, RowsBelongTogether, RemovedUsersAreGone,
         EndedForGood, Live, LiveIn, At, vars
<1>3. OnlyTheCurrentPasswordIsIn'
  BY DEF IInv, OnlyTheCurrentPasswordIsIn, RevocationPending, At, Live, LiveIn, vars
<1> QED BY <1>1, <1>2, <1>3 DEF IInv

LEMMA NextInv == IInv /\ [Next]_vars => IInv'
<1> SUFFICES ASSUME IInv, Next PROVE IInv'
  BY StutterInv
<1>1. CASE \E s \in Sessions : Logout(s)
  BY <1>1, LogoutInv
<1>2. CASE \E t \in Tenants : CreateTenant(t)
  BY <1>2, CreateTenantInv
<1>3. ASSUME NEW c \in Callers,
             \/ Verify(c) \/ OpenSession(c) \/ Rotate(c) \/ LogoutAll(c)
             \/ VerifyPassword(c) \/ SavePassword(c) \/ RevokeAll(c) \/ ResetPassword(c)
             \/ SaveUser(c) \/ SaveMember(c) \/ RemoveMember(c) \/ DropUser(c)
             \/ SaveTenant(c) \/ DeleteTenant(c) \/ GiveUp(c)
      PROVE  IInv'
  BY <1>3, VerifyInv, OpenSessionInv, RotateInv, AllRevokedInv, VerifyPasswordInv, NewPasswordInv,
     SaveUserInv, SaveMemberInv, RemoveMemberInv, DropUserInv, SaveTenantInv, DeleteTenantInv,
     GiveUpInv
<1>4. ASSUME NEW c \in Callers, NEW s \in Sessions,
             \/ FindSession(c, s)
             \/ \E what \in {"switch", "logoutAll", "password"} : Authenticate(c, s, what)
      PROVE  IInv'
  BY <1>4, FindSessionInv, AuthenticateInv
<1>5. ASSUME NEW c \in Callers, NEW t \in Tenants,
             \/ SwitchTenant(c, t) \/ ReadToRemove(c, t) \/ ConfirmDeletion(c, t)
             \/ ReadMember(c, t, account.active, FALSE)
             \/ ReadMember(c, t, TRUE, FALSE)
             \/ ReadMember(c, t, FALSE, TRUE)
             \/ ReadToArchive(c, t) \/ ReadToRestore(c, t) \/ ReadToUpdate(c, t)
      PROVE  IInv'
  <2>1. account.active \in BOOLEAN /\ TRUE \in BOOLEAN /\ FALSE \in BOOLEAN
    BY UserRow DEF IInv, TypeOK
  <2>2. CASE \/ ReadMember(c, t, account.active, FALSE)
             \/ ReadMember(c, t, TRUE, FALSE)
             \/ ReadMember(c, t, FALSE, TRUE)
    BY <2>1, <2>2, ReadMemberInv
  <2>3. CASE ReadToArchive(c, t) \/ ReadToRestore(c, t) \/ ReadToUpdate(c, t)
    BY <2>3, ReadTenantInv DEF ReadToArchive, ReadToRestore, ReadToUpdate
  <2>4. CASE SwitchTenant(c, t) \/ ReadToRemove(c, t) \/ ConfirmDeletion(c, t)
    BY <2>4, SwitchTenantInv, ReadToRemoveInv, ConfirmDeletionInv
  <2> QED BY <1>5, <2>2, <2>3, <2>4
<1> QED BY <1>1, <1>2, <1>3, <1>4, <1>5 DEF Next

\* The inductive invariant holds of every reachable state.
LEMMA Inductive == Spec => []IInv
BY InitInv, NextInv, PTL DEF Spec

-----------------------------------------------------------------------------
\* However logins, refreshes, logouts, new passwords, locks and removals overlap, a session
\* that was ended stays ended unless a refresh wrote back a row it had read before.
THEOREM SessionsEndForGood == Spec => []EndedForGood
<1>1. IInv => EndedForGood
  BY DEF IInv
<1> QED BY <1>1, Inductive, PTL

\* Whenever no revocation is due, whoever is logged in gave the password that is valid now
\* and is not locked, but for the stale writes that are excused.
THEOREM NobodyIsInWithAnOldPassword == Spec => []OnlyTheCurrentPasswordIsIn
<1>1. IInv => OnlyTheCurrentPasswordIsIn
  BY DEF IInv
<1> QED BY <1>1, Inductive, PTL

\* Rows keep their types and their foreign keys, and no user is left without a membership
\* but where a removal, a deletion or a change of password was left undone.
THEOREM AccountRowsFitTogether == Spec => []AccountsAreSound
<1>1. IInv => AccountsAreSound
  BY DEF IInv, AccountsAreSound
<1> QED BY <1>1, Inductive, PTL

=============================================================================
