------------------------------ MODULE Accounts ------------------------------
(***************************************************************************)
(* One account, its memberships of tenants and its login sessions:         *)
(* auth.service.ts, jwt.strategy.ts, users.service.ts and the life cycle   *)
(* of tenants in tenancy.service.ts.                                       *)
(*                                                                         *)
(* A handler is a sequence of statements; one that reads a row and saves   *)
(* it later writes back what it read (req keeps it).  A membership has     *)
(* the identity of its tenant, a password that of its version, and a       *)
(* refresh token is not named: whoever refreshes or logs out holds the     *)
(* current one.                                                            *)
(***************************************************************************)
EXTENDS Naturals, FiniteSets

CONSTANTS
    Callers,       \* HTTP requests in progress at a time
    Tenants,
    NoTenant,      \* null
    MaxSessions,   \* bound: sessions ever opened
    MaxPasswords   \* bound: passwords the account ever has

ASSUME NullIsNoTenant == NoTenant \notin Tenants
ASSUME BoundsAreNumbers == MaxSessions \in Nat /\ MaxPasswords \in Nat \ {0}

VARIABLES
    account,     \* the row of users: is it there, is it active, which password
    protected,   \* isPlatformAdmin: the users service may not touch the account
    members,     \* tenants the account has a membership of
    tenant,      \* tenant -> status, "none" before it exists, "deleted" after
    session,     \* session -> its row
    opened,      \* how many sessions were opened
    req,         \* caller -> what it does next and what it read
    loggedOut,   \* history: sessions a logout or a revocation ended
    excused,     \* history: sessions a stale or lost write may have kept alive
    orphaned     \* history: the account lost its last membership and was kept

vars == <<account, protected, members, tenant, session, opened, req, loggedOut, excused, orphaned>>

Sessions == 1..MaxSessions
Passwords == 1..MaxPasswords

Account == [row : {TRUE}, active : BOOLEAN, pw : Passwords]
NoAccount == [row |-> FALSE, active |-> FALSE, pw |-> 0]
Session == [row : {TRUE}, t : Tenants, revoked : BOOLEAN, pw : Passwords]
NoSession == [row |-> FALSE, t |-> NoTenant, revoked |-> FALSE, pw |-> 0]
Status == {"none", "active", "archived", "deleted"}

Steps == {"idle", "open", "rotate", "switch", "logoutAll", "password", "savePassword", "revoke",
          "saveUser", "saveMember", "removeMember", "dropUser", "saveTenant", "deleteTenant"}
Request == [at : Steps, s : 0..MaxSessions, t : Tenants \cup {NoTenant}, pw : 0..MaxPasswords,
            active : BOOLEAN, lock : BOOLEAN, to : Status]
Idle == [at |-> "idle", s |-> 0, t |-> NoTenant, pw |-> 0,
         active |-> FALSE, lock |-> FALSE, to |-> "none"]

TypeOK ==
    /\ account \in Account \cup {NoAccount}
    /\ protected \in BOOLEAN
    /\ members \subseteq Tenants
    /\ tenant \in [Tenants -> Status]
    /\ session \in [Sessions -> Session \cup {NoSession}]
    /\ opened \in 0..MaxSessions
    /\ req \in [Callers -> Request]
    /\ loggedOut \subseteq Sessions
    /\ excused \subseteq Sessions
    /\ orphaned \in BOOLEAN

\* Only platform administrators are members of several tenants (createPlatformTenant).
Init ==
    /\ account = [row |-> TRUE, active |-> TRUE, pw |-> 1]
    /\ \E home \in Tenants :
          /\ members = {home}
          /\ tenant = [t \in Tenants |-> IF t = home THEN "active" ELSE "none"]
    /\ protected \in BOOLEAN
    /\ session = [s \in Sessions |-> NoSession]
    /\ opened = 0
    /\ req = [c \in Callers |-> Idle]
    /\ loggedOut = {} /\ excused = {} /\ orphaned = FALSE

-----------------------------------------------------------------------------
At(c, step) == req[c].at = step
Goto(c, r) == req' = [req EXCEPT ![c] = r]
Done(c) == Goto(c, Idle)

LiveIn(rows) == {s \in Sessions : rows[s].row /\ ~rows[s].revoked}
Live == LiveIn(session)

ActiveMemberships == {t \in members : tenant[t] = "active"}

\* findMembership and assertNotAdmin: whom the users service may work on
Manageable(t) == t \in members /\ ~protected

\* The access token of the session is accepted: membership, user, tenant, session.
Valid(s) ==
    /\ s \in Live
    /\ account.active
    /\ session[s].t \in ActiveMemberships

\* UPDATE auth_sessions SET revoked_at = now() WHERE ... AND revoked_at IS NULL
Revoke(which) ==
    /\ session' = [s \in Sessions |->
                      IF s \in which \cap Live THEN [session[s] EXCEPT !.revoked = TRUE] ELSE session[s]]
    /\ loggedOut' = loggedOut \cup (which \cap Live)

\* The rows of sessions go with their membership, tenant or user (ON DELETE CASCADE).
Cascade(gone) == [s \in Sessions |-> IF session[s].t \in gone THEN NoSession ELSE session[s]]

-----------------------------------------------------------------------------
(* Login: the password is verified on a row read before the session is made *)

Verify(c) ==
    /\ At(c, "idle")
    /\ account.row /\ account.active
    /\ Goto(c, [Idle EXCEPT !.at = "open", !.pw = account.pw])
    /\ UNCHANGED <<account, protected, members, tenant, session, opened, loggedOut, excused, orphaned>>

OpenSession(c) ==
    /\ At(c, "open")
    /\ opened < MaxSessions
    /\ account.row
    /\ \E t \in ActiveMemberships :
          session' = [session EXCEPT ![opened + 1] =
                         [row |-> TRUE, t |-> t, revoked |-> FALSE, pw |-> req[c].pw]]
    /\ opened' = opened + 1
    /\ excused' = IF account.active /\ account.pw = req[c].pw THEN excused ELSE excused \cup {opened + 1}
    /\ Done(c)
    /\ UNCHANGED <<account, protected, members, tenant, loggedOut, orphaned>>

(* Refresh: findOne, then save of the whole row *)

FindSession(c, s) ==
    /\ At(c, "idle")
    /\ Valid(s)
    /\ Goto(c, [Idle EXCEPT !.at = "rotate", !.s = s, !.t = session[s].t, !.pw = session[s].pw])
    /\ UNCHANGED <<account, protected, members, tenant, session, opened, loggedOut, excused, orphaned>>

\* What save writes: revokedAt, tenant and membership as they were read.
Saved(r) == [row |-> TRUE, t |-> r.t, revoked |-> FALSE, pw |-> r.pw]

\* An UPDATE, or an INSERT when the row is gone; either needs the membership read.
Rotate(c) ==
    /\ At(c, "rotate")
    /\ req[c].t \in members
    /\ session' = [session EXCEPT ![req[c].s] = Saved(req[c])]
    /\ excused' = IF session[req[c].s] = Saved(req[c]) THEN excused ELSE excused \cup {req[c].s}
    /\ Done(c)
    /\ UNCHANGED <<account, protected, members, tenant, opened, loggedOut, orphaned>>

(* Requests of somebody logged in: validate, then the handler *)

Authenticate(c, s, what) ==
    /\ At(c, "idle")
    /\ Valid(s)
    /\ Goto(c, [Idle EXCEPT !.at = what, !.s = s])
    /\ UNCHANGED <<account, protected, members, tenant, session, opened, loggedOut, excused, orphaned>>

SwitchTenant(c, t) ==
    /\ At(c, "switch")
    /\ t \in ActiveMemberships
    /\ session' = IF req[c].s \in Live THEN [session EXCEPT ![req[c].s].t = t] ELSE session
    /\ Done(c)
    /\ UNCHANGED <<account, protected, members, tenant, opened, loggedOut, excused, orphaned>>

\* Variant: the cookie is cleared and only the access token put on the blacklist.
LogoutOfTheBrowser(s) ==
    /\ s \in Live
    /\ loggedOut' = loggedOut \cup {s}
    /\ UNCHANGED <<account, protected, members, tenant, session, opened, req, excused, orphaned>>

Logout(s) ==
    /\ s \in Live
    /\ Revoke({s})
    /\ UNCHANGED <<account, protected, members, tenant, opened, req, excused, orphaned>>

LogoutAll(c) ==
    /\ At(c, "logoutAll")
    /\ Revoke(Sessions)
    /\ Done(c)
    /\ UNCHANGED <<account, protected, members, tenant, opened, excused, orphaned>>

(* Change of password: read and verify, save the whole user, revoke *)

VerifyPassword(c) ==
    /\ At(c, "password")
    /\ account.row
    /\ Goto(c, [Idle EXCEPT !.at = "savePassword", !.active = account.active])
    /\ UNCHANGED <<account, protected, members, tenant, session, opened, loggedOut, excused, orphaned>>

\* save inserts the user again when it was removed since.
SavePassword(c) ==
    /\ At(c, "savePassword")
    /\ account.pw < MaxPasswords
    /\ account' = [row |-> TRUE, active |-> req[c].active, pw |-> account.pw + 1]
    /\ orphaned' = (orphaned \/ members = {})
    /\ Goto(c, [Idle EXCEPT !.at = "revoke"])
    /\ UNCHANGED <<protected, members, tenant, session, opened, loggedOut, excused>>

RevokeAll(c) ==
    /\ At(c, "revoke")
    /\ Revoke(Sessions)
    /\ Done(c)
    /\ UNCHANGED <<account, protected, members, tenant, opened, excused, orphaned>>

-----------------------------------------------------------------------------
(* The users service, on accounts that are not protected *)

\* Variant: the new password leaves the sessions alone.
ResetOnly(c) ==
    /\ At(c, "idle")
    /\ \E t \in Tenants : Manageable(t)
    /\ account.pw < MaxPasswords
    /\ account' = [account EXCEPT !.pw = @ + 1]
    /\ UNCHANGED <<protected, members, tenant, session, opened, req, loggedOut, excused, orphaned>>

ResetPassword(c) ==
    /\ At(c, "idle")
    /\ \E t \in Tenants : Manageable(t)
    /\ account.pw < MaxPasswords
    /\ account' = [account EXCEPT !.pw = @ + 1]
    /\ Goto(c, [Idle EXCEPT !.at = "revoke"])
    /\ UNCHANGED <<protected, members, tenant, session, opened, loggedOut, excused, orphaned>>

\* isActive as the request sets it, or as it was read
ReadMember(c, t, active, lock) ==
    /\ At(c, "idle")
    /\ Manageable(t)
    /\ lock => ~active
    /\ Goto(c, [Idle EXCEPT !.at = "saveUser", !.t = t, !.active = active, !.lock = lock])
    /\ UNCHANGED <<account, protected, members, tenant, session, opened, loggedOut, excused, orphaned>>

\* Without a row the INSERT fails: the password was not read.
SaveUser(c) ==
    /\ At(c, "saveUser")
    /\ account.row
    /\ account' = [account EXCEPT !.active = req[c].active]
    /\ excused' = IF req[c].active \/ req[c].lock THEN excused ELSE excused \cup Live
    /\ Goto(c, [req[c] EXCEPT !.at = "saveMember"])
    /\ UNCHANGED <<protected, members, tenant, session, opened, loggedOut, orphaned>>

\* save inserts the membership again when it was removed since.
SaveMember(c) ==
    /\ At(c, "saveMember")
    /\ account.row /\ tenant[req[c].t] \in {"active", "archived"}
    /\ members' = members \cup {req[c].t}
    /\ Goto(c, IF req[c].lock THEN [Idle EXCEPT !.at = "revoke"] ELSE Idle)
    /\ UNCHANGED <<account, protected, tenant, session, opened, loggedOut, excused, orphaned>>

ReadToRemove(c, t) ==
    /\ At(c, "idle")
    /\ Manageable(t)
    /\ Goto(c, [Idle EXCEPT !.at = "removeMember", !.t = t])
    /\ UNCHANGED <<account, protected, members, tenant, session, opened, loggedOut, excused, orphaned>>

\* Variant: the foreign key of auth_sessions does not cascade.
RemoveRowOnly(c) ==
    /\ At(c, "removeMember")
    /\ members' = members \ {req[c].t}
    /\ Goto(c, [req[c] EXCEPT !.at = "dropUser"])
    /\ UNCHANGED <<account, protected, tenant, session, opened, loggedOut, excused, orphaned>>

RemoveMember(c) ==
    /\ At(c, "removeMember")
    /\ members' = members \ {req[c].t}
    /\ session' = Cascade({req[c].t})
    /\ Goto(c, [req[c] EXCEPT !.at = "dropUser"])
    /\ UNCHANGED <<account, protected, tenant, opened, loggedOut, excused, orphaned>>

IsLast == members = {}

\* The sessions of the tenant are revoked; the user goes with the last membership.
DropUser(c) ==
    /\ At(c, "dropUser")
    /\ IF IsLast
       THEN /\ account' = NoAccount
            /\ members' = {}
            /\ session' = [s \in Sessions |-> NoSession]
            /\ UNCHANGED loggedOut
       ELSE /\ Revoke({s \in Sessions : session[s].t = req[c].t})
            /\ UNCHANGED <<account, members>>
    /\ Done(c)
    /\ UNCHANGED <<protected, tenant, opened, excused, orphaned>>

-----------------------------------------------------------------------------
(* Tenants *)

\* Creating a tenant makes the administrator a member of it, in one transaction.
CreateTenant(t) ==
    /\ tenant[t] = "none"
    /\ protected /\ account.row
    /\ tenant' = [tenant EXCEPT ![t] = "active"]
    /\ members' = members \cup {t}
    /\ UNCHANGED <<account, protected, session, opened, req, loggedOut, excused, orphaned>>

\* A handler that found the tenant in one status and will save it in another.
ReadTenant(c, t, from, to) ==
    /\ At(c, "idle")
    /\ tenant[t] = from
    /\ Goto(c, [Idle EXCEPT !.at = "saveTenant", !.t = t, !.to = to])
    /\ UNCHANGED <<account, protected, members, tenant, session, opened, loggedOut, excused, orphaned>>

ReadToArchive(c, t) == ReadTenant(c, t, "active", "archived")

ReadToRestore(c, t) == ReadTenant(c, t, "archived", "active")

\* an update of name, modules or logo: the status is saved as it was read
ReadToUpdate(c, t) == ReadTenant(c, t, "active", "active")

\* save inserts a tenant that was deleted since.
SaveTenant(c) ==
    /\ At(c, "saveTenant")
    /\ tenant' = [tenant EXCEPT ![req[c].t] = req[c].to]
    /\ Done(c)
    /\ UNCHANGED <<account, protected, members, session, opened, loggedOut, excused, orphaned>>

ConfirmDeletion(c, t) ==
    /\ At(c, "idle")
    /\ tenant[t] = "archived"
    /\ Goto(c, [Idle EXCEPT !.at = "deleteTenant", !.t = t])
    /\ UNCHANGED <<account, protected, members, tenant, session, opened, loggedOut, excused, orphaned>>

\* One transaction: memberships, then the tenant with everything below it.
DeleteTenant(c) ==
    /\ At(c, "deleteTenant")
    /\ tenant' = [tenant EXCEPT ![req[c].t] = "deleted"]
    /\ members' = members \ {req[c].t}
    /\ session' = Cascade({req[c].t})
    /\ orphaned' = (orphaned \/ members' = {})
    /\ Done(c)
    /\ UNCHANGED <<account, protected, opened, loggedOut, excused>>

\* A refusal, a violated constraint or a crash ends the request where it is.
RevocationPending(c) == At(c, "revoke") \/ (At(c, "saveMember") /\ req[c].lock)

GiveUp(c) ==
    /\ ~At(c, "idle")
    /\ excused' = IF RevocationPending(c) THEN excused \cup Live ELSE excused
    /\ orphaned' = (orphaned \/ (At(c, "dropUser") /\ members = {}))
    /\ Done(c)
    /\ UNCHANGED <<account, protected, members, tenant, session, opened, loggedOut>>

Next ==
    \/ \E c \in Callers :
          \/ Verify(c) \/ OpenSession(c) \/ Rotate(c) \/ LogoutAll(c)
          \/ VerifyPassword(c) \/ SavePassword(c) \/ RevokeAll(c) \/ ResetPassword(c)
          \/ SaveUser(c) \/ SaveMember(c) \/ RemoveMember(c) \/ DropUser(c)
          \/ SaveTenant(c) \/ DeleteTenant(c) \/ GiveUp(c)
          \/ \E s \in Sessions :
                \/ FindSession(c, s)
                \/ \E what \in {"switch", "logoutAll", "password"} : Authenticate(c, s, what)
          \/ \E t \in Tenants :
                \/ SwitchTenant(c, t) \/ ReadToRemove(c, t) \/ ConfirmDeletion(c, t)
                \/ ReadMember(c, t, account.active, FALSE)
                \/ ReadMember(c, t, TRUE, FALSE)
                \/ ReadMember(c, t, FALSE, TRUE)
                \/ ReadToArchive(c, t) \/ ReadToRestore(c, t) \/ ReadToUpdate(c, t)
    \/ \E s \in Sessions : Logout(s)
    \/ \E t \in Tenants : CreateTenant(t)

Spec == Init /\ [][Next]_vars

-----------------------------------------------------------------------------
\* A session that was ended, by logout, by a new password, by a lock or by a removal,
\* stays ended, unless a refresh wrote back the row it had read before.
EndedForGood == \A s \in loggedOut \ excused : s \notin Live

\* Outside the window between writing a user and revoking its sessions, whoever is logged
\* in gave the password that is now valid and is not locked, unless a login or a refresh
\* acted on a row read before the change, or the request that made the change died in the window.
OnlyTheCurrentPasswordIsIn ==
    (\A c \in Callers : ~RevocationPending(c)) =>
        \A s \in Live \ excused : session[s].pw = account.pw /\ account.active

\* Whatever is saved, inserted again, removed or deleted: a session has its membership, a
\* membership its user and its tenant, and a deleted tenant leaves neither.
RowsBelongTogether ==
    /\ \A s \in Sessions : session[s].row => session[s].t \in members
    /\ members # {} => account.row
    /\ \A t \in members : tenant[t] \in {"active", "archived"}

\* A user outlives the last membership only while a removal is under way, after one that died,
\* after the deletion of the tenant, or by a change of password that inserted it again.
RemovedUsersAreGone ==
    account.row /\ members = {} => orphaned \/ \E c \in Callers : At(c, "dropUser")

\* The rows of an account fit together, whatever requests overlap: types, foreign keys, and
\* no user without membership but where something was left undone.
AccountsAreSound == TypeOK /\ RowsBelongTogether /\ RemovedUsersAreGone

=============================================================================
