--------------------------- MODULE Administration ---------------------------
(***************************************************************************)
(* The administration of a tenant: its organization and the permissions of *)
(* a role of its own (rbac.service.ts).  The rows of role_permissions are  *)
(* kept in step by TypeORM: a save first loads the rows, then inserts and  *)
(* deletes what makes the difference to the role as it was read.           *)
(***************************************************************************)
EXTENDS Organization, Sequences

CONSTANT Catalogue  \* PERMISSION_CATALOG: keys split at their dots

\* A key whose second part is "view" ends there.
ASSUME ViewKeysHaveTwoParts ==
    \A key \in Catalogue : key[2] = "view" => key = <<key[1], "view">>

VARIABLES
    exists,     \* the role has its row
    granted,    \* its rows in role_permissions
    held,       \* a member has the role
    edit,       \* caller -> the change of the role in progress
    mixed       \* history: a grant changed between the load and the difference of a save

roleVars == <<exists, granted, held, edit, mixed>>
adminVars == <<vars, roleVars>>

NoEdit == [at |-> "idle", want |-> {}, add |-> {}, drop |-> {}]
Edit == [at : {"idle", "load", "apply", "count", "remove", "give"}, want : SUBSET Catalogue,
         add : SUBSET Catalogue, drop : SUBSET Catalogue]

AdminTypeOK ==
    /\ TypeOK
    /\ exists \in BOOLEAN /\ held \in BOOLEAN /\ mixed \in BOOLEAN
    /\ granted \subseteq Catalogue
    /\ edit \in [Callers -> Edit]

\* A role is made without permissions.
AdminInit ==
    /\ Init
    /\ exists = TRUE /\ held = FALSE /\ mixed = FALSE
    /\ granted = {}
    /\ edit = [c \in Callers |-> NoEdit]

EditAt(c, step) == edit[c].at = step

\* A request about the role counts with those about the organization.
BeginEdit(c, e) ==
    /\ EditAt(c, "idle") /\ At(c, "idle")
    /\ requests < MaxRequests
    /\ requests' = requests + 1
    /\ edit' = [edit EXCEPT ![c] = e]
    /\ UNCHANGED <<unit, position, membership, assignment, req, overlap, exists, granted, held, mixed>>

StepEdit(c, step, e) ==
    /\ EditAt(c, step)
    /\ edit' = [edit EXCEPT ![c] = e]
    /\ UNCHANGED vars

\* The key is split at its dots: the first two parts are the resource and the action.
Resource(key) == key[1]
Action(key) == key[2]

\* assertViewDependencies
ViewDependencies(keys) ==
    \A key \in keys : Action(key) # "view" => <<Resource(key), "view">> \in keys

\* assignPermissions: the role is read, the wanted keys are checked.
AssignPermissions(c, keys) ==
    /\ exists /\ ViewDependencies(keys)
    /\ BeginEdit(c, [NoEdit EXCEPT !.at = "load", !.want = keys])

\* update: a rename, which saves the role with the permissions it was read with.
Rename(c) ==
    /\ exists
    /\ BeginEdit(c, [NoEdit EXCEPT !.at = "load", !.want = granted])

\* The save loads the rows that are there and works out the difference.
LoadGrants(c) ==
    /\ exists
    /\ StepEdit(c, "load", [edit[c] EXCEPT !.at = "apply", !.add = edit[c].want \ granted,
                                           !.drop = granted \ edit[c].want])
    /\ UNCHANGED <<exists, granted, held, mixed>>

\* One transaction; a row that is there already is a conflict.
ApplyGrants(c) ==
    /\ exists /\ edit[c].add \cap granted = {}
    /\ granted' = (granted \cup edit[c].add) \ edit[c].drop
    /\ mixed' = (mixed \/ (granted' # granted /\ \E d \in Callers \ {c} : EditAt(d, "apply")))
    /\ StepEdit(c, "apply", NoEdit)
    /\ UNCHANGED <<exists, held>>

\* remove: the role is read and its members are counted.
ReadToRemoveRole(c) ==
    /\ exists /\ ~held
    /\ BeginEdit(c, [NoEdit EXCEPT !.at = "remove"])

\* Variant: the membership loses the role with it.
RemoveHeldRole(c) ==
    /\ exists' = FALSE /\ granted' = {}
    /\ StepEdit(c, "remove", NoEdit)
    /\ UNCHANGED <<held, mixed>>

\* membership_roles restricts the deletion of a role.
RemoveRole(c) ==
    /\ ~held
    /\ exists' = FALSE /\ granted' = {}
    /\ StepEdit(c, "remove", NoEdit)
    /\ UNCHANGED <<held, mixed>>

\* users.create and users.update: the role is found, then the membership saved with it.
FindRole(c) == exists /\ BeginEdit(c, [NoEdit EXCEPT !.at = "give"])

GiveRole(c) ==
    /\ exists
    /\ held' = TRUE
    /\ StepEdit(c, "give", NoEdit)
    /\ UNCHANGED <<exists, granted, mixed>>

TakeRole(c) ==
    /\ held /\ requests < MaxRequests /\ EditAt(c, "idle") /\ At(c, "idle")
    /\ held' = FALSE
    /\ requests' = requests + 1
    /\ UNCHANGED <<unit, position, membership, assignment, req, overlap, exists, granted, edit, mixed>>

\* A conflict, a restriction or a crash.
GiveUpEdit(c) ==
    /\ ~EditAt(c, "idle")
    /\ edit' = [edit EXCEPT ![c] = NoEdit]
    /\ UNCHANGED <<vars, exists, granted, held, mixed>>

\* A caller has one request in progress.
OrganizationStep ==
    /\ Next
    /\ \A c \in Callers : EditAt(c, "idle") \/ req'[c].at = "idle"
    /\ UNCHANGED roleVars

AdminNext ==
    \/ OrganizationStep
    \/ \E c \in Callers :
          \/ \E keys \in SUBSET Catalogue : AssignPermissions(c, keys)
          \/ Rename(c) \/ LoadGrants(c) \/ ApplyGrants(c)
          \/ ReadToRemoveRole(c) \/ RemoveRole(c)
          \/ FindRole(c) \/ GiveRole(c) \/ TakeRole(c) \/ GiveUpEdit(c)

AdminSpec == AdminInit /\ [][AdminNext]_adminVars /\ Fairness

-----------------------------------------------------------------------------
(* Properties *)

\* A role that may act on something may also view it, unless two saves of the role were
\* mixed: each is one transaction, but what it inserts and deletes was worked out before.
ActorsMayView ==
    ~mixed => \A key \in granted : key[2] # "view" => <<key[1], "view">> \in granted

\* The permissions of three parts under a resource that has no view permission of two
\* parts (workflow.definition.*) never get into a role, whatever is asked for and however
\* saves are mixed: only the protected role admin, filled by the seed, has them.
NeverGranted ==
    \A key \in granted : <<key[1], "view">> \in Catalogue

\* A role that a member has is never removed, even if it is given between the count of
\* its members and the removal.
HeldRolesExist == held => exists

\* Units and roles keep their rules under overlapping requests: one primary assignment for
\* each person, roles that may view what they act on, none with a key that cannot be
\* granted, and none removed while a member has it.
AdministrationIsSound ==
    AdminTypeOK /\ OnePrimary /\ ActorsMayView /\ NeverGranted /\ HeldRolesExist

=============================================================================
