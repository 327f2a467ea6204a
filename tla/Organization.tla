---------------------------- MODULE Organization ----------------------------
(***************************************************************************)
(* The organization of one tenant (tenancy.service.ts): units in a tree,   *)
(* a position and a membership placed in units, and the assignments of one *)
(* person.  Every handler reads, checks and then saves a whole row; the    *)
(* check of a new parent walks up the tree with one query per unit.        *)
(***************************************************************************)
EXTENDS Naturals, FiniteSets

CONSTANTS
    Callers,        \* requests in progress at a time
    Units,          \* rows of organization_units, those not yet made included
    NoUnit,         \* null
    Trees,          \* the trees (unit -> parent) an instance begins with
    Assignments,    \* rows of personnel_assignments of the person
    MaxRequests     \* bound: requests ever made

ASSUME NullIsNoUnit == NoUnit \notin Units

ASSUME TreesAreTrees ==
    \A tree \in Trees :
       /\ DOMAIN tree \subseteq Units
       /\ \A u \in DOMAIN tree : tree[u] \in DOMAIN tree \cup {NoUnit}
       /\ \A S \in SUBSET DOMAIN tree : S # {} => \E u \in S : tree[u] \notin S

ASSUME BoundIsANumber == MaxRequests \in Nat

VARIABLES
    unit,         \* unit -> its row
    position,     \* unit the position is placed in
    membership,   \* unit the membership is placed in
    assignment,   \* assignment -> its row
    req,          \* caller -> what it does next and what it read or will write
    requests,     \* how many requests were made
    overlap       \* history: kinds of writes that fell into another request

vars == <<unit, position, membership, assignment, req, requests, overlap>>

Parents == Units \cup {NoUnit}
Unit == [row : {"there"}, parent : Parents, active : BOOLEAN]
NoRow == [row |-> "none", parent |-> NoUnit, active |-> FALSE]
Removed == [row |-> "removed", parent |-> NoUnit, active |-> FALSE]
Assignment == [row : {TRUE}, in : Units, primary : BOOLEAN, ended : BOOLEAN]
NoAssignment == [row |-> FALSE, in |-> NoUnit, primary |-> FALSE, ended |-> FALSE]

Steps == {"idle", "walk", "saveUnit", "removeUnit", "place", "clear", "saveAssignment"}
Request == [at : Steps, u : Parents, here : Parents, parent : Parents, active : BOOLEAN,
            a : SUBSET Assignments, primary : BOOLEAN, ended : BOOLEAN]
Idle == [at |-> "idle", u |-> NoUnit, here |-> NoUnit, parent |-> NoUnit, active |-> FALSE,
         a |-> {}, primary |-> FALSE, ended |-> FALSE]

TypeOK ==
    /\ unit \in [Units -> Unit \cup {NoRow, Removed}]
    /\ position \in Parents /\ membership \in Parents
    /\ assignment \in [Assignments -> Assignment \cup {NoAssignment}]
    /\ req \in [Callers -> Request]
    /\ requests \in 0..MaxRequests
    /\ overlap \subseteq {"parent", "placement", "assignment"}

\* A tenant starts with a root unit (createPlatformTenant); nobody is placed yet.
Init ==
    /\ \E tree \in Trees :
          unit = [u \in Units |-> IF u \in DOMAIN tree
                                 THEN [row |-> "there", parent |-> tree[u], active |-> TRUE] ELSE NoRow]
    /\ position = NoUnit
    /\ membership = NoUnit
    /\ assignment = [a \in Assignments |-> NoAssignment]
    /\ req = [c \in Callers |-> Idle]
    /\ requests = 0
    /\ overlap = {}

-----------------------------------------------------------------------------
Exists(u) == u \in Units /\ unit[u].row = "there"
At(c, step) == req[c].at = step
Goto(c, r) == req' = [req EXCEPT ![c] = r]
Done(c) == Goto(c, Idle)

Begin(c, r) ==
    /\ At(c, "idle")
    /\ requests < MaxRequests
    /\ requests' = requests + 1
    /\ Goto(c, r)
    /\ UNCHANGED <<unit, position, membership, assignment, overlap>>

OthersIn(c, steps) == \E d \in Callers \ {c} : req[d].at \in steps
Mark(c, kind, steps) == overlap' = IF OthersIn(c, steps) THEN overlap \cup {kind} ELSE overlap

-----------------------------------------------------------------------------
(* Units *)

\* What the handler will save, behind the walk from a new parent and without one.
Walking(u, parent, active) ==
    [Idle EXCEPT !.at = "walk", !.u = u, !.here = parent, !.parent = parent, !.active = active]

Saving(u, parent, active) ==
    [Idle EXCEPT !.at = "saveUnit", !.u = u, !.parent = parent, !.active = active]

\* updateOrganizationUnit without a parentId: a rename, or (de)activation
EditUnit(c, u, active) ==
    /\ Exists(u)
    /\ Begin(c, Saving(u, unit[u].parent, active))

\* updateOrganizationUnit with a parentId
MoveUnit(c, u, p) ==
    /\ Exists(u) /\ p # u
    /\ Begin(c, IF p = NoUnit THEN Saving(u, NoUnit, unit[u].active) ELSE Walking(u, p, unit[u].active))

\* createOrganizationUnit: a new code, or the code of an inactive unit, which is revived
CreateUnit(c, u, p) ==
    /\ ~unit[u].active /\ unit[u].row # "removed" /\ p # u
    /\ unit[u].row = "none" => \A d \in Callers : req[d].u # u
    /\ Begin(c, IF p = NoUnit THEN Saving(u, NoUnit, TRUE) ELSE Walking(u, p, TRUE))

\* Variant: only the direct parent is compared, the walk does not go on.
LookAtTheParentOnly(c) ==
    /\ At(c, "walk")
    /\ Exists(req[c].here)
    /\ unit[req[c].here].parent # req[c].u
    /\ Goto(c, [req[c] EXCEPT !.at = "saveUnit", !.here = NoUnit])
    /\ UNCHANGED <<unit, position, membership, assignment, requests, overlap>>

\* Variant: the unit itself is looked up again and again.
WalkInPlace(c) ==
    /\ At(c, "walk")
    /\ Exists(req[c].here)
    /\ LET next == unit[req[c].here].parent IN
          /\ next # req[c].u
          /\ Goto(c, IF next = NoUnit THEN [req[c] EXCEPT !.at = "saveUnit", !.here = NoUnit] ELSE req[c])
    /\ UNCHANGED <<unit, position, membership, assignment, requests, overlap>>

\* One turn of the loop in assertOrganizationParent.
Walk(c) ==
    /\ At(c, "walk")
    /\ Exists(req[c].here)
    /\ LET next == unit[req[c].here].parent IN
          /\ next # req[c].u
          /\ Goto(c, IF next = NoUnit THEN [req[c] EXCEPT !.at = "saveUnit", !.here = NoUnit]
                     ELSE [req[c] EXCEPT !.here = next])
    /\ UNCHANGED <<unit, position, membership, assignment, requests, overlap>>

\* The walk meets the unit itself, or a unit that is gone: the request is refused.
RefuseParent(c) ==
    /\ At(c, "walk")
    /\ ~Exists(req[c].here) \/ unit[req[c].here].parent = req[c].u
    /\ Done(c)
    /\ UNCHANGED <<unit, position, membership, assignment, requests, overlap>>

\* save writes the whole row, or inserts it; the foreign key needs the parent.
SaveUnit(c) ==
    /\ At(c, "saveUnit")
    /\ req[c].parent = NoUnit \/ Exists(req[c].parent)
    /\ unit' = [unit EXCEPT ![req[c].u] =
                   [row |-> "there", parent |-> req[c].parent, active |-> req[c].active]]
    /\ IF unit[req[c].u].row # "none" /\ unit[req[c].u].parent # req[c].parent
       THEN Mark(c, "parent", {"walk", "saveUnit"}) ELSE UNCHANGED overlap
    /\ Done(c)
    /\ UNCHANGED <<position, membership, assignment, requests>>

HasChildren(u) == \E v \in Units : unit[v].parent = u

\* Variant: memberships are not counted.
EmptyOfPositions(u) == ~HasChildren(u) /\ position # u

Empty(u) == ~HasChildren(u) /\ position # u /\ membership # u

CheckUnitEmpty(c, u) ==
    /\ Exists(u) /\ Empty(u)
    /\ Begin(c, [Idle EXCEPT !.at = "removeUnit", !.u = u])

\* DELETE: children and assignments restrict it, placements are set to null.
RemoveUnit(c) ==
    /\ At(c, "removeUnit")
    /\ ~HasChildren(req[c].u)
    /\ \A a \in Assignments : assignment[a].row => assignment[a].in # req[c].u
    /\ unit' = [unit EXCEPT ![req[c].u] = Removed]
    /\ position' = IF position = req[c].u THEN NoUnit ELSE position
    /\ membership' = IF membership = req[c].u THEN NoUnit ELSE membership
    /\ Done(c)
    /\ UNCHANGED <<assignment, requests, overlap>>

-----------------------------------------------------------------------------
(* Placements: the unit is looked up, then the position or membership saved *)

Place(c, u) ==
    /\ Exists(u)
    /\ Begin(c, [Idle EXCEPT !.at = "place", !.u = u])

SavePosition(c) ==
    /\ At(c, "place")
    /\ Exists(req[c].u)
    /\ position' = req[c].u
    /\ Mark(c, "placement", {"removeUnit"})
    /\ Done(c)
    /\ UNCHANGED <<unit, membership, assignment, requests>>

\* users.update: the unit loaded with the membership wins over the new identifier,
\* so that only a membership without a unit can be placed.
SaveMembership(c) ==
    /\ At(c, "place")
    /\ Exists(req[c].u)
    /\ membership' = IF membership = NoUnit THEN req[c].u ELSE membership
    /\ Mark(c, "placement", {"removeUnit"})
    /\ Done(c)
    /\ UNCHANGED <<unit, position, assignment, requests>>

-----------------------------------------------------------------------------
(* Assignments of the person *)

CreateAssignment(c, a, u, primary) ==
    /\ Exists(u) /\ ~assignment[a].row
    /\ Begin(c, [Idle EXCEPT !.at = IF primary THEN "clear" ELSE "saveAssignment",
                             !.u = u, !.a = {a}, !.primary = primary])

UpdateAssignment(c, a, primary, ended) ==
    /\ assignment[a].row
    /\ Begin(c, [Idle EXCEPT !.at = IF primary /\ ~ended THEN "clear" ELSE "saveAssignment",
                             !.u = assignment[a].in, !.a = {a}, !.primary = primary, !.ended = ended])

\* UPDATE ... SET is_primary = false WHERE is_primary AND end_date IS NULL
ClearPrimary(c) ==
    /\ At(c, "clear")
    /\ assignment' = [a \in Assignments |->
                         IF assignment[a].row /\ ~assignment[a].ended
                         THEN [assignment[a] EXCEPT !.primary = FALSE] ELSE assignment[a]]
    /\ Mark(c, "assignment", {"clear", "saveAssignment"})
    /\ Goto(c, [req[c] EXCEPT !.at = "saveAssignment"])
    /\ UNCHANGED <<unit, position, membership, requests>>

\* One open assignment per unit (and position); the foreign key needs the unit.
SaveAssignment(c) ==
    /\ At(c, "saveAssignment")
    /\ Exists(req[c].u)
    /\ \A b \in Assignments \ req[c].a :
          ~req[c].ended /\ assignment[b].row /\ ~assignment[b].ended => assignment[b].in # req[c].u
    /\ assignment' = [a \in Assignments |->
                         IF a \in req[c].a
                         THEN [row |-> TRUE, in |-> req[c].u, primary |-> req[c].primary, ended |-> req[c].ended]
                         ELSE assignment[a]]
    /\ Mark(c, "assignment", {"clear", "saveAssignment"})
    /\ Done(c)
    /\ UNCHANGED <<unit, position, membership, requests>>

\* A violated constraint, a refusal or a crash.
GiveUp(c) ==
    /\ ~At(c, "idle")
    /\ Done(c)
    /\ UNCHANGED <<unit, position, membership, assignment, requests, overlap>>

HandleUnit(c) == Walk(c) \/ RefuseParent(c)

Next ==
    \E c \in Callers :
       \/ HandleUnit(c) \/ SaveUnit(c) \/ RemoveUnit(c)
       \/ SavePosition(c) \/ SaveMembership(c) \/ ClearPrimary(c) \/ SaveAssignment(c)
       \/ GiveUp(c)
       \/ \E u \in Units :
             \/ \E active \in BOOLEAN : EditUnit(c, u, active)
             \/ \E p \in Parents : MoveUnit(c, u, p) \/ CreateUnit(c, u, p)
             \/ CheckUnitEmpty(c, u) \/ Place(c, u)
             \/ \E a \in Assignments, primary \in BOOLEAN : CreateAssignment(c, a, u, primary)
       \/ \E a \in Assignments, primary, ended \in BOOLEAN : UpdateAssignment(c, a, primary, ended)

\* A request that was accepted goes on with its queries.
Fairness == \A c \in Callers : WF_vars(HandleUnit(c))

Spec == Init /\ [][Next]_vars /\ Fairness

-----------------------------------------------------------------------------
(* organizationTree: active units below their active parents *)

Active == {u \in Units : unit[u].active}
Roots == {u \in Active : unit[u].parent \notin Active}
Drawn(S) == Roots \subseteq S /\ \A u \in Active : unit[u].parent \in S => u \in S

\* The least set with the roots and the children of its members
Shown == {u \in Active : \A S \in SUBSET Active : Drawn(S) => u \in S}

\* While no change of a parent falls between the check and the save of another request
\* that writes a unit, the tree shows every active unit: renames, removals, revivals and
\* crashes may overlap as they like.  A unit that is saved after its removal gets its parent
\* by such a change.
TreeShowsEveryUnit == "parent" \notin overlap => Shown = Active

\* A removal takes nobody's placement away: it only happens on an empty unit, unless
\* somebody was placed in it between the count and the removal.
RemovalDisplacesNobody ==
    [][(position # NoUnit /\ position' = NoUnit) \/ (membership # NoUnit /\ membership' = NoUnit)
          => "placement" \in overlap]_vars

\* A person has at most one open primary assignment, unless two changes of assignments overlapped.
OnePrimary ==
    "assignment" \notin overlap =>
        Cardinality({a \in Assignments : assignment[a].primary /\ ~assignment[a].ended}) <= 1

\* The check of a parent comes to an end, unless overlapping moves closed a cycle.
WalksEnd == \A c \in Callers : At(c, "walk") ~> (~At(c, "walk") \/ "parent" \in overlap)

=============================================================================
