------------------------- MODULE AdministrationProofs -------------------------
(***************************************************************************)
(* The tree of units, the placements, the primary assignment and the       *)
(* permissions of a role: for any tenant, callers and bounds.              *)
(*                                                                         *)
(* The walk up from a new parent is the heart of it.  While it is at some  *)
(* unit, every set that holds the new parent and is closed under parents,  *)
(* but for the unit that moves, holds that unit too.  At a root it follows *)
(* that no closed set is left when the unit is hung below its new parent.  *)
(***************************************************************************)
EXTENDS Administration, FiniteSetTheorems, TLAPS

Parent == [x \in Units |-> unit[x].parent]
Kept == {x \in Units : unit[x].row # "none"}
Open == {a \in Assignments : assignment[a].primary /\ ~assignment[a].ended}

\* P has no cycle: every nonempty set has a member whose parent lies outside of it.
Grounded(P) == \A S \in SUBSET Units : S # {} => \E x \in S : P[x] \notin S

\* u gets the parent p.
Put(P, u, p) == [x \in Units |-> IF x = u THEN p ELSE P[x]]

\* h is reached from p by the parents of units other than u.
Leads(P, u, p, h) ==
    \A T \in SUBSET Units : p \in T /\ (\A x \in T : x = u \/ P[x] \in T) => h \in T

\* What a request r may count on, whatever other requests do.
Named(r) == r.at # "idle" => r.u \in Units

Rooted(r, K) ==
    /\ r.at = "walk" =>
          /\ r.here \in Units /\ r.parent \in Units /\ r.here # r.u /\ r.parent # r.u
          /\ r.here = r.parent \/ (r.here \in K /\ r.parent \in K)
    /\ r.at = "saveUnit" => r.parent \in K \cup {NoUnit}

Single(r) == r.at \in {"clear", "saveAssignment"} => \E a \in Assignments : r.a = {a}

\* What it may count on while no write of another request fell into it.
Moves(r, P) ==
    /\ r.at = "walk" => Leads(P, r.u, r.parent, r.here)
    /\ r.at = "saveUnit" => Grounded(Put(P, r.u, r.parent))

Bare(r, p, m) == r.at = "removeUnit" => r.u # p /\ r.u # m

Cleared(r, O) == r.at = "saveAssignment" /\ r.primary /\ ~r.ended => O = {}

Rows == \A x \in Units : Parent[x] \in Kept \cup {NoUnit}
Requests == \A c \in Callers : Named(req[c]) /\ Rooted(req[c], Kept) /\ Single(req[c])
Forest == "parent" \notin overlap => Grounded(Parent) /\ \A c \in Callers : Moves(req[c], Parent)
Placements == "placement" \notin overlap => \A c \in Callers : Bare(req[c], position, membership)
Primaries ==
    "assignment" \notin overlap =>
        (\A a, b \in Open : a = b) /\ \A c \in Callers : Cleared(req[c], Open)

OrgInv == TypeOK /\ Rows /\ Requests /\ Forest /\ Placements /\ Primaries

-----------------------------------------------------------------------------
(* Parents as functions *)

\* A walk begins at the new parent.
LEMMA LeadsToItself ==
  ASSUME NEW P, NEW u, NEW p
  PROVE  Leads(P, u, p, p)
BY DEF Leads

\* One turn of the walk.
LEMMA LeadsOn ==
  ASSUME NEW P, NEW u, NEW p, NEW h, Leads(P, u, p, h), h # u
  PROVE  Leads(P, u, p, P[h])
BY DEF Leads

\* A walk that ended at a root did not pass the unit: its move closes no cycle.
LEMMA WalkedIsGrounded ==
  ASSUME NEW P, NEW u, NEW p, NEW h,
         Grounded(P), Leads(P, u, p, h), h # u, P[h] = NoUnit
  PROVE  Grounded(Put(P, u, p))
<1> SUFFICES ASSUME NEW S \in SUBSET Units, S # {}, \A x \in S : Put(P, u, p)[x] \in S
             PROVE  FALSE
    BY DEF Grounded
<1>1. \A x \in S : x # u => P[x] \in S
    BY DEF Put
<1>2. u \in S
    BY <1>1 DEF Grounded
<1>3. p \in S
    BY <1>2 DEF Put
<1>4. h \in S
    BY <1>1, <1>3 DEF Leads
<1> QED
    BY <1>1, <1>4, NullIsNoUnit

\* Units cut off from their parents close no cycle.
LEMMA CutIsGrounded ==
  ASSUME NEW P, NEW Q, \A x \in Units : Q[x] \in {P[x], NoUnit}, Grounded(P)
  PROVE  Grounded(Q)
<1> SUFFICES ASSUME NEW S \in SUBSET Units, S # {}
             PROVE  \E x \in S : Q[x] \notin S
    BY DEF Grounded
<1>1. PICK x \in S : P[x] \notin S
    BY DEF Grounded
<1> QED
    BY <1>1, NullIsNoUnit

\* They were on no way either.
LEMMA CutLeads ==
  ASSUME NEW P, NEW Q, \A x \in Units : Q[x] \in {P[x], NoUnit},
         NEW u, NEW p, NEW h, Leads(P, u, p, h)
  PROVE  Leads(Q, u, p, h)
<1> SUFFICES ASSUME NEW T \in SUBSET Units, p \in T, \A x \in T : x = u \/ Q[x] \in T
             PROVE  h \in T
    BY DEF Leads
<1>1. \A x \in T : x = u \/ P[x] \in T
    BY NullIsNoUnit
<1> QED
    BY <1>1 DEF Leads

\* A unit that nobody lies below gets its parent.
LEMMA LeafIsGrounded ==
  ASSUME NEW P, NEW v \in Units, NEW q, \A x \in Units : P[x] # v, q # v, Grounded(P)
  PROVE  Grounded(Put(P, v, q))
<1> SUFFICES ASSUME NEW S \in SUBSET Units, S # {}
             PROVE  \E x \in S : Put(P, v, q)[x] \notin S
    BY DEF Grounded
<1>1. CASE S = {v}
    BY <1>1 DEF Put
<1>2. CASE S # {v}
    <2>1. S \ {v} # {}
        BY <1>2
    <2>2. PICK x \in S \ {v} : P[x] \notin S \ {v}
        BY <2>1 DEF Grounded
    <2> QED
        BY <2>2 DEF Put
<1> QED
    BY <1>1, <1>2

\* It lies on no way between others.
LEMMA LeafLeads ==
  ASSUME NEW P, NEW v, NEW q, \A x \in Units : P[x] # v,
         NEW u, NEW p, NEW h, p # v, Leads(P, u, p, h)
  PROVE  Leads(Put(P, v, q), u, p, h)
<1> SUFFICES ASSUME NEW T \in SUBSET Units, p \in T, \A x \in T : x = u \/ Put(P, v, q)[x] \in T
             PROVE  h \in T
    BY DEF Leads
<1>1. \A x \in T \ {v} : x = u \/ P[x] \in T \ {v}
    BY DEF Put
<1>2. p \in T \ {v} /\ T \ {v} \in SUBSET Units
    OBVIOUS
<1> QED
    BY <1>1, <1>2 DEF Leads

\* Only the last of two parents counts, and parents of different units commute.
LEMMA PutTwice ==
  ASSUME NEW P, NEW u, NEW p, NEW v, NEW q
  PROVE  /\ Put(Put(P, u, p), u, q) = Put(P, u, q)
         /\ u # v => Put(Put(P, u, p), v, q) = Put(Put(P, v, q), u, p)
BY DEF Put

LEMMA PutItself ==
  ASSUME NEW P, P = [x \in Units |-> P[x]], NEW u
  PROVE  Put(P, u, P[u]) = P
<1>1. Put(P, u, P[u]) = [x \in Units |-> P[x]]
    BY DEF Put
<1> QED
    BY <1>1

\* Without a cycle every active unit hangs below a root of the tree that is shown.
LEMMA ForestIsShown ==
  ASSUME TypeOK, Grounded(Parent)
  PROVE  Shown = Active
<1> SUFFICES ASSUME NEW S \in SUBSET Active, Drawn(S)
             PROVE  S = Active
    BY DEF Shown
<1>1. Active \ S \in SUBSET Units
    BY DEF Active
<1> SUFFICES ASSUME Active \ S # {} PROVE FALSE
    OBVIOUS
<1>2. PICK x \in Active \ S : Parent[x] \notin Active \ S
    BY <1>1 DEF Grounded
<1>3. Parent[x] = unit[x].parent
    BY <1>1 DEF Parent
<1>4. CASE unit[x].parent \in S
    BY <1>4 DEF Drawn
<1>5. CASE unit[x].parent \notin Active
    BY <1>5 DEF Drawn, Roots
<1> QED
    BY <1>2, <1>3, <1>4, <1>5

-----------------------------------------------------------------------------
(* Rows and requests, field by field *)

\* The fields of a row.
LEMMA UnitFields ==
  ASSUME NEW w \in Unit \cup {NoRow, Removed}
  PROVE  /\ w.parent \in Parents /\ w.active \in BOOLEAN
         /\ w.row \in {"there", "none", "removed"}
<1>1. CASE w \in Unit
    BY <1>1 DEF Unit
<1>2. CASE w = NoRow
    BY <1>2, Zenon DEF NoRow, Parents
<1>3. CASE w = Removed
    BY <1>3, Zenon DEF Removed, Parents
<1> QED
    BY <1>1, <1>2, <1>3

\* A unit that is found has its row.
LEMMA FoundIsKept ==
  ASSUME NEW x, Exists(x)
  PROVE  x \in Kept /\ x \in Units
BY DEF Exists, Kept

\* The empty request.
LEMMA IdleFields ==
  Idle \in Request /\ Idle.at = "idle"
BY DEF Idle, Request, Steps, Parents

\* Requests that walk and requests that save.
LEMMA WalkingFields ==
  ASSUME NEW u \in Parents, NEW p \in Parents, NEW active \in BOOLEAN
  PROVE  LET r == Walking(u, p, active)
         IN  r \in Request /\ r.at = "walk" /\ r.u = u /\ r.here = p /\ r.parent = p
<1>1. Idle \in Request
    BY IdleFields
<1> HIDE DEF Idle
<1> QED
    BY <1>1 DEF Walking, Request, Steps

LEMMA SavingFields ==
  ASSUME NEW u \in Parents, NEW p \in Parents, NEW active \in BOOLEAN
  PROVE  LET r == Saving(u, p, active)
         IN  r \in Request /\ r.at = "saveUnit" /\ r.u = u /\ r.parent = p
<1>1. Idle \in Request
    BY IdleFields
<1> QED
    BY <1>1 DEF Saving, Request, Steps

\* A request that only asks counts on nothing.
LEMMA IdleAsks ==
  ASSUME NEW r, r.at \in {"idle", "place", "clear"}, r.at # "idle" => r.u \in Units,
         r.at = "clear" => \E a \in Assignments : r.a = {a}, NEW P, NEW K, NEW O, NEW p, NEW m
  PROVE  /\ Named(r) /\ Rooted(r, K) /\ Single(r)
         /\ Moves(r, P) /\ Bare(r, p, m) /\ Cleared(r, O)
BY DEF Named, Rooted, Single, Moves, Bare, Cleared

-----------------------------------------------------------------------------
(* Steps *)

\* What a step writes down about the requests it fell into.
LEMMA Marked ==
  ASSUME NEW c \in Callers, NEW kind, NEW steps, Mark(c, kind, steps)
  PROVE  /\ \A k : k \notin overlap' => k \notin overlap
         /\ kind \notin overlap' => \A d \in Callers : d # c => req[d].at \notin steps
         /\ kind \in {"parent", "placement", "assignment"}
               /\ overlap \subseteq {"parent", "placement", "assignment"} =>
            overlap' \subseteq {"parent", "placement", "assignment"}
BY DEF Mark, OthersIn

\* A step that changes the request of its caller only.
LEMMA RequestStep ==
  ASSUME OrgInv, NEW c \in Callers, NEW r \in Request,
         Named(r), Rooted(r, Kept), Single(r),
         "parent" \notin overlap => Moves(r, Parent),
         "placement" \notin overlap => Bare(r, position, membership),
         "assignment" \notin overlap => Cleared(r, Open),
         req' = [req EXCEPT ![c] = r], requests' \in 0..MaxRequests,
         UNCHANGED <<unit, position, membership, assignment, overlap>>
  PROVE  OrgInv'
<1>1. Parent' = Parent /\ Kept' = Kept /\ Open' = Open
    BY DEF Parent, Kept, Open
<1>2. \A d \in Callers : req'[d] = IF d = c THEN r ELSE req[d]
    BY DEF OrgInv, TypeOK
<1>3. TypeOK'
    BY DEF OrgInv, TypeOK
<1>4. Rows'
    BY <1>1 DEF OrgInv, Rows
<1>5. Requests'
    BY <1>1, <1>2 DEF OrgInv, Requests
<1>6. Forest'
    BY <1>1, <1>2 DEF OrgInv, Forest
<1>7. Placements'
    BY <1>2 DEF OrgInv, Placements
<1>8. Primaries'
    BY <1>1, <1>2 DEF OrgInv, Primaries
<1> QED
    BY <1>3, <1>4, <1>5, <1>6, <1>7, <1>8 DEF OrgInv

\* A request is made.
LEMMA BeginStep ==
  ASSUME OrgInv, NEW c \in Callers, NEW r \in Request,
         Named(r), Rooted(r, Kept), Single(r),
         "parent" \notin overlap => Moves(r, Parent),
         "placement" \notin overlap => Bare(r, position, membership),
         "assignment" \notin overlap => Cleared(r, Open),
         Begin(c, r)
  PROVE  OrgInv'
<1>1. /\ req' = [req EXCEPT ![c] = r]
      /\ UNCHANGED <<unit, position, membership, assignment, overlap>>
    BY DEF Begin, Goto
<1>2. requests \in 0..MaxRequests /\ requests < MaxRequests /\ requests' = requests + 1
    BY DEF Begin, OrgInv, TypeOK
<1>3. requests' \in 0..MaxRequests
    BY <1>2, BoundIsANumber
<1> QED
    BY <1>1, <1>3, RequestStep

\* A request ends and leaves the rest alone.
LEMMA DoneStep ==
  ASSUME OrgInv, NEW c \in Callers, Done(c),
         UNCHANGED <<unit, position, membership, assignment, requests, overlap>>
  PROVE  OrgInv'
<1>1. req' = [req EXCEPT ![c] = Idle]
    BY DEF Done, Goto
<1>2. Idle \in Request /\ Idle.at = "idle"
    BY IdleFields
<1>3. /\ Named(Idle) /\ Rooted(Idle, Kept) /\ Single(Idle)
      /\ Moves(Idle, Parent) /\ Bare(Idle, position, membership) /\ Cleared(Idle, Open)
    BY <1>2, IdleAsks
<1>4. requests' \in 0..MaxRequests
    BY DEF OrgInv, TypeOK
<1> HIDE DEF Idle
<1> QED
    BY <1>1, <1>2, <1>3, <1>4, RequestStep

\* A save of a unit is asked for, with a parent that closes no cycle.
LEMMA SavingIsSound ==
  ASSUME OrgInv, NEW u \in Units, NEW p \in Kept \cup {NoUnit}, NEW active \in BOOLEAN,
         "parent" \notin overlap => Grounded(Put(Parent, u, p)), NEW c \in Callers,
         Begin(c, Saving(u, p, active))
  PROVE  OrgInv'
<1> DEFINE r == Saving(u, p, active)
<1>1. u \in Parents /\ p \in Parents
    BY DEF Kept, Parents
<1>2. r \in Request /\ r.at = "saveUnit" /\ r.u = u /\ r.parent = p
    BY <1>1, SavingFields
<1> HIDE DEF r
<1>3. Named(r) /\ Rooted(r, Kept) /\ Single(r)
    BY <1>2 DEF Named, Rooted, Single
<1>4. "parent" \notin overlap => Moves(r, Parent)
    BY <1>2 DEF Moves
<1>5. Bare(r, position, membership) /\ Cleared(r, Open)
    BY <1>2 DEF Bare, Cleared
<1>6. Begin(c, r)
    BY DEF r
<1> QED
    BY <1>2, <1>3, <1>4, <1>5, <1>6, BeginStep

\* A walk begins at the new parent, which is not the unit itself.
LEMMA WalkingIsSound ==
  ASSUME OrgInv, NEW u \in Units, NEW p \in Units, p # u, NEW active \in BOOLEAN,
         NEW c \in Callers, Begin(c, Walking(u, p, active))
  PROVE  OrgInv'
<1> DEFINE r == Walking(u, p, active)
<1>1. u \in Parents /\ p \in Parents
    BY DEF Parents
<1>2. r \in Request /\ r.at = "walk" /\ r.u = u /\ r.here = p /\ r.parent = p
    BY <1>1, WalkingFields
<1> HIDE DEF r
<1>3. Named(r) /\ Rooted(r, Kept) /\ Single(r)
    BY <1>2 DEF Named, Rooted, Single
<1>4. Moves(r, Parent)
    BY <1>2, LeadsToItself DEF Moves
<1>5. Bare(r, position, membership) /\ Cleared(r, Open)
    BY <1>2 DEF Bare, Cleared
<1>6. Begin(c, r)
    BY DEF r
<1> QED
    BY <1>2, <1>3, <1>4, <1>5, <1>6, BeginStep

\* A unit that is hung below nothing, or stays where it is, closes no cycle.
LEMMA StayingIsGrounded ==
  ASSUME OrgInv, NEW u \in Units, "parent" \notin overlap
  PROVE  Grounded(Put(Parent, u, NoUnit)) /\ Grounded(Put(Parent, u, unit[u].parent))
<1>1. Grounded(Parent)
    BY DEF OrgInv, Forest
<1>2. \A x \in Units : Put(Parent, u, NoUnit)[x] \in {Parent[x], NoUnit}
    BY DEF Put
<1>3. Grounded(Put(Parent, u, NoUnit))
    BY <1>1, <1>2, CutIsGrounded
<1>4. Put(Parent, u, Parent[u]) = Parent
    BY PutItself DEF Parent
<1> QED
    BY <1>1, <1>3, <1>4 DEF Parent

LEMMA EditUnitStep ==
  ASSUME OrgInv, NEW c \in Callers, NEW u \in Units, NEW active \in BOOLEAN, EditUnit(c, u, active)
  PROVE  OrgInv'
<1>1. unit[u].parent \in Kept \cup {NoUnit}
    BY DEF OrgInv, Rows, Parent
<1>2. "parent" \notin overlap => Grounded(Put(Parent, u, unit[u].parent))
    BY StayingIsGrounded
<1>3. Begin(c, Saving(u, unit[u].parent, active))
    BY DEF EditUnit
<1>4. PICK p \in Kept \cup {NoUnit} : p = unit[u].parent
    BY <1>1
<1> QED
    BY <1>2, <1>3, <1>4, SavingIsSound

LEMMA MoveUnitStep ==
  ASSUME OrgInv, NEW c \in Callers, NEW u \in Units, NEW p \in Parents, MoveUnit(c, u, p)
  PROVE  OrgInv'
<1>1. unit[u].active \in BOOLEAN
    BY UnitFields DEF OrgInv, TypeOK
<1>2. PICK active \in BOOLEAN : active = unit[u].active
    BY <1>1
<1>3. CASE p = NoUnit
    <2>1. Begin(c, Saving(u, NoUnit, active))
        BY <1>2, <1>3 DEF MoveUnit
    <2> QED
        BY <2>1, StayingIsGrounded, SavingIsSound
<1>4. CASE p # NoUnit
    <2>1. Begin(c, Walking(u, p, active)) /\ p \in Units /\ p # u
        BY <1>2, <1>4 DEF MoveUnit, Parents
    <2> QED
        BY <2>1, WalkingIsSound
<1> QED
    BY <1>3, <1>4

LEMMA CreateUnitStep ==
  ASSUME OrgInv, NEW c \in Callers, NEW u \in Units, NEW p \in Parents, CreateUnit(c, u, p)
  PROVE  OrgInv'
<1>1. PICK active \in BOOLEAN : active = TRUE
    OBVIOUS
<1>2. CASE p = NoUnit
    <2>1. Begin(c, Saving(u, NoUnit, active))
        BY <1>1, <1>2 DEF CreateUnit
    <2> QED
        BY <2>1, StayingIsGrounded, SavingIsSound
<1>3. CASE p # NoUnit
    <2>1. Begin(c, Walking(u, p, active)) /\ p \in Units /\ p # u
        BY <1>1, <1>3 DEF CreateUnit, Parents
    <2> QED
        BY <2>1, WalkingIsSound
<1> QED
    BY <1>2, <1>3

\* One turn of the walk goes on to the parent, or finds the root and lets the unit be saved.
LEMMA WalkStep ==
  ASSUME OrgInv, NEW c \in Callers, Walk(c)
  PROVE  OrgInv'
<1>1. PICK r \in Request : r = req[c]
    BY DEF OrgInv, TypeOK
<1>2. PICK h \in Units : h = r.here
    BY <1>1 DEF Walk, Exists
<1>3. /\ r.at = "walk" /\ h \in Kept /\ unit[h].parent # r.u
      /\ req' = [req EXCEPT ![c] = IF unit[h].parent = NoUnit
                                   THEN [r EXCEPT !.at = "saveUnit", !.here = NoUnit]
                                   ELSE [r EXCEPT !.here = unit[h].parent]]
      /\ UNCHANGED <<unit, position, membership, assignment, requests, overlap>>
    BY <1>1, <1>2, FoundIsKept DEF Walk, At, Goto
<1>4. /\ r.u \in Units /\ r.parent \in Units /\ h # r.u /\ r.parent # r.u
      /\ r.parent \in Kept
    BY <1>1, <1>2, <1>3 DEF OrgInv, Requests, Named, Rooted
<1>5. "parent" \notin overlap => Grounded(Parent) /\ Leads(Parent, r.u, r.parent, h)
    BY <1>1, <1>2, <1>3 DEF OrgInv, Forest, Moves
<1>6. PICK n \in Kept \cup {NoUnit} : n = unit[h].parent /\ n = Parent[h]
    BY DEF OrgInv, Rows, Parent
<1>7. requests' \in 0..MaxRequests
    BY <1>3 DEF OrgInv, TypeOK
<1>8. CASE n = NoUnit
    <2>1. PICK s : s = [r EXCEPT !.at = "saveUnit", !.here = NoUnit]
        OBVIOUS
    <2>2. s \in Request /\ s.at = "saveUnit" /\ s.u = r.u /\ s.parent = r.parent
        BY <2>1 DEF Request, Steps, Parents
    <2>3. "parent" \notin overlap => Grounded(Put(Parent, r.u, r.parent))
        BY <1>4, <1>5, <1>6, <1>8, WalkedIsGrounded
    <2>4. Named(s) /\ Rooted(s, Kept) /\ Single(s)
        BY <1>4, <2>2 DEF Named, Rooted, Single
    <2>5. "parent" \notin overlap => Moves(s, Parent)
        BY <2>2, <2>3 DEF Moves
    <2>6. Bare(s, position, membership) /\ Cleared(s, Open)
        BY <2>2 DEF Bare, Cleared
    <2>7. req' = [req EXCEPT ![c] = s]
        BY <1>3, <1>6, <1>8, <2>1
    <2> QED
        BY <1>3, <1>7, <2>2, <2>4, <2>5, <2>6, <2>7, RequestStep
<1>9. CASE n # NoUnit
    <2>1. PICK s : s = [r EXCEPT !.here = n]
        OBVIOUS
    <2>2. n \in Units /\ n \in Kept /\ n # r.u
        BY <1>3, <1>6, <1>9 DEF Kept
    <2>3. /\ s \in Request /\ s.at = "walk" /\ s.u = r.u /\ s.parent = r.parent /\ s.here = n
        BY <1>3, <2>1, <2>2 DEF Request, Steps, Parents
    <2>4. "parent" \notin overlap => Leads(Parent, r.u, r.parent, n)
        BY <1>4, <1>5, <1>6, LeadsOn
    <2>5. Named(s) /\ Rooted(s, Kept) /\ Single(s)
        BY <1>4, <2>2, <2>3 DEF Named, Rooted, Single
    <2>6. "parent" \notin overlap => Moves(s, Parent)
        BY <2>3, <2>4 DEF Moves
    <2>7. Bare(s, position, membership) /\ Cleared(s, Open)
        BY <2>3 DEF Bare, Cleared
    <2>8. req' = [req EXCEPT ![c] = s]
        BY <1>3, <1>6, <1>9, <2>1
    <2> QED
        BY <1>3, <1>7, <2>3, <2>5, <2>6, <2>7, <2>8, RequestStep
<1> QED
    BY <1>8, <1>9

LEMMA RefuseParentStep ==
  ASSUME OrgInv, NEW c \in Callers, RefuseParent(c)
  PROVE  OrgInv'
BY DoneStep DEF RefuseParent

LEMMA GiveUpStep ==
  ASSUME OrgInv, NEW c \in Callers, GiveUp(c)
  PROVE  OrgInv'
BY DoneStep DEF GiveUp

\* A removal is asked for where nobody is.
LEMMA CheckUnitEmptyStep ==
  ASSUME OrgInv, NEW c \in Callers, NEW u \in Units, CheckUnitEmpty(c, u)
  PROVE  OrgInv'
<1> HIDE DEF Idle
<1>1. PICK r : r = [Idle EXCEPT !.at = "removeUnit", !.u = u]
    OBVIOUS
<1>2. r \in Request /\ r.at = "removeUnit" /\ r.u = u
    BY <1>1, IdleFields DEF Request, Steps, Parents
<1>3. Begin(c, r) /\ u # position /\ u # membership
    BY <1>1 DEF CheckUnitEmpty, Empty
<1>4. Named(r) /\ Rooted(r, Kept) /\ Single(r)
    BY <1>2 DEF Named, Rooted, Single
<1>5. Moves(r, Parent) /\ Cleared(r, Open) /\ Bare(r, position, membership)
    BY <1>2, <1>3 DEF Moves, Cleared, Bare
<1> QED
    BY <1>2, <1>3, <1>4, <1>5, BeginStep

LEMMA PlaceStep ==
  ASSUME OrgInv, NEW c \in Callers, NEW u \in Units, Place(c, u)
  PROVE  OrgInv'
<1> HIDE DEF Idle
<1>1. PICK r : r = [Idle EXCEPT !.at = "place", !.u = u]
    OBVIOUS
<1>2. r \in Request /\ r.at = "place" /\ r.u = u
    BY <1>1, IdleFields DEF Request, Steps, Parents
<1>3. Begin(c, r)
    BY <1>1 DEF Place
<1>4. /\ Named(r) /\ Rooted(r, Kept) /\ Single(r)
      /\ Moves(r, Parent) /\ Bare(r, position, membership) /\ Cleared(r, Open)
    BY <1>2, IdleAsks
<1> QED
    BY <1>2, <1>3, <1>4, BeginStep

\* A primary assignment that is not ended is only saved behind the clearing of the others.
LEMMA AssignmentIsAsked ==
  ASSUME OrgInv, NEW c \in Callers, NEW r \in Request, Begin(c, r), r.u \in Units,
         r.at \in {"clear", "saveAssignment"}, \E a \in Assignments : r.a = {a},
         r.at = "saveAssignment" => ~r.primary \/ r.ended
  PROVE  OrgInv'
<1>1. Named(r) /\ Rooted(r, Kept) /\ Single(r)
    BY DEF Named, Rooted, Single
<1>2. Moves(r, Parent) /\ Bare(r, position, membership) /\ Cleared(r, Open)
    BY DEF Moves, Bare, Cleared
<1> QED
    BY <1>1, <1>2, BeginStep

LEMMA CreateAssignmentStep ==
  ASSUME OrgInv, NEW c \in Callers, NEW a \in Assignments, NEW u \in Units,
         NEW primary \in BOOLEAN, CreateAssignment(c, a, u, primary)
  PROVE  OrgInv'
<1> HIDE DEF Idle
<1>1. PICK at \in {"clear", "saveAssignment"} : at = IF primary THEN "clear" ELSE "saveAssignment"
    OBVIOUS
<1>2. PICK r : r = [Idle EXCEPT !.at = at, !.u = u, !.a = {a}, !.primary = primary]
    OBVIOUS
<1>3. r \in Request /\ r.at = at /\ r.u = u /\ r.a = {a} /\ r.primary = primary
    BY <1>2, IdleFields DEF Request, Steps, Parents
<1>4. Begin(c, r)
    BY <1>1, <1>2 DEF CreateAssignment
<1>5. r.at = "saveAssignment" => ~r.primary
    BY <1>1, <1>3
<1> QED
    BY <1>3, <1>4, <1>5, AssignmentIsAsked

LEMMA AssignmentFields ==
  ASSUME NEW w \in Assignment \cup {NoAssignment}
  PROVE  /\ w.row => w \in Assignment
         /\ w \in Assignment => w.in \in Units /\ w.primary \in BOOLEAN /\ w.ended \in BOOLEAN
         /\ w.primary => w.row
<1>1. CASE w \in Assignment
    BY <1>1 DEF Assignment
<1>2. CASE w = NoAssignment
    <2>1. w.row = FALSE /\ w.primary = FALSE
        BY <1>2, Zenon DEF NoAssignment
    <2>2. w \notin Assignment
        BY <2>1 DEF Assignment
    <2> QED
        BY <2>1, <2>2
<1> QED
    BY <1>1, <1>2

LEMMA UpdateAssignmentStep ==
  ASSUME OrgInv, NEW c \in Callers, NEW a \in Assignments,
         NEW primary \in BOOLEAN, NEW ended \in BOOLEAN, UpdateAssignment(c, a, primary, ended)
  PROVE  OrgInv'
<1> HIDE DEF Idle
<1>1. PICK at \in {"clear", "saveAssignment"} :
         at = IF primary /\ ~ended THEN "clear" ELSE "saveAssignment"
    OBVIOUS
<1>2. PICK u \in Units : u = assignment[a].in
    BY AssignmentFields DEF UpdateAssignment, OrgInv, TypeOK
<1>3. PICK r : r = [Idle EXCEPT !.at = at, !.u = u, !.a = {a}, !.primary = primary, !.ended = ended]
    OBVIOUS
<1>4. r \in Request /\ r.at = at /\ r.u = u /\ r.a = {a} /\ r.primary = primary /\ r.ended = ended
    BY <1>3, IdleFields DEF Request, Steps, Parents
<1>5. Begin(c, r)
    BY <1>1, <1>2, <1>3 DEF UpdateAssignment
<1>6. r.at = "saveAssignment" => ~r.primary \/ r.ended
    BY <1>1, <1>4
<1> QED
    BY <1>4, <1>5, <1>6, AssignmentIsAsked

-----------------------------------------------------------------------------
(* Steps that write a row *)

\* A row of a unit is written.
LEMMA RowIsWritten ==
  ASSUME TypeOK, NEW u \in Units, NEW w \in Unit \cup {NoRow, Removed}, w.row # "none",
         unit' = [unit EXCEPT ![u] = w]
  PROVE  Parent' = Put(Parent, u, w.parent) /\ Kept' = Kept \cup {u}
<1>1. \A x \in Units : unit'[x] = IF x = u THEN w ELSE unit[x]
    BY DEF TypeOK
<1>2. Parent' = Put(Parent, u, w.parent)
    BY <1>1 DEF Parent, Put
<1>3. Kept' = Kept \cup {u}
    BY <1>1 DEF Kept
<1> QED
    BY <1>2, <1>3

\* More rows are no harm to a request.
LEMMA MoreIsKept ==
  ASSUME NEW r, NEW K, NEW L, Rooted(r, K), K \subseteq L
  PROVE  Rooted(r, L)
BY DEF Rooted

\* The caller of a step is idle behind it, the others are where they were.
LEMMA OthersStay ==
  ASSUME TypeOK, NEW c \in Callers, NEW r \in Request, req' = [req EXCEPT ![c] = r]
  PROVE  /\ req' \in [Callers -> Request]
         /\ \A d \in Callers : req'[d] = IF d = c THEN r ELSE req[d]
BY DEF TypeOK

\* A unit with a new row is below nothing and above nothing: other requests that meant to
\* move units lead where they led.
LEMMA NewRowIsNoHarm ==
  ASSUME OrgInv, "parent" \notin overlap, NEW u \in Units, u \notin Kept,
         NEW p \in Kept \cup {NoUnit}, NEW r, Rooted(r, Kept), Moves(r, Parent)
  PROVE  Moves(r, Put(Parent, u, p))
<1>1. u # NoUnit /\ p # u
    BY NullIsNoUnit
<1>2. \A x \in Units : Parent[x] # u
    BY <1>1 DEF OrgInv, Rows
<1>3. ASSUME r.at = "walk"
      PROVE  Leads(Put(Parent, u, p), r.u, r.parent, r.here)
    <2>1. CASE r.here = r.parent
        BY <2>1, LeadsToItself
    <2>2. CASE r.parent \in Kept
        <3>1. Leads(Parent, r.u, r.parent, r.here)
            BY <1>3 DEF Moves
        <3>2. r.parent # u
            BY <2>2
        <3> QED
            BY <1>2, <3>1, <3>2, LeafLeads
    <2> QED
        BY <1>3, <2>1, <2>2 DEF Rooted
<1>4. ASSUME r.at = "saveUnit"
      PROVE  Grounded(Put(Put(Parent, u, p), r.u, r.parent))
    <2>1. Grounded(Put(Parent, r.u, r.parent)) /\ r.parent # u
        BY <1>1, <1>4 DEF Moves, Rooted
    <2>2. CASE r.u = u
        BY <2>1, <2>2, PutTwice
    <2>3. CASE r.u # u
        <3> DEFINE Q == Put(Parent, r.u, r.parent)
        <3>1. \A x \in Units : Q[x] # u
            BY <1>2, <2>1 DEF Put
        <3>2. Grounded(Put(Q, u, p))
            <4> HIDE DEF Q
            <4>1. Grounded(Q)
                BY <2>1 DEF Q
            <4> QED
                BY <1>1, <3>1, <4>1, LeafIsGrounded
        <3>3. Put(Q, u, p) = Put(Put(Parent, u, p), r.u, r.parent)
            BY <2>3, PutTwice
        <3> QED
            BY <3>2, <3>3
    <2> QED
        BY <2>2, <2>3
<1> QED
    BY <1>3, <1>4 DEF Moves

\* A unit is saved: where its parent changes, no other request is at its check or its save,
\* or the step is written down; a new row is no harm.
LEMMA SaveUnitStep ==
  ASSUME OrgInv, NEW c \in Callers, SaveUnit(c)
  PROVE  OrgInv'
<1> HIDE DEF Idle
<1>1. PICK r \in Request : r = req[c]
    BY DEF OrgInv, TypeOK
<1>2. r.at = "saveUnit" /\ r.u \in Units /\ r.parent \in Kept \cup {NoUnit}
    BY <1>1 DEF SaveUnit, At, OrgInv, Requests, Named, Rooted
<1>3. PICK u \in Units : u = r.u
    BY <1>2
<1>4. PICK p \in Kept \cup {NoUnit} : p = r.parent
    BY <1>2
<1>5. PICK w : w = [row |-> "there", parent |-> p, active |-> r.active]
    OBVIOUS
<1>6. w \in Unit /\ w.row = "there" /\ w.parent = p
    <2>1. p \in Parents /\ r.active \in BOOLEAN
        BY DEF Kept, Parents, Request
    <2> QED
        BY <1>5, <2>1 DEF Unit
<1>7. /\ unit' = [unit EXCEPT ![u] = w] /\ req' = [req EXCEPT ![c] = Idle]
      /\ UNCHANGED <<position, membership, assignment, requests>>
    BY <1>1, <1>3, <1>4, <1>5 DEF SaveUnit, Done, Goto
<1>8. TypeOK
    BY DEF OrgInv
<1>9. Parent' = Put(Parent, u, p) /\ Kept' = Kept \cup {u} /\ Open' = Open
    BY <1>6, <1>7, <1>8, RowIsWritten DEF Open
<1>10. Idle \in Request /\ Idle.at = "idle"
    BY IdleFields
<1>11. req' \in [Callers -> Request] /\ \A d \in Callers : req'[d] = IF d = c THEN Idle ELSE req[d]
    BY <1>7, <1>8, <1>10, OthersStay
<1>12. /\ \A k : k \notin overlap' => k \notin overlap
       /\ overlap' \subseteq {"parent", "placement", "assignment"}
    <2>1. CASE Mark(c, "parent", {"walk", "saveUnit"})
        BY <1>8, <2>1, Marked DEF TypeOK
    <2>2. CASE overlap' = overlap
        BY <1>8, <2>2 DEF TypeOK
    <2> QED
        BY <2>1, <2>2 DEF SaveUnit
<1>13. \A P, K, O, m, n : /\ Named(Idle) /\ Rooted(Idle, K) /\ Single(Idle)
                          /\ Moves(Idle, P) /\ Bare(Idle, m, n) /\ Cleared(Idle, O)
    BY <1>10, IdleAsks
<1>14. TypeOK'
    BY <1>6, <1>7, <1>8, <1>11, <1>12 DEF TypeOK
<1>15. Rows'
    <2>1. \A x \in Units : Parent[x] \in Kept \cup {NoUnit}
        BY DEF OrgInv, Rows
    <2> QED
        BY <1>9, <2>1 DEF Rows, Put
<1>16. Requests'
    <2> SUFFICES ASSUME NEW d \in Callers
                 PROVE  Named(req'[d]) /\ Rooted(req'[d], Kept') /\ Single(req'[d])
        BY DEF Requests
    <2>1. Named(req[d]) /\ Rooted(req[d], Kept) /\ Single(req[d])
        BY DEF OrgInv, Requests
    <2>2. Rooted(req[d], Kept')
        BY <1>9, <2>1, MoreIsKept
    <2> QED
        BY <1>11, <1>13, <2>1, <2>2
<1>17. Forest'
    <2> SUFFICES ASSUME "parent" \notin overlap'
                 PROVE  Grounded(Parent') /\ \A d \in Callers : Moves(req'[d], Parent')
        BY DEF Forest
    <2>1. "parent" \notin overlap
        BY <1>12
    <2>2. \A d \in Callers : Moves(req[d], Parent)
        BY <2>1 DEF OrgInv, Forest
    <2>3. Grounded(Parent')
        BY <1>1, <1>2, <1>3, <1>4, <1>9, <2>2 DEF Moves
    <2>4. ASSUME NEW d \in Callers, d # c
          PROVE  Moves(req[d], Parent')
        <3>1. Rooted(req[d], Kept)
            BY DEF OrgInv, Requests
        <3>2. CASE u \notin Kept
            BY <1>9, <2>1, <2>2, <3>1, <3>2, NewRowIsNoHarm
        <3>3. CASE unit[u].parent = p
            <4>1. Put(Parent, u, Parent[u]) = Parent
                BY PutItself DEF Parent
            <4>2. Parent' = Parent
                BY <1>9, <3>3, <4>1 DEF Parent
            <4> QED
                BY <2>2, <4>2
        <3>4. CASE u \in Kept /\ unit[u].parent # p
            <4>1. Mark(c, "parent", {"walk", "saveUnit"})
                BY <1>1, <1>3, <1>4, <3>4 DEF SaveUnit, Kept
            <4>2. req[d].at \notin {"walk", "saveUnit"}
                BY <2>4, <4>1, Marked
            <4> QED
                BY <4>2 DEF Moves
        <3> QED
            BY <3>2, <3>3, <3>4
    <2> QED
        BY <1>11, <1>13, <2>3, <2>4
<1>18. Placements'
    BY <1>7, <1>11, <1>12, <1>13 DEF OrgInv, Placements
<1>19. Primaries'
    BY <1>9, <1>11, <1>12, <1>13 DEF OrgInv, Primaries
<1> QED
    BY <1>14, <1>15, <1>16, <1>17, <1>18, <1>19 DEF OrgInv

\* A unit without children is removed: no way led through it.
LEMMA RemoveUnitStep ==
  ASSUME OrgInv, NEW c \in Callers, RemoveUnit(c)
  PROVE  OrgInv'
<1> HIDE DEF Idle
<1>1. PICK u \in Units : u = req[c].u
    BY DEF RemoveUnit, At, OrgInv, Requests, Named
<1>2. PICK w : w = Removed
    OBVIOUS
<1>3. w \in {NoRow, Removed} /\ w.row = "removed" /\ w.parent = NoUnit
    BY <1>2 DEF Removed
<1>4. /\ unit' = [unit EXCEPT ![u] = w] /\ req' = [req EXCEPT ![c] = Idle]
      /\ position' \in {position, NoUnit} /\ membership' \in {membership, NoUnit}
      /\ UNCHANGED <<assignment, requests, overlap>>
    BY <1>1, <1>2 DEF RemoveUnit, Done, Goto
<1>5. TypeOK
    BY DEF OrgInv
<1>6. Parent' = Put(Parent, u, NoUnit) /\ Kept' = Kept \cup {u} /\ Open' = Open
    BY <1>3, <1>4, <1>5, RowIsWritten DEF Open
<1>7. Idle \in Request /\ Idle.at = "idle"
    BY IdleFields
<1>8. req' \in [Callers -> Request] /\ \A d \in Callers : req'[d] = IF d = c THEN Idle ELSE req[d]
    BY <1>4, <1>5, <1>7, OthersStay
<1>9. \A P, K, O, m, n : /\ Named(Idle) /\ Rooted(Idle, K) /\ Single(Idle)
                         /\ Moves(Idle, P) /\ Bare(Idle, m, n) /\ Cleared(Idle, O)
    BY <1>7, IdleAsks
<1>10. TypeOK'
    <2>1. unit' \in [Units -> Unit \cup {NoRow, Removed}]
        BY <1>3, <1>4, <1>5 DEF TypeOK
    <2>2. position' \in Parents /\ membership' \in Parents
        BY <1>4, <1>5 DEF TypeOK, Parents
    <2> QED
        BY <1>4, <1>5, <1>8, <2>1, <2>2 DEF TypeOK
<1>11. Rows'
    <2>1. \A x \in Units : Parent[x] \in Kept \cup {NoUnit}
        BY DEF OrgInv, Rows
    <2> QED
        BY <1>6, <2>1 DEF Rows, Put
<1>12. Requests'
    <2> SUFFICES ASSUME NEW d \in Callers
                 PROVE  Named(req'[d]) /\ Rooted(req'[d], Kept') /\ Single(req'[d])
        BY DEF Requests
    <2>1. Named(req[d]) /\ Rooted(req[d], Kept) /\ Single(req[d])
        BY DEF OrgInv, Requests
    <2>2. Rooted(req[d], Kept')
        BY <1>6, <2>1, MoreIsKept
    <2> QED
        BY <1>8, <1>9, <2>1, <2>2
<1>13. Forest'
    <2> SUFFICES ASSUME "parent" \notin overlap
                 PROVE  Grounded(Parent') /\ \A d \in Callers : Moves(req'[d], Parent')
        BY <1>4 DEF Forest
    <2>1. Grounded(Parent) /\ \A d \in Callers : Moves(req[d], Parent)
        BY DEF OrgInv, Forest
    <2>2. \A x \in Units : Parent'[x] \in {Parent[x], NoUnit}
        BY <1>6 DEF Put
    <2>3. Grounded(Parent')
        BY <2>1, <2>2, CutIsGrounded
    <2>4. ASSUME NEW d \in Callers
          PROVE  Moves(req[d], Parent')
        <3>1. PICK r : r = req[d]
            OBVIOUS
        <3>2. Moves(r, Parent)
            BY <2>1, <3>1
        <3>3. r.at = "walk" => Leads(Parent', r.u, r.parent, r.here)
            BY <2>2, <3>2, CutLeads DEF Moves
        <3>4. \A x \in Units : Put(Parent', r.u, r.parent)[x] \in {Put(Parent, r.u, r.parent)[x], NoUnit}
            BY <2>2 DEF Put
        <3>5. r.at = "saveUnit" => Grounded(Put(Parent', r.u, r.parent))
            BY <3>2, <3>4, CutIsGrounded DEF Moves
        <3> QED
            BY <3>1, <3>3, <3>5 DEF Moves
    <2> QED
        BY <1>8, <1>9, <2>3, <2>4
<1>14. Placements'
    <2> SUFFICES ASSUME "placement" \notin overlap, NEW d \in Callers
                 PROVE  Bare(req'[d], position', membership')
        BY <1>4 DEF Placements
    <2>1. Named(req[d]) /\ Bare(req[d], position, membership)
        BY DEF OrgInv, Requests, Placements
    <2>2. Bare(req[d], position', membership')
        BY <1>4, <2>1, NullIsNoUnit DEF Bare, Named
    <2> QED
        BY <1>8, <1>9, <2>2
<1>15. Primaries'
    BY <1>4, <1>6, <1>8, <1>9 DEF OrgInv, Primaries
<1> QED
    BY <1>10, <1>11, <1>12, <1>13, <1>14, <1>15 DEF OrgInv

\* A position or a membership is placed; a removal of the unit that is under way is written down.
LEMMA PlacementStep ==
  ASSUME OrgInv, NEW c \in Callers, At(c, "place"),
         position' \in {position, req[c].u}, membership' \in {membership, req[c].u},
         Mark(c, "placement", {"removeUnit"}), Done(c), UNCHANGED <<unit, assignment, requests>>
  PROVE  OrgInv'
<1> HIDE DEF Idle
<1>1. TypeOK
    BY DEF OrgInv
<1>2. req[c].u \in Units
    BY DEF At, OrgInv, Requests, Named
<1>3. Parent' = Parent /\ Kept' = Kept /\ Open' = Open
    BY DEF Parent, Kept, Open
<1>4. Idle \in Request /\ Idle.at = "idle"
    BY IdleFields
<1>5. req' \in [Callers -> Request] /\ \A d \in Callers : req'[d] = IF d = c THEN Idle ELSE req[d]
    BY <1>1, <1>4, OthersStay DEF Done, Goto
<1>6. \A P, K, O, m, n : /\ Named(Idle) /\ Rooted(Idle, K) /\ Single(Idle)
                         /\ Moves(Idle, P) /\ Bare(Idle, m, n) /\ Cleared(Idle, O)
    BY <1>4, IdleAsks
<1>7. /\ \A k : k \notin overlap' => k \notin overlap
      /\ "placement" \notin overlap' => \A d \in Callers : d # c => req[d].at \notin {"removeUnit"}
      /\ overlap' \subseteq {"parent", "placement", "assignment"}
    BY <1>1, Marked DEF TypeOK
<1>8. TypeOK'
    BY <1>1, <1>2, <1>5, <1>7 DEF TypeOK, Parents
<1>9. Rows'
    BY <1>3 DEF OrgInv, Rows
<1>10. Requests'
    BY <1>3, <1>5, <1>6 DEF OrgInv, Requests
<1>11. Forest'
    BY <1>3, <1>5, <1>6, <1>7 DEF OrgInv, Forest
<1>12. Placements'
    <2> SUFFICES ASSUME "placement" \notin overlap', NEW d \in Callers
                 PROVE  Bare(req'[d], position', membership')
        BY DEF Placements
    <2>1. d # c => Bare(req[d], position', membership')
        BY <1>7 DEF Bare
    <2> QED
        BY <1>5, <1>6, <2>1
<1>13. Primaries'
    BY <1>3, <1>5, <1>6, <1>7 DEF OrgInv, Primaries
<1> QED
    BY <1>8, <1>9, <1>10, <1>11, <1>12, <1>13 DEF OrgInv

LEMMA SavePositionStep ==
  ASSUME OrgInv, NEW c \in Callers, SavePosition(c)
  PROVE  OrgInv'
BY PlacementStep DEF SavePosition

LEMMA SaveMembershipStep ==
  ASSUME OrgInv, NEW c \in Callers, SaveMembership(c)
  PROVE  OrgInv'
BY PlacementStep DEF SaveMembership

\* The open assignments of the person lose the primary; the request goes on to its save.
LEMMA ClearPrimaryStep ==
  ASSUME OrgInv, NEW c \in Callers, ClearPrimary(c)
  PROVE  OrgInv'
<1>1. TypeOK
    BY DEF OrgInv
<1>2. PICK r \in Request : r = req[c]
    BY <1>1 DEF TypeOK
<1>3. r.at = "clear" /\ Named(r) /\ Single(r)
    BY <1>2 DEF ClearPrimary, At, OrgInv, Requests
<1>4. PICK s : s = [r EXCEPT !.at = "saveAssignment"]
    OBVIOUS
<1>5. s \in Request /\ s.at = "saveAssignment" /\ s.u = r.u /\ s.a = r.a
    BY <1>4 DEF Request, Steps
<1>6. /\ req' = [req EXCEPT ![c] = s]
      /\ UNCHANGED <<unit, position, membership, requests>>
    BY <1>2, <1>4 DEF ClearPrimary, Goto
<1>7. req' \in [Callers -> Request] /\ \A d \in Callers : req'[d] = IF d = c THEN s ELSE req[d]
    BY <1>1, <1>5, <1>6, OthersStay
<1>8. Parent' = Parent /\ Kept' = Kept
    BY <1>6 DEF Parent, Kept
<1>9. ASSUME NEW a \in Assignments
      PROVE  /\ assignment'[a] \in Assignment \cup {NoAssignment}
             /\ ~(assignment'[a].primary /\ ~assignment'[a].ended)
    <2>1. PICK w \in Assignment \cup {NoAssignment} : w = assignment[a]
        BY <1>1 DEF TypeOK
    <2>2. assignment'[a] = IF w.row /\ ~w.ended THEN [w EXCEPT !.primary = FALSE] ELSE w
        BY <2>1 DEF ClearPrimary
    <2>3. CASE w.row /\ ~w.ended
        <3>1. w \in Assignment
            BY <2>3, AssignmentFields
        <3>2. PICK x : x = [w EXCEPT !.primary = FALSE]
            OBVIOUS
        <3>3. x \in Assignment /\ ~x.primary
            BY <3>1, <3>2 DEF Assignment
        <3> QED
            BY <2>2, <2>3, <3>2, <3>3
    <2>4. CASE ~(w.row /\ ~w.ended)
        BY <2>2, <2>4, AssignmentFields
    <2> QED
        BY <2>3, <2>4
<1>10. Open' = {}
    BY <1>9 DEF Open
<1>11. assignment' \in [Assignments -> Assignment \cup {NoAssignment}]
    <2>1. assignment' = [a \in Assignments |-> assignment'[a]]
        BY DEF ClearPrimary
    <2> QED
        BY <1>9, <2>1
<1>12. /\ \A k : k \notin overlap' => k \notin overlap
       /\ overlap' \subseteq {"parent", "placement", "assignment"}
    BY <1>1, Marked DEF ClearPrimary, TypeOK
<1>13. TypeOK'
    BY <1>1, <1>6, <1>7, <1>11, <1>12 DEF TypeOK
<1>14. Rows'
    BY <1>8 DEF OrgInv, Rows
<1>15. \A K : Named(s) /\ Rooted(s, K) /\ Single(s)
    BY <1>3, <1>5 DEF Named, Rooted, Single
<1>16. \A P, m, n : Moves(s, P) /\ Bare(s, m, n)
    BY <1>5 DEF Moves, Bare
<1>17. Requests'
    BY <1>7, <1>8, <1>15 DEF OrgInv, Requests
<1>18. Forest'
    BY <1>7, <1>8, <1>12, <1>16 DEF OrgInv, Forest
<1>19. Placements'
    BY <1>6, <1>7, <1>12, <1>16 DEF OrgInv, Placements
<1>20. Primaries'
    BY <1>10 DEF Primaries, Cleared
<1> QED
    BY <1>13, <1>14, <1>17, <1>18, <1>19, <1>20 DEF OrgInv

\* An assignment is saved; if it is the open primary one, no other was open and primary.
LEMMA SaveAssignmentStep ==
  ASSUME OrgInv, NEW c \in Callers, SaveAssignment(c)
  PROVE  OrgInv'
<1> HIDE DEF Idle
<1>1. TypeOK
    BY DEF OrgInv
<1>2. PICK r \in Request : r = req[c]
    BY <1>1 DEF TypeOK
<1>3. r.at = "saveAssignment" /\ r.u \in Units
    BY <1>2 DEF SaveAssignment, At, OrgInv, Requests, Named
<1>4. PICK b \in Assignments : r.a = {b}
    BY <1>2, <1>3 DEF OrgInv, Requests, Single
<1>5. PICK w : w = [row |-> TRUE, in |-> r.u, primary |-> r.primary, ended |-> r.ended]
    OBVIOUS
<1>6. w \in Assignment /\ w.primary = r.primary /\ w.ended = r.ended
    <2>1. r.primary \in BOOLEAN /\ r.ended \in BOOLEAN
        BY DEF Request
    <2>2. w \in Assignment
        BY <1>3, <1>5, <2>1 DEF Assignment
    <2> QED
        BY <1>5, <2>2
<1>7. assignment' = [a \in Assignments |-> IF a = b THEN w ELSE assignment[a]]
    BY <1>2, <1>4, <1>5 DEF SaveAssignment
<1>8. req' = [req EXCEPT ![c] = Idle] /\ UNCHANGED <<unit, position, membership, requests>>
    BY DEF SaveAssignment, Done, Goto
<1>9. Parent' = Parent /\ Kept' = Kept
    BY <1>8 DEF Parent, Kept
<1>10. Idle \in Request /\ Idle.at = "idle"
    BY IdleFields
<1>11. req' \in [Callers -> Request] /\ \A d \in Callers : req'[d] = IF d = c THEN Idle ELSE req[d]
    BY <1>1, <1>8, <1>10, OthersStay
<1>12. \A P, K, O, m, n : /\ Named(Idle) /\ Rooted(Idle, K) /\ Single(Idle)
                          /\ Moves(Idle, P) /\ Bare(Idle, m, n) /\ Cleared(Idle, O)
    BY <1>10, IdleAsks
<1>13. /\ \A k : k \notin overlap' => k \notin overlap
       /\ "assignment" \notin overlap' =>
             \A d \in Callers : d # c => req[d].at \notin {"clear", "saveAssignment"}
       /\ overlap' \subseteq {"parent", "placement", "assignment"}
    BY <1>1, Marked DEF SaveAssignment, TypeOK
<1>14. TypeOK'
    BY <1>1, <1>6, <1>7, <1>8, <1>11, <1>13 DEF TypeOK
<1>15. Rows'
    BY <1>9 DEF OrgInv, Rows
<1>16. Requests'
    BY <1>9, <1>11, <1>12 DEF OrgInv, Requests
<1>17. Forest'
    BY <1>9, <1>11, <1>12, <1>13 DEF OrgInv, Forest
<1>18. Placements'
    BY <1>8, <1>11, <1>12, <1>13 DEF OrgInv, Placements
<1>19. Primaries'
    <2> SUFFICES ASSUME "assignment" \notin overlap'
                 PROVE  (\A x, y \in Open' : x = y) /\ \A d \in Callers : Cleared(req'[d], Open')
        BY DEF Primaries
    <2>1. (\A x, y \in Open : x = y) /\ Cleared(r, Open)
        BY <1>2, <1>13 DEF OrgInv, Primaries
    <2>2. \A a \in Assignments : a # b => assignment'[a] = assignment[a]
        BY <1>7
    <2>3. assignment'[b] = w
        BY <1>7
    <2>4. Open' \subseteq Open \cup {b}
        BY <2>2 DEF Open
    <2>5. \A x, y \in Open' : x = y
        <3>1. CASE Open = {}
            BY <2>4, <3>1
        <3>2. CASE ~(r.primary /\ ~r.ended)
            <4>1. b \notin Open'
                BY <1>6, <2>3, <3>2 DEF Open
            <4> QED
                BY <2>1, <2>4, <4>1
        <3> QED
            BY <1>3, <2>1, <3>1, <3>2 DEF Cleared
    <2>6. \A d \in Callers : Cleared(req'[d], Open')
        BY <1>11, <1>12, <1>13 DEF Cleared
    <2> QED
        BY <2>5, <2>6
<1> QED
    BY <1>14, <1>15, <1>16, <1>17, <1>18, <1>19 DEF OrgInv

-----------------------------------------------------------------------------
(* The invariant of the organization *)

LEMMA OrgInvInit ==
  Init => OrgInv
<1> SUFFICES ASSUME Init PROVE OrgInv
    OBVIOUS
<1> HIDE DEF Idle
<1>1. PICK tree \in Trees :
         unit = [u \in Units |-> IF u \in DOMAIN tree
                                THEN [row |-> "there", parent |-> tree[u], active |-> TRUE] ELSE NoRow]
    BY DEF Init
<1>2. /\ DOMAIN tree \subseteq Units
      /\ \A u \in DOMAIN tree : tree[u] \in DOMAIN tree \cup {NoUnit}
      /\ \A S \in SUBSET DOMAIN tree : S # {} => \E u \in S : tree[u] \notin S
    BY TreesAreTrees
<1>3. ASSUME NEW u \in DOMAIN tree
      PROVE  /\ unit[u] \in Unit /\ unit[u].row = "there" /\ unit[u].parent = tree[u]
    <2>1. PICK active \in BOOLEAN : active = TRUE
        OBVIOUS
    <2>2. unit[u] = [row |-> "there", parent |-> tree[u], active |-> active]
        BY <1>1, <1>2, <2>1
    <2>3. tree[u] \in Parents
        BY <1>2 DEF Parents
    <2> QED
        BY <2>2, <2>3 DEF Unit
<1>4. ASSUME NEW u \in Units, u \notin DOMAIN tree
      PROVE  unit[u] = NoRow /\ unit[u].parent = NoUnit
    BY <1>1, <1>4 DEF NoRow
<1>5. Idle \in Request /\ Idle.at = "idle" /\ \A c \in Callers : req[c] = Idle
    BY IdleFields DEF Init
<1>6. \A P, K, O, m, n : /\ Named(Idle) /\ Rooted(Idle, K) /\ Single(Idle)
                         /\ Moves(Idle, P) /\ Bare(Idle, m, n) /\ Cleared(Idle, O)
    BY <1>5, IdleAsks
<1>7. TypeOK
    <2>1. unit \in [Units -> Unit \cup {NoRow, Removed}]
        BY <1>1, <1>3, <1>4
    <2>2. /\ position \in Parents /\ membership \in Parents
          /\ assignment \in [Assignments -> Assignment \cup {NoAssignment}]
          /\ requests \in 0..MaxRequests /\ overlap = {}
        BY BoundIsANumber DEF Init, Parents
    <2>3. req \in [Callers -> Request]
        BY <1>5 DEF Init
    <2> QED
        BY <2>1, <2>2, <2>3 DEF TypeOK
<1>8. Rows
    <2> SUFFICES ASSUME NEW x \in Units PROVE Parent[x] \in Kept \cup {NoUnit}
        BY DEF Rows
    <2>1. CASE x \in DOMAIN tree
        BY <1>2, <1>3, <2>1 DEF Parent, Kept
    <2>2. CASE x \notin DOMAIN tree
        BY <1>4, <2>2 DEF Parent
    <2> QED
        BY <2>1, <2>2
<1>9. Grounded(Parent)
    <2> SUFFICES ASSUME NEW S \in SUBSET Units, S # {}
                 PROVE  \E x \in S : Parent[x] \notin S
        BY DEF Grounded
    <2>1. CASE S \subseteq DOMAIN tree
        <3>1. PICK x \in S : tree[x] \notin S
            BY <1>2, <2>1
        <3> QED
            BY <1>3, <2>1, <3>1 DEF Parent
    <2>2. CASE ~(S \subseteq DOMAIN tree)
        <3>1. PICK x \in S : x \notin DOMAIN tree
            BY <2>2
        <3> QED
            BY <1>4, <3>1, NullIsNoUnit DEF Parent
    <2> QED
        BY <2>1, <2>2
<1>10. Open = {}
    <2>1. ASSUME NEW a \in Assignments PROVE ~assignment[a].primary
        <3>1. assignment[a] = NoAssignment
            BY DEF Init
        <3>2. NoAssignment.primary = FALSE
            BY Zenon DEF NoAssignment
        <3> QED
            BY <3>1, <3>2
    <2> QED
        BY <2>1 DEF Open
<1>11. Requests /\ Forest /\ Placements /\ Primaries
    BY <1>5, <1>6, <1>9, <1>10 DEF Requests, Forest, Placements, Primaries
<1> QED
    BY <1>7, <1>8, <1>11 DEF OrgInv

LEMMA OrgInvNext ==
  ASSUME OrgInv, Next
  PROVE  OrgInv'
<1>1. PICK c \in Callers :
         \/ HandleUnit(c) \/ SaveUnit(c) \/ RemoveUnit(c)
         \/ SavePosition(c) \/ SaveMembership(c) \/ ClearPrimary(c) \/ SaveAssignment(c)
         \/ GiveUp(c)
         \/ \E u \in Units :
               \/ \E active \in BOOLEAN : EditUnit(c, u, active)
               \/ \E p \in Parents : MoveUnit(c, u, p) \/ CreateUnit(c, u, p)
               \/ CheckUnitEmpty(c, u) \/ Place(c, u)
               \/ \E a \in Assignments, primary \in BOOLEAN : CreateAssignment(c, a, u, primary)
         \/ \E a \in Assignments, primary, ended \in BOOLEAN : UpdateAssignment(c, a, primary, ended)
    BY DEF Next
<1>2. CASE HandleUnit(c)
    BY <1>2, WalkStep, RefuseParentStep DEF HandleUnit
<1>3. CASE SaveUnit(c) \/ RemoveUnit(c)
    BY <1>3, SaveUnitStep, RemoveUnitStep
<1>4. CASE SavePosition(c) \/ SaveMembership(c)
    BY <1>4, SavePositionStep, SaveMembershipStep
<1>5. CASE ClearPrimary(c) \/ SaveAssignment(c)
    BY <1>5, ClearPrimaryStep, SaveAssignmentStep
<1>6. CASE GiveUp(c)
    BY <1>6, GiveUpStep
<1>7. ASSUME NEW u \in Units,
             \/ \E active \in BOOLEAN : EditUnit(c, u, active)
             \/ \E p \in Parents : MoveUnit(c, u, p) \/ CreateUnit(c, u, p)
      PROVE  OrgInv'
    BY <1>7, EditUnitStep, MoveUnitStep, CreateUnitStep
<1>8. ASSUME NEW u \in Units,
             \/ CheckUnitEmpty(c, u) \/ Place(c, u)
             \/ \E a \in Assignments, primary \in BOOLEAN : CreateAssignment(c, a, u, primary)
      PROVE  OrgInv'
    BY <1>8, CheckUnitEmptyStep, PlaceStep, CreateAssignmentStep
<1>9. ASSUME NEW a \in Assignments, NEW primary \in BOOLEAN, NEW ended \in BOOLEAN,
             UpdateAssignment(c, a, primary, ended)
      PROVE  OrgInv'
    BY <1>9, UpdateAssignmentStep
<1> QED
    BY <1>1, <1>2, <1>3, <1>4, <1>5, <1>6, <1>7, <1>8, <1>9

LEMMA OrgInvStutters ==
  ASSUME OrgInv, UNCHANGED vars
  PROVE  OrgInv'
<1>1. /\ Parent' = Parent /\ Kept' = Kept /\ Open' = Open
      /\ req' = req /\ overlap' = overlap /\ position' = position /\ membership' = membership
    BY DEF vars, Parent, Kept, Open
<1>2. TypeOK'
    BY DEF OrgInv, TypeOK, vars
<1>3. Rows' /\ Requests' /\ Forest' /\ Placements' /\ Primaries'
    BY <1>1 DEF OrgInv, Rows, Requests, Forest, Placements, Primaries
<1> QED
    BY <1>2, <1>3 DEF OrgInv

\* Sets with one element at most.
LEMMA OneAtMost ==
  ASSUME NEW S, \A x, y \in S : x = y
  PROVE  Cardinality(S) <= 1
<1>1. CASE S = {}
    <2>1. Cardinality(S) = 0
        BY <1>1, FS_EmptySet
    <2> QED
        BY <2>1
<1>2. CASE S # {}
    <2>1. PICK x : S = {x}
        BY <1>2
    <2>2. Cardinality({x}) = 1
        BY FS_Singleton
    <2> QED
        BY <2>1, <2>2
<1> QED
    BY <1>1, <1>2

\* What the invariant says of the tree and of the primary assignment.
LEMMA OrgInvImplies ==
  ASSUME OrgInv
  PROVE  TypeOK /\ TreeShowsEveryUnit /\ OnePrimary
<1>1. TypeOK
    BY DEF OrgInv
<1>2. TreeShowsEveryUnit
    BY <1>1, ForestIsShown DEF OrgInv, Forest, TreeShowsEveryUnit
<1>3. OnePrimary
    BY OneAtMost DEF OrgInv, Primaries, OnePrimary, Open
<1> QED
    BY <1>1, <1>2, <1>3

\* A placement is only lost in the removal of the unit, which nobody was in when it was
\* asked for.
LEMMA PlacedStays ==
  ASSUME OrgInv, Next,
         \/ position # NoUnit /\ position' = NoUnit
         \/ membership # NoUnit /\ membership' = NoUnit
  PROVE  "placement" \in overlap
<1>1. PICK c \in Callers : RemoveUnit(c) \/ SavePosition(c) \/ SaveMembership(c)
    <2> DEFINE Placed == <<position, membership>>
    <2>1. Placed' # Placed
        OBVIOUS
    <2>2. ASSUME NEW c \in Callers,
                 \/ HandleUnit(c) \/ SaveUnit(c) \/ ClearPrimary(c) \/ SaveAssignment(c) \/ GiveUp(c)
          PROVE  UNCHANGED Placed
        BY <2>2 DEF HandleUnit, Walk, RefuseParent, SaveUnit, ClearPrimary, SaveAssignment, GiveUp
    <2>3. ASSUME NEW c \in Callers, NEW r, Begin(c, r)
          PROVE  UNCHANGED Placed
        BY <2>3 DEF Begin
    <2>4. ASSUME NEW c \in Callers, NEW u \in Units,
                 \/ \E active \in BOOLEAN : EditUnit(c, u, active)
                 \/ \E p \in Parents : MoveUnit(c, u, p) \/ CreateUnit(c, u, p)
                 \/ CheckUnitEmpty(c, u) \/ Place(c, u)
                 \/ \E a \in Assignments, primary \in BOOLEAN : CreateAssignment(c, a, u, primary)
          PROVE  UNCHANGED Placed
        BY <2>3, <2>4 DEF EditUnit, MoveUnit, CreateUnit, CheckUnitEmpty, Place, CreateAssignment
    <2>5. ASSUME NEW c \in Callers,
                 \E a \in Assignments, primary, ended \in BOOLEAN : UpdateAssignment(c, a, primary, ended)
          PROVE  UNCHANGED Placed
        BY <2>3, <2>5 DEF UpdateAssignment
    <2> HIDE DEF Placed
    <2> QED
        BY <2>1, <2>2, <2>4, <2>5 DEF Next
<1>2. CASE SavePosition(c) \/ SaveMembership(c)
    BY <1>2, NullIsNoUnit DEF SavePosition, SaveMembership, Exists
<1>3. CASE RemoveUnit(c)
    BY <1>3 DEF RemoveUnit, At, OrgInv, Placements, Bare
<1> QED
    BY <1>1, <1>2, <1>3

-----------------------------------------------------------------------------
(* The role *)

Grantable(keys) == \A key \in keys : <<key[1], "view">> \in Catalogue

\* What the change e of a role counts on: keys that can be granted and, while no save fell
\* into another, keys with their views and a difference to the rows g of the role.
Grants(e) == Grantable(e.want) /\ Grantable(e.add)

Current(e, g, there) ==
    /\ e.at \in {"load", "apply"} => ViewDependencies(e.want)
    /\ e.at = "apply" /\ there => e.add = e.want \ g /\ e.drop = g \ e.want

RoleRows ==
    /\ exists \in BOOLEAN /\ held \in BOOLEAN /\ mixed \in BOOLEAN
    /\ granted \subseteq Catalogue
    /\ edit \in [Callers -> Edit]

Views ==
    ~mixed => ViewDependencies(granted) /\ \A c \in Callers : Current(edit[c], granted, exists)

RoleInv ==
    /\ RoleRows
    /\ Grantable(granted)
    /\ \A c \in Callers : Grants(edit[c])
    /\ HeldRolesExist
    /\ Views

\* Keys that were checked can be granted, with the view that belongs to each.
LEMMA CheckedIsGrantable ==
  ASSUME NEW keys \in SUBSET Catalogue, ViewDependencies(keys)
  PROVE  Grantable(keys)
BY ViewKeysHaveTwoParts DEF ViewDependencies, Grantable, Action, Resource

\* The empty change.
LEMMA NoEditFields ==
  /\ NoEdit \in Edit /\ NoEdit.at = "idle"
  /\ Grants(NoEdit) /\ \A g, there : Current(NoEdit, g, there)
<1>1. NoEdit \in Edit
    BY DEF NoEdit, Edit
<1>2. NoEdit.at = "idle" /\ NoEdit.want = {} /\ NoEdit.add = {}
    BY DEF NoEdit
<1> QED
    BY <1>1, <1>2 DEF Grants, Grantable, Current

\* A step that changes the request of its caller only.
LEMMA EditStep ==
  ASSUME RoleInv, NEW c \in Callers, NEW e \in Edit, Grants(e),
         ~mixed => Current(e, granted, exists),
         edit' = [edit EXCEPT ![c] = e], held' \in BOOLEAN, held' => exists,
         UNCHANGED <<exists, granted, mixed>>
  PROVE  RoleInv'
<1>1. \A d \in Callers : edit'[d] = IF d = c THEN e ELSE edit[d]
    BY DEF RoleInv, RoleRows
<1>2. RoleRows'
    BY DEF RoleInv, RoleRows
<1>3. Grantable(granted')
    BY DEF RoleInv
<1>4. \A d \in Callers : Grants(edit'[d])
    BY <1>1 DEF RoleInv
<1>5. HeldRolesExist'
    BY DEF RoleInv, HeldRolesExist
<1>6. Views'
    BY <1>1 DEF RoleInv, Views
<1> QED
    BY <1>2, <1>3, <1>4, <1>5, <1>6 DEF RoleInv

\* A change of the role is asked for with keys that may be granted.
LEMMA ChangeIsAsked ==
  ASSUME RoleInv, NEW c \in Callers, NEW keys \in SUBSET Catalogue,
         Grantable(keys), ~mixed => ViewDependencies(keys),
         BeginEdit(c, [NoEdit EXCEPT !.at = "load", !.want = keys])
  PROVE  RoleInv'
<1> HIDE DEF NoEdit
<1>1. PICK e : e = [NoEdit EXCEPT !.at = "load", !.want = keys]
    OBVIOUS
<1>2. e \in Edit /\ e.at = "load" /\ e.want = keys /\ e.add = NoEdit.add
    BY <1>1, NoEditFields DEF Edit
<1>3. Grants(e) /\ (~mixed => Current(e, granted, exists))
    BY <1>2, NoEditFields DEF Grants, Current
<1>4. edit' = [edit EXCEPT ![c] = e] /\ UNCHANGED <<exists, granted, mixed, held>>
    BY <1>1 DEF BeginEdit
<1>5. held' \in BOOLEAN /\ (held' => exists)
    BY <1>4 DEF RoleInv, RoleRows, HeldRolesExist
<1> QED
    BY <1>2, <1>3, <1>4, <1>5, EditStep

LEMMA AssignPermissionsStep ==
  ASSUME RoleInv, NEW c \in Callers, NEW keys \in SUBSET Catalogue, AssignPermissions(c, keys)
  PROVE  RoleInv'
BY CheckedIsGrantable, ChangeIsAsked DEF AssignPermissions

LEMMA RenameStep ==
  ASSUME RoleInv, NEW c \in Callers, Rename(c)
  PROVE  RoleInv'
<1>1. PICK keys \in SUBSET Catalogue : keys = granted
    BY DEF RoleInv, RoleRows
<1>2. Grantable(keys) /\ (~mixed => ViewDependencies(keys))
    BY <1>1 DEF RoleInv, Views
<1>3. BeginEdit(c, [NoEdit EXCEPT !.at = "load", !.want = keys])
    BY <1>1 DEF Rename
<1> QED
    BY <1>2, <1>3, ChangeIsAsked

\* What is to be inserted is wanted, and the difference is to the rows that are there.
LEMMA LoadGrantsStep ==
  ASSUME RoleInv, NEW c \in Callers, LoadGrants(c)
  PROVE  RoleInv'
<1>1. PICK e \in Edit : e = edit[c]
    BY DEF RoleInv, RoleRows
<1>2. PICK f : f = [e EXCEPT !.at = "apply", !.add = e.want \ granted, !.drop = granted \ e.want]
    OBVIOUS
<1>3. /\ e.at = "load" /\ edit' = [edit EXCEPT ![c] = f]
      /\ UNCHANGED <<exists, granted, held, mixed>>
    BY <1>1, <1>2 DEF LoadGrants, StepEdit, EditAt
<1>4. granted \subseteq Catalogue
    BY DEF RoleInv, RoleRows
<1>5. /\ f \in Edit /\ f.at = "apply" /\ f.want = e.want
      /\ f.add = e.want \ granted /\ f.drop = granted \ e.want
    BY <1>2, <1>4 DEF Edit
<1>6. Grants(f)
    BY <1>1, <1>5 DEF RoleInv, Grants, Grantable
<1>7. ~mixed => Current(f, granted, exists)
    BY <1>1, <1>3, <1>5 DEF RoleInv, Views, Current
<1>8. held' \in BOOLEAN /\ (held' => exists)
    BY <1>3 DEF RoleInv, RoleRows, HeldRolesExist
<1> QED
    BY <1>3, <1>5, <1>6, <1>7, <1>8, EditStep

\* The rows become the wanted ones, unless another save came between; then the others know.
LEMMA ApplyGrantsStep ==
  ASSUME RoleInv, NEW c \in Callers, ApplyGrants(c)
  PROVE  RoleInv'
<1> HIDE DEF NoEdit
<1>1. PICK e \in Edit : e = edit[c]
    BY DEF RoleInv, RoleRows
<1>2. /\ e.at = "apply" /\ exists /\ granted' = (granted \cup e.add) \ e.drop
      /\ edit' = [edit EXCEPT ![c] = NoEdit]
      /\ UNCHANGED <<exists, held>>
    BY <1>1 DEF ApplyGrants, StepEdit, EditAt
<1>3. \A d \in Callers : edit'[d] = IF d = c THEN NoEdit ELSE edit[d]
    BY <1>2 DEF RoleInv, RoleRows
<1>4. /\ mixed' \in BOOLEAN
      /\ ~mixed' => ~mixed
      /\ ~mixed' /\ granted' # granted => \A d \in Callers : d # c => edit[d].at # "apply"
    <2>1. mixed' = (mixed \/ (granted' # granted /\ \E d \in Callers \ {c} : edit[d].at = "apply"))
        BY DEF ApplyGrants, EditAt
    <2>2. mixed \in BOOLEAN
        BY DEF RoleInv, RoleRows
    <2> QED
        BY <2>1, <2>2
<1>5. RoleRows'
    <2>1. granted' \subseteq Catalogue
        BY <1>2 DEF RoleInv, RoleRows, Edit
    <2>2. edit' \in [Callers -> Edit]
        BY <1>2, NoEditFields DEF RoleInv, RoleRows
    <2>3. exists' \in BOOLEAN /\ held' \in BOOLEAN
        BY <1>2 DEF RoleInv, RoleRows
    <2> QED
        BY <1>4, <2>1, <2>2, <2>3 DEF RoleRows
<1>6. Grantable(granted')
    <2>1. Grantable(granted) /\ Grantable(e.add)
        BY <1>1 DEF RoleInv, Grants
    <2> QED
        BY <1>2, <2>1 DEF Grantable
<1>7. \A d \in Callers : Grants(edit'[d])
    BY <1>3, NoEditFields DEF RoleInv
<1>8. HeldRolesExist'
    BY <1>2 DEF RoleInv, HeldRolesExist
<1>9. Views'
    <2> SUFFICES ASSUME ~mixed'
                 PROVE  /\ ViewDependencies(granted')
                        /\ \A d \in Callers : Current(edit'[d], granted', exists')
        BY DEF Views
    <2>1. ViewDependencies(granted) /\ \A d \in Callers : Current(edit[d], granted, exists)
        BY <1>4 DEF RoleInv, Views
    <2>2. ViewDependencies(e.want) /\ e.add = e.want \ granted /\ e.drop = granted \ e.want
        BY <1>1, <1>2, <2>1 DEF Current
    <2>3. granted' = e.want
        BY <1>2, <2>2
    <2>4. ASSUME NEW d \in Callers
          PROVE  Current(edit'[d], granted', exists')
        <3>1. CASE d = c
            BY <1>3, <3>1, NoEditFields
        <3>2. CASE d # c /\ granted' = granted
            BY <1>2, <1>3, <2>1, <3>2
        <3>3. CASE d # c /\ granted' # granted
            <4>1. edit[d].at # "apply" /\ Current(edit[d], granted, exists)
                BY <1>4, <2>1, <3>3
            <4> QED
                BY <1>3, <3>3, <4>1 DEF Current
        <3> QED
            BY <3>1, <3>2, <3>3
    <2> QED
        BY <2>2, <2>3, <2>4
<1> QED
    BY <1>5, <1>6, <1>7, <1>8, <1>9 DEF RoleInv

\* A role without members goes with its rows; what was to be done to it fails.
LEMMA RemoveRoleStep ==
  ASSUME RoleInv, NEW c \in Callers, RemoveRole(c)
  PROVE  RoleInv'
<1> HIDE DEF NoEdit
<1>1. /\ ~held /\ exists' = FALSE /\ granted' = {} /\ edit' = [edit EXCEPT ![c] = NoEdit]
      /\ UNCHANGED <<held, mixed>>
    BY DEF RemoveRole, StepEdit
<1>2. \A d \in Callers : edit'[d] = IF d = c THEN NoEdit ELSE edit[d]
    BY <1>1 DEF RoleInv, RoleRows
<1>3. RoleRows'
    <2>1. edit' \in [Callers -> Edit]
        BY <1>1, NoEditFields DEF RoleInv, RoleRows
    <2>2. held' \in BOOLEAN /\ mixed' \in BOOLEAN /\ exists' \in BOOLEAN
        BY <1>1 DEF RoleInv, RoleRows
    <2> QED
        BY <1>1, <2>1, <2>2 DEF RoleRows
<1>4. Grantable(granted') /\ ViewDependencies(granted')
    BY <1>1 DEF Grantable, ViewDependencies
<1>5. \A d \in Callers : Grants(edit'[d])
    BY <1>2, NoEditFields DEF RoleInv
<1>6. HeldRolesExist'
    BY <1>1 DEF HeldRolesExist
<1>7. Views'
    <2> SUFFICES ASSUME ~mixed', NEW d \in Callers
                 PROVE  Current(edit'[d], granted', exists')
        BY <1>4 DEF Views
    <2>1. ~mixed
        BY <1>1
    <2>2. Current(edit[d], granted, exists)
        BY <2>1 DEF RoleInv, Views
    <2>3. ~exists'
        BY <1>1
    <2> QED
        BY <1>2, <2>2, <2>3, NoEditFields DEF Current
<1> QED
    BY <1>3, <1>4, <1>5, <1>6, <1>7 DEF RoleInv

\* A change of the role that ends, and a member that gets it.
LEMMA EditEndsStep ==
  ASSUME RoleInv, NEW c \in Callers, edit' = [edit EXCEPT ![c] = NoEdit],
         held' \in BOOLEAN, held' => exists, UNCHANGED <<exists, granted, mixed>>
  PROVE  RoleInv'
<1> HIDE DEF NoEdit
<1> QED
    BY NoEditFields, EditStep

\* A request for the removal of the role or for a member of it.
LEMMA RoleIsReadStep ==
  ASSUME RoleInv, NEW c \in Callers, NEW at \in {"remove", "give"},
         BeginEdit(c, [NoEdit EXCEPT !.at = at])
  PROVE  RoleInv'
<1> HIDE DEF NoEdit
<1>1. PICK e : e = [NoEdit EXCEPT !.at = at]
    OBVIOUS
<1>2. e \in Edit /\ e.at = at /\ e.want = NoEdit.want /\ e.add = NoEdit.add
    BY <1>1, NoEditFields DEF Edit
<1>3. Grants(e) /\ Current(e, granted, exists)
    BY <1>2, NoEditFields DEF Grants, Current
<1>4. edit' = [edit EXCEPT ![c] = e] /\ UNCHANGED <<exists, granted, mixed, held>>
    BY <1>1 DEF BeginEdit
<1>5. held' \in BOOLEAN /\ (held' => exists)
    BY <1>4 DEF RoleInv, RoleRows, HeldRolesExist
<1> QED
    BY <1>2, <1>3, <1>4, <1>5, EditStep

LEMMA RoleStays ==
  ASSUME RoleInv, UNCHANGED roleVars
  PROVE  RoleInv'
BY DEF RoleInv, RoleRows, HeldRolesExist, Views, roleVars

\* The last member of the role loses it.
LEMMA TakeRoleStep ==
  ASSUME RoleInv, NEW c \in Callers, TakeRole(c)
  PROVE  RoleInv'
<1>1. held' = FALSE /\ UNCHANGED <<exists, granted, edit, mixed>>
    BY DEF TakeRole
<1> QED
    BY <1>1 DEF RoleInv, RoleRows, HeldRolesExist, Views

LEMMA RoleInvNext ==
  ASSUME RoleInv, AdminNext
  PROVE  RoleInv'
<1>1. CASE OrganizationStep
    BY <1>1, RoleStays DEF OrganizationStep
<1>2. ASSUME NEW c \in Callers, NEW keys \in SUBSET Catalogue, AssignPermissions(c, keys)
      PROVE  RoleInv'
    BY <1>2, AssignPermissionsStep
<1>3. ASSUME NEW c \in Callers,
             Rename(c) \/ LoadGrants(c) \/ ApplyGrants(c) \/ RemoveRole(c) \/ TakeRole(c)
      PROVE  RoleInv'
    BY <1>3, RenameStep, LoadGrantsStep, ApplyGrantsStep, RemoveRoleStep, TakeRoleStep
<1>4. ASSUME NEW c \in Callers, ReadToRemoveRole(c) \/ FindRole(c)
      PROVE  RoleInv'
    BY <1>4, RoleIsReadStep DEF ReadToRemoveRole, FindRole
<1>5. ASSUME NEW c \in Callers, GiveRole(c) \/ GiveUpEdit(c)
      PROVE  RoleInv'
    <2>1. held \in BOOLEAN /\ (held => exists)
        BY DEF RoleInv, RoleRows, HeldRolesExist
    <2>2. edit' = [edit EXCEPT ![c] = NoEdit] /\ UNCHANGED <<exists, granted, mixed>>
        BY <1>5 DEF GiveRole, GiveUpEdit, StepEdit
    <2>3. (held' = TRUE /\ exists) \/ held' = held
        BY <1>5 DEF GiveRole, GiveUpEdit
    <2>4. held' \in BOOLEAN /\ (held' => exists)
        <3>1. CASE held' = TRUE /\ exists
            BY <3>1
        <3>2. CASE held' = held
            BY <2>1, <3>2, Zenon
        <3> QED
            BY <2>3, <3>1, <3>2
    <2> QED
        BY <2>2, <2>4, EditEndsStep
<1> QED
    BY <1>1, <1>2, <1>3, <1>4, <1>5 DEF AdminNext

\* A step about the role leaves the organization alone, but for the number of requests.
LEMMA RoleStepCounts ==
  ASSUME AdminNext
  PROVE  \/ Next
         \/ UNCHANGED vars
         \/ /\ requests < MaxRequests /\ requests' = requests + 1
            /\ UNCHANGED <<unit, position, membership, assignment, req, overlap>>
<1>1. CASE OrganizationStep
    BY <1>1 DEF OrganizationStep
<1>2. ASSUME NEW c \in Callers, NEW e, BeginEdit(c, e)
      PROVE  /\ requests < MaxRequests /\ requests' = requests + 1
             /\ UNCHANGED <<unit, position, membership, assignment, req, overlap>>
    BY <1>2 DEF BeginEdit
<1>3. ASSUME NEW c \in Callers, \E keys \in SUBSET Catalogue : AssignPermissions(c, keys)
      PROVE  /\ requests < MaxRequests /\ requests' = requests + 1
             /\ UNCHANGED <<unit, position, membership, assignment, req, overlap>>
    BY <1>2, <1>3 DEF AssignPermissions
<1>4. ASSUME NEW c \in Callers, Rename(c) \/ ReadToRemoveRole(c) \/ FindRole(c) \/ TakeRole(c)
      PROVE  /\ requests < MaxRequests /\ requests' = requests + 1
             /\ UNCHANGED <<unit, position, membership, assignment, req, overlap>>
    BY <1>2, <1>4 DEF Rename, ReadToRemoveRole, FindRole, TakeRole
<1>5. ASSUME NEW c \in Callers,
             LoadGrants(c) \/ ApplyGrants(c) \/ RemoveRole(c) \/ GiveRole(c) \/ GiveUpEdit(c)
      PROVE  UNCHANGED vars
    BY <1>5 DEF LoadGrants, ApplyGrants, RemoveRole, GiveRole, GiveUpEdit, StepEdit
<1> QED
    BY <1>1, <1>3, <1>4, <1>5 DEF AdminNext

LEMMA OrgInvCounts ==
  ASSUME OrgInv, requests < MaxRequests, requests' = requests + 1,
         UNCHANGED <<unit, position, membership, assignment, req, overlap>>
  PROVE  OrgInv'
<1>1. Parent' = Parent /\ Kept' = Kept /\ Open' = Open
    BY DEF Parent, Kept, Open
<1>2. requests' \in 0..MaxRequests
    BY BoundIsANumber DEF OrgInv, TypeOK
<1>3. TypeOK'
    BY <1>2 DEF OrgInv, TypeOK
<1>4. Rows' /\ Requests' /\ Forest' /\ Placements' /\ Primaries'
    BY <1>1 DEF OrgInv, Rows, Requests, Forest, Placements, Primaries
<1> QED
    BY <1>3, <1>4 DEF OrgInv

-----------------------------------------------------------------------------
(* The administration of a tenant *)

AdminInv == OrgInv /\ RoleInv

LEMMA AdminInvInit ==
  AdminInit => AdminInv
<1> SUFFICES ASSUME AdminInit PROVE AdminInv
    OBVIOUS
<1>1. OrgInv
    BY OrgInvInit DEF AdminInit
<1> HIDE DEF NoEdit
<1>2. RoleRows
    BY NoEditFields DEF AdminInit, RoleRows
<1>3. \A c \in Callers : edit[c] = NoEdit
    BY DEF AdminInit
<1>4. Grantable(granted) /\ ViewDependencies(granted)
    BY DEF AdminInit, Grantable, ViewDependencies
<1>5. HeldRolesExist
    BY DEF AdminInit, HeldRolesExist
<1>6. Views /\ \A c \in Callers : Grants(edit[c])
    BY <1>3, <1>4, NoEditFields DEF Views
<1> QED
    BY <1>1, <1>2, <1>4, <1>5, <1>6 DEF AdminInv, RoleInv

LEMMA AdminInvNext ==
  AdminInv /\ [AdminNext]_adminVars => AdminInv'
<1> SUFFICES ASSUME AdminInv, [AdminNext]_adminVars PROVE AdminInv'
    OBVIOUS
<1>1. CASE AdminNext
    <2>1. RoleInv'
        BY <1>1, RoleInvNext DEF AdminInv
    <2>2. OrgInv'
        BY <1>1, RoleStepCounts, OrgInvNext, OrgInvStutters, OrgInvCounts DEF AdminInv
    <2> QED
        BY <2>1, <2>2 DEF AdminInv
<1>2. CASE UNCHANGED adminVars
    BY <1>2, OrgInvStutters, RoleStays DEF AdminInv, adminVars
<1> QED
    BY <1>1, <1>2

\* The tree of the organization shows every active unit, for any units, trees and number of
\* requests at a time, while no change of a parent fell between the check and the save of
\* another request that writes a unit.
THEOREM TreesShowEveryUnit == AdminSpec => []TreeShowsEveryUnit
<1>1. AdminInv => TreeShowsEveryUnit
    BY OrgInvImplies DEF AdminInv
<1> QED
    BY <1>1, AdminInvInit, AdminInvNext, PTL DEF AdminSpec

\* One primary assignment, roles that may view what they act on and hold only what can be
\* granted, and no role removed from under a member, for any number of requests at a time.
THEOREM AdministrationStaysSound == AdminSpec => []AdministrationIsSound
<1>1. AdminInv => AdministrationIsSound
    <2> SUFFICES ASSUME AdminInv PROVE AdministrationIsSound
        OBVIOUS
    <2>1. AdminTypeOK /\ OnePrimary
        BY OrgInvImplies DEF AdminInv, RoleInv, RoleRows, AdminTypeOK
    <2>2. ActorsMayView
        BY DEF AdminInv, RoleInv, Views, ActorsMayView, ViewDependencies, Action, Resource
    <2>3. NeverGranted /\ HeldRolesExist
        BY DEF AdminInv, RoleInv, NeverGranted, Grantable
    <2> QED
        BY <2>1, <2>2, <2>3 DEF AdministrationIsSound
<1> QED
    BY <1>1, AdminInvInit, AdminInvNext, PTL DEF AdminSpec

\* A removal of a unit takes nobody's placement away, unless somebody was placed in it
\* between the count and the removal.
THEOREM RemovalsDisplaceNobody == AdminSpec => RemovalDisplacesNobody
<1>1. AdminInv /\ [AdminNext]_adminVars =>
         [(position # NoUnit /\ position' = NoUnit) \/ (membership # NoUnit /\ membership' = NoUnit)
             => "placement" \in overlap]_vars
    <2> SUFFICES ASSUME AdminInv, [AdminNext]_adminVars,
                        \/ position # NoUnit /\ position' = NoUnit
                        \/ membership # NoUnit /\ membership' = NoUnit
                 PROVE  "placement" \in overlap
        OBVIOUS
    <2>1. ~ UNCHANGED <<position, membership>>
        OBVIOUS
    <2>2. Next
        BY <2>1, RoleStepCounts DEF vars, adminVars
    <2> QED
        BY <2>2, PlacedStays DEF AdminInv
<1> QED
    BY <1>1, AdminInvInit, AdminInvNext, PTL DEF AdminSpec, RemovalDisplacesNobody
=============================================================================
