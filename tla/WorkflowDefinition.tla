-------------------------- MODULE WorkflowDefinition --------------------------
(***************************************************************************)
(* One workflow definition and its versions: drafts are saved and          *)
(* published, the definition is archived, restored and deleted for good,   *)
(* and instances are started that run one version as long as they live.    *)
(*                                                                         *)
(* No handler locks what it reads.  Each reads the definition row, and     *)
(* later the draft, and writes whole rows at its end: a read is one step   *)
(* here, the writes of a transaction are another one.  What protects       *)
(* running instances is not the service but the foreign keys: a node with  *)
(* a token on it, and a definition with instances or schedules, cannot be  *)
(* deleted.                                                                *)
(***************************************************************************)
EXTENDS Integers, FiniteSets

CONSTANTS
  Editors,       \* requests that change the definition
  Starters,      \* calls of startInstance, each for a resource of its own
  LastVersion,   \* bound: versions are numbered from 1 to here
  Graphs,        \* the valid graphs people save
  InstanceIds,
  NoGraph,
  NoInstance,
  Deleted        \* the definition when its row is gone

Numbers == 1 .. LastVersion

Callers == Editors \union Starters

\* No version: the null of currentVersionId.
None == 0

Definition == [status : {"draft", "published", "archived"}, current : Numbers \union {None}]

\* A version row and, as "graph", its nodes, transitions and rules.
Version == [status : {"absent", "draft", "published", "retired"},
            graph  : Graphs \union {NoGraph}]

\* "graph" is the graph the version had when the instance was started.
Instance == [version : Numbers, graph : Graphs]

Places == {"idle", "find draft", "save draft", "replace graph", "insert draft",
           "find what to publish", "publish", "archive", "restore",
           "count", "remove", "start"}

ASSUME VersionAssumption == LastVersion \in Nat \ {0}
ASSUME CallerAssumption == Editors \intersect Starters = {}
ASSUME NoValueAssumption ==
  NoGraph \notin Graphs /\ NoInstance \notin Instance /\ Deleted \notin Definition

VARIABLES
  definition,  \* the workflow_definitions row
  versions,    \* its workflow_versions rows by version number
  instances,   \* the workflow_instances rows
  scheduled,   \* a maintenance schedule refers to the definition
  pc,
  seen         \* the definition row and the version number a caller has read

vars == <<definition, versions, instances, scheduled, pc, seen>>

TypeOK ==
  /\ definition \in Definition \union {Deleted}
  /\ versions \in [Numbers -> Version]
  /\ instances \in [InstanceIds -> Instance \union {NoInstance}]
  /\ scheduled \in BOOLEAN
  /\ pc \in [Callers -> Places]
  /\ seen \in [Callers -> [definition : Definition, number : Nat]]

-----------------------------------------------------------------------------
(* Helpers *)

Missing == [status |-> "absent", graph |-> NoGraph]

At(c, place) == pc[c] = place
GoTo(c, place) == pc' = [pc EXCEPT ![c] = place]

Existing == {n \in Numbers : versions[n].status # "absent"}

\* Variant: the query forgets the status.
AllAreDrafts == Existing
Drafts == {n \in Numbers : versions[n].status = "draft"}

Highest(set) == CHOOSE n \in set : \A m \in set : m <= n

NothingSeen == [definition |-> [status |-> "draft", current |-> None], number |-> 0]

InstancesOf(n) == {i \in InstanceIds : instances[i] # NoInstance /\ instances[i].version = n}

Unreferenced == ~scheduled /\ \A i \in InstanceIds : instances[i] = NoInstance

\* createDefinition or cloneDefinition has made version 1.
Init ==
  /\ definition = [status |-> "draft", current |-> None]
  /\ \E g \in Graphs :
       versions = [n \in Numbers |->
                     IF n = 1 THEN [status |-> "draft", graph |-> g] ELSE Missing]
  /\ instances = [i \in InstanceIds |-> NoInstance]
  /\ scheduled = FALSE
  /\ pc = [c \in Callers |-> "idle"]
  /\ seen = [c \in Callers |-> NothingSeen]

\* requireDefinition at the head of a handler, and the check that follows it.
Read(c, statuses, place) ==
  /\ At(c, "idle")
  /\ definition # Deleted
  /\ definition.status \in statuses
  /\ seen' = [seen EXCEPT ![c].definition = definition]
  /\ GoTo(c, place)
  /\ UNCHANGED <<definition, versions, instances, scheduled>>

\* A whole definition row is saved.  A row that was deleted meanwhile is
\* inserted again; the foreign key on the current version has to hold.
SaveDefinition(row) ==
  /\ row.current # None => row.current \in Existing
  /\ definition' = row

\* The end of a transaction, and of what its caller knew.
Answer(c) ==
  /\ GoTo(c, "idle")
  /\ seen' = [seen EXCEPT ![c] = NothingSeen]

Finish(c) == Answer(c) /\ UNCHANGED <<instances, scheduled>>

-----------------------------------------------------------------------------
(* saveDraft *)

\* Variant: the draft takes the number of the current version.
NumberOfCurrent(row) == IF row.current = None THEN 1 ELSE row.current

\* The number ensureDraft gives a new version: from the current version, or
\* from all versions when there is none.
NewNumber(row) ==
  IF row.current # None THEN row.current + 1
  ELSE IF Existing = {} THEN 1 ELSE Highest(Existing) + 1

\* Variant: deleting a node deletes the tokens on it.
CascadeToTokens(n) == TRUE

\* replaceGraph deletes the nodes of the version, which tokens restrict.
Replaceable(n) == InstancesOf(n) = {}

FindDraft(c) ==
  /\ At(c, "find draft")
  /\ IF Drafts # {}
       THEN /\ seen' = [seen EXCEPT ![c].number = Highest(Drafts)]
            /\ GoTo(c, "save draft")
       ELSE /\ seen' = [seen EXCEPT ![c].number = NewNumber(seen[c].definition)]
            /\ GoTo(c, "insert draft")
  /\ UNCHANGED <<definition, versions, instances, scheduled>>

\* A new version, with the graph of the request.
InsertDraft(c) ==
  LET n == seen[c].number IN
  /\ At(c, "insert draft")
  /\ definition # Deleted
  /\ n \in Numbers \ Existing
  /\ \E g \in Graphs : versions' = [versions EXCEPT ![n] = [status |-> "draft", graph |-> g]]
  /\ Finish(c)
  /\ UNCHANGED definition

\* The row that was read as a draft is saved as one, with a new change log,
\* whatever became of it; then the graph is replaced.
SaveDraft(c) ==
  LET n == seen[c].number IN
  /\ At(c, "save draft")
  /\ definition # Deleted
  /\ Replaceable(n)
  /\ \E g \in Graphs : versions' = [versions EXCEPT ![n] = [status |-> "draft", graph |-> g]]
  /\ Finish(c)
  /\ UNCHANGED definition

\* The row is still the one that was read and the change log stays: nothing
\* is written, and so nothing locked ...
KeepDraftRow(c) ==
  /\ At(c, "save draft")
  /\ seen[c].number \in Drafts
  /\ GoTo(c, "replace graph")
  /\ UNCHANGED <<definition, versions, instances, scheduled, seen>>

\* ... before the graph is replaced.
ReplaceGraph(c) ==
  LET n == seen[c].number IN
  /\ At(c, "replace graph")
  /\ n \in Existing
  /\ Replaceable(n)
  /\ \E g \in Graphs : versions' = [versions EXCEPT ![n].graph = g]
  /\ Finish(c)
  /\ UNCHANGED definition

-----------------------------------------------------------------------------
(* publishDefinition.  Saved graphs are valid, so that the validation before *)
(* the transaction refuses nothing the transaction would not.                *)

FindWhatToPublish(c) ==
  /\ At(c, "find what to publish")
  /\ Drafts # {}
  /\ seen' = [seen EXCEPT ![c].number = Highest(Drafts)]
  /\ GoTo(c, "publish")
  /\ UNCHANGED <<definition, versions, instances, scheduled>>

\* Variant: the version that was current stays published.
NothingRetired(n) == versions

\* The version that was current is retired if it is still published.
Retired(n) ==
  [m \in Numbers |-> IF m = n /\ versions[m].status = "published"
                       THEN [versions[m] EXCEPT !.status = "retired"]
                       ELSE versions[m]]

Publish(c) ==
  LET n == seen[c].number IN
  /\ At(c, "publish")
  /\ definition # Deleted
  /\ versions' = [Retired(seen[c].definition.current) EXCEPT ![n].status = "published"]
  /\ definition' = [status |-> "published", current |-> n]
  /\ Finish(c)

-----------------------------------------------------------------------------
(* archiveDefinition, restoreDefinition, deleteDefinitionPermanently *)

Archive(c) ==
  /\ At(c, "archive")
  /\ SaveDefinition([seen[c].definition EXCEPT !.status = "archived"])
  /\ Finish(c)
  /\ UNCHANGED versions

RestoredStatus(row) == IF row.current = None THEN "draft" ELSE "published"

Restore(c) ==
  LET row == seen[c].definition IN
  /\ At(c, "restore")
  /\ SaveDefinition([row EXCEPT !.status = RestoredStatus(row)])
  /\ Finish(c)
  /\ UNCHANGED versions

Count(c) ==
  /\ At(c, "count")
  /\ Unreferenced
  /\ GoTo(c, "remove")
  /\ UNCHANGED <<definition, versions, instances, scheduled, seen>>

\* Variant: the foreign keys cascade.
RemovableAnyway == TRUE

\* The foreign keys of instances and schedules restrict the deletion.
Removable == Unreferenced

\* The versions are deleted with the definition.
RemoveDefinition(c) ==
  /\ At(c, "remove")
  /\ Removable
  /\ definition' = Deleted
  /\ versions' = [n \in Numbers |-> Missing]
  /\ Finish(c)

-----------------------------------------------------------------------------
(* startInstance and the schedules *)

\* Variant: the newest version is run.
NewestVersion(row) == Highest(Existing)
PinnedVersion(row) == row.current

ReadToStart(c) ==
  /\ At(c, "idle")
  /\ definition # Deleted
  /\ definition.status = "published"
  /\ definition.current # None
  /\ seen' = [seen EXCEPT ![c] = [definition |-> definition,
                                  number |-> PinnedVersion(definition)]]
  /\ GoTo(c, "start")
  /\ UNCHANGED <<definition, versions, instances, scheduled>>

\* The instance, and a token on its start node: both have foreign keys.
StartInstance(c) ==
  LET n == seen[c].number IN
  /\ At(c, "start")
  /\ definition # Deleted
  /\ versions[n].graph # NoGraph
  /\ \E i \in InstanceIds :
       /\ instances[i] = NoInstance
       /\ instances' = [instances EXCEPT ![i] = [version |-> n, graph |-> versions[n].graph]]
  /\ Answer(c)
  /\ UNCHANGED <<definition, versions, scheduled>>

\* createSchedule takes a definition of any status, updateSchedule another one.
Schedule ==
  /\ definition # Deleted
  /\ scheduled' = ~scheduled
  /\ UNCHANGED <<definition, versions, instances, pc, seen>>

\* A check, a unique index or a foreign key refuses the call, or the process
\* dies: the transaction leaves nothing behind.
GiveUp(c) ==
  /\ ~At(c, "idle")
  /\ Answer(c)
  /\ UNCHANGED <<definition, versions, instances, scheduled>>

-----------------------------------------------------------------------------
AnyStatus == {"draft", "published", "archived"}

Edit(c) ==
  \/ Read(c, AnyStatus, "find draft")
  \/ FindDraft(c)
  \/ InsertDraft(c)
  \/ SaveDraft(c)
  \/ KeepDraftRow(c)
  \/ ReplaceGraph(c)
  \/ Read(c, AnyStatus, "find what to publish")
  \/ FindWhatToPublish(c)
  \/ Publish(c)
  \/ Read(c, {"draft", "published"}, "archive")
  \/ Archive(c)
  \/ Read(c, {"archived"}, "restore")
  \/ Restore(c)
  \/ Read(c, {"archived"}, "count")
  \/ Count(c)
  \/ RemoveDefinition(c)

Next ==
  \/ \E c \in Editors : Edit(c)
  \/ \E c \in Starters : ReadToStart(c) \/ StartInstance(c)
  \/ \E c \in Callers : GiveUp(c)
  \/ Schedule

Spec == Init /\ [][Next]_vars

-----------------------------------------------------------------------------
(* Properties *)

\* An instance runs the graph it was started with to its end, whatever
\* editors do at the same time.  saveDraft would replace the graph of a
\* version published and started since it read it: the tokens prevent it.
InstancesKeepTheirGraph ==
  \A i \in InstanceIds :
    instances[i] # NoInstance => versions[instances[i].version].graph = instances[i].graph

\* A deleted definition leaves no version, instance or schedule behind, also
\* when an instance is started between the count and the deletion.
DeletedLeavesNothing ==
  definition = Deleted => Existing = {} /\ Unreferenced

\* With one editor at a time, the current version is the only published one,
\* and versions number the history: retired, current, draft.
VersionsTellTheHistory ==
  definition # Deleted =>
    \A n \in Existing :
      versions[n].status = CASE n < definition.current -> "retired"
                             [] n = definition.current -> "published"
                             [] OTHER -> "draft"

\* With one editor at a time, saveDraft always finds a draft no instance runs,
\* or a free number: editing never comes to a dead end.
EditingStaysPossible ==
  definition # Deleted =>
    IF Drafts # {}
      THEN InstancesOf(Highest(Drafts)) = {}
      ELSE NewNumber(definition) \notin Existing

\* With one editor at a time, instances run versions that were published.
InstancesRunReleasedVersions ==
  \A i \in InstanceIds :
    instances[i] # NoInstance =>
      versions[instances[i].version].status \in {"published", "retired"}

\* With one editor at a time, the graph of a version that was published never
\* changes until the definition is deleted.
ReleasedGraphsAreFrozen ==
  [][\A n \in Numbers :
       versions[n].status \in {"published", "retired"} /\ definition' # Deleted =>
         /\ versions'[n].status \in {"published", "retired"}
         /\ versions'[n].graph = versions[n].graph]_vars

=============================================================================
