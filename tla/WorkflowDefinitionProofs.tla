----------------------- MODULE WorkflowDefinitionProofs -----------------------
(***************************************************************************)
(* Theorems about WorkflowDefinition, for any number of editors, starters, *)
(* versions and instances, and, from "From a graph to a person" on, about  *)
(* WorkflowGraphs and WorkflowTasks: what is kept of the graphs people     *)
(* send, and what the tasks of a published graph offer to whom.            *)
(***************************************************************************)
EXTENDS WorkflowDefinition, WorkflowTasks, WellFoundedInduction, FiniteSetTheorems,
        SequenceTheorems, TLAPS

\* A set of version numbers that is not empty has a highest element.
LEMMA HighestIsHighest ==
  ASSUME NEW S \in SUBSET Numbers, S # {}
  PROVE  Highest(S) \in S /\ \A m \in S : m <= Highest(S)
<1> DEFINE T == {LastVersion - n : n \in S}
<1>1. T \subseteq Nat /\ T # {}
  BY VersionAssumption DEF Numbers
<1>2. PICK x \in T : \A y \in T : ~ (<<y, x>> \in OpToRel(<, Nat))
  <2>1. IsWellFoundedOn(OpToRel(<, Nat), Nat)
    BY NatLessThanWellFounded
  <2> QED BY <1>1, <2>1, WFMin
<1>3. \A y \in T : ~ (y < x)
  BY <1>1, <1>2 DEF OpToRel
<1>4. PICK n \in S : x = LastVersion - n
  OBVIOUS
<1>5. \A m \in S : m <= n
  <2> SUFFICES ASSUME NEW m \in S PROVE m <= n
    OBVIOUS
  <2>1. ~ (LastVersion - m < x)
    BY <1>3
  <2> QED BY <1>4, <2>1, VersionAssumption DEF Numbers
<1> QED BY <1>5 DEF Highest

-----------------------------------------------------------------------------
(* Any number of editors.  The inductive invariant adds that a caller about  *)
(* to write a version knows the number of one, and that a version that is    *)
(* not there has no graph, so that no instance runs one.                     *)

NumberKnown ==
  \A c \in Callers :
    pc[c] \in {"save draft", "publish", "start"} => seen[c].number \in Numbers

\* A version that is not there has no nodes.
AbsentIsBare == \A n \in Numbers : versions[n].status = "absent" => versions[n].graph = NoGraph

IInv ==
  /\ TypeOK
  /\ NumberKnown
  /\ AbsentIsBare
  /\ InstancesKeepTheirGraph
  /\ DeletedLeavesNothing

LEMMA NoneIsFree == None \notin Numbers /\ None = 0
BY DEF None, Numbers

LEMMA InitInv == Init => IInv
<1> SUFFICES ASSUME Init PROVE IInv
  OBVIOUS
<1>1. definition \in Definition /\ NothingSeen \in [definition : Definition, number : Nat]
  BY DEF Init, Definition, NothingSeen
<1>2. versions \in [Numbers -> Version]
  BY DEF Init, Version, Missing
<1>3. instances \in [InstanceIds -> Instance \union {NoInstance}]
  BY DEF Init
<1>4. scheduled \in BOOLEAN
  BY Zenon DEF Init
<1>5. pc \in [Callers -> Places] /\ seen \in [Callers -> [definition : Definition, number : Nat]]
  BY <1>1 DEF Init, Places
<1>6. TypeOK
  BY <1>1, <1>2, <1>3, <1>4, <1>5 DEF TypeOK
<1>7. NumberKnown
  BY DEF Init, NumberKnown
<1>8. InstancesKeepTheirGraph
  BY DEF Init, InstancesKeepTheirGraph
<1>9. DeletedLeavesNothing
  BY <1>1, NoValueAssumption DEF DeletedLeavesNothing
<1>10. AbsentIsBare
  BY DEF Init, AbsentIsBare, Missing
<1> QED BY <1>6, <1>7, <1>8, <1>9, <1>10 DEF IInv

\* What a caller keeps to itself disturbs nothing but the first two parts.
LEMMA PrivateStep ==
  ASSUME IInv, TypeOK', NumberKnown',
         UNCHANGED <<definition, versions, instances, scheduled>>
  PROVE  IInv'
<1>1. InstancesKeepTheirGraph'
  BY DEF IInv, InstancesKeepTheirGraph
<1>2. DeletedLeavesNothing'
  BY DEF IInv, DeletedLeavesNothing, Existing, Unreferenced
<1>3. AbsentIsBare'
  BY DEF IInv, AbsentIsBare
<1> QED BY <1>1, <1>2, <1>3 DEF IInv

LEMMA ReadInv ==
  ASSUME IInv, NEW c \in Callers, NEW statuses, NEW place \in Places,
         place \notin {"save draft", "publish", "start"},
         Read(c, statuses, place)
  PROVE  IInv'
<1>1. definition \in Definition
  BY DEF IInv, TypeOK, Read
<1>2. TypeOK'
  <2>1. pc' \in [Callers -> Places]
    BY DEF IInv, TypeOK, Read, GoTo
  <2>2. seen' \in [Callers -> [definition : Definition, number : Nat]]
    BY <1>1 DEF IInv, TypeOK, Read
  <2> QED BY <2>1, <2>2 DEF IInv, TypeOK, Read
<1>3. NumberKnown'
  BY DEF IInv, TypeOK, NumberKnown, Read, GoTo
<1> QED BY <1>2, <1>3, PrivateStep DEF Read

LEMMA NewNumberIsNat ==
  ASSUME TypeOK, NEW row \in Definition
  PROVE  NewNumber(row) \in Nat
<1>1. CASE row.current # None
  BY <1>1, VersionAssumption DEF NewNumber, Definition, Numbers
<1>2. CASE row.current = None /\ Existing # {}
  <2>1. Highest(Existing) \in Existing
    BY <1>2, HighestIsHighest DEF Existing
  <2> QED BY <1>2, <2>1 DEF NewNumber, Existing, Numbers
<1>3. CASE row.current = None /\ Existing = {}
  BY <1>3 DEF NewNumber
<1> QED BY <1>1, <1>2, <1>3

LEMMA FindInv ==
  ASSUME IInv, NEW c \in Callers, FindDraft(c) \/ FindWhatToPublish(c)
  PROVE  IInv'
<1>1. Drafts # {} => Highest(Drafts) \in Numbers
  BY HighestIsHighest DEF Drafts
<1>2. Numbers \subseteq Nat
  BY DEF Numbers
<1>3. CASE FindWhatToPublish(c)
  <2>1. TypeOK'
    <3>1. pc' \in [Callers -> Places]
      BY <1>3 DEF IInv, TypeOK, FindWhatToPublish, GoTo, Places
    <3>2. seen' \in [Callers -> [definition : Definition, number : Nat]]
      BY <1>1, <1>2, <1>3 DEF IInv, TypeOK, FindWhatToPublish
    <3> QED BY <1>3, <3>1, <3>2 DEF IInv, TypeOK, FindWhatToPublish
  <2>2. NumberKnown'
    <3>1. seen'[c].number \in Numbers
      BY <1>1, <1>3 DEF IInv, TypeOK, FindWhatToPublish
    <3>2. \A d \in Callers \ {c} : pc'[d] = pc[d] /\ seen'[d] = seen[d]
      BY <1>3 DEF IInv, TypeOK, FindWhatToPublish, GoTo
    <3> QED BY <3>1, <3>2 DEF IInv, NumberKnown
  <2> QED BY <1>3, <2>1, <2>2, PrivateStep DEF FindWhatToPublish
<1>4. CASE FindDraft(c)
  <2>1. NewNumber(seen[c].definition) \in Nat
    BY NewNumberIsNat DEF IInv, TypeOK
  <2>2. TypeOK'
    <3>1. pc' \in [Callers -> Places]
      BY <1>4 DEF IInv, TypeOK, FindDraft, GoTo, Places
    <3>2. seen' \in [Callers -> [definition : Definition, number : Nat]]
      BY <1>1, <1>2, <1>4, <2>1 DEF IInv, TypeOK, FindDraft
    <3> QED BY <1>4, <3>1, <3>2 DEF IInv, TypeOK, FindDraft
  <2>3. NumberKnown'
    BY <1>1, <1>4 DEF IInv, TypeOK, NumberKnown, FindDraft, GoTo
  <2> QED BY <1>4, <2>2, <2>3, PrivateStep DEF FindDraft
<1> QED BY <1>3, <1>4

\* A caller that answers forgets what it has seen.
LEMMA AnswerInv ==
  ASSUME IInv, NEW c \in Callers, Answer(c)
  PROVE  /\ pc' \in [Callers -> Places]
         /\ seen' \in [Callers -> [definition : Definition, number : Nat]]
         /\ NumberKnown'
<1>1. NothingSeen \in [definition : Definition, number : Nat]
  BY DEF NothingSeen, Definition
<1>2. pc' \in [Callers -> Places]
  BY DEF IInv, TypeOK, Answer, GoTo, Places
<1>3. seen' \in [Callers -> [definition : Definition, number : Nat]]
  BY <1>1 DEF IInv, TypeOK, Answer
<1>4. NumberKnown'
  BY DEF IInv, TypeOK, NumberKnown, Answer, GoTo
<1> QED BY <1>2, <1>3, <1>4

\* The version no instance runs may be written.
LEMMA WriteInv ==
  ASSUME IInv, NEW n \in Numbers, InstancesOf(n) = {}, UNCHANGED instances,
         NEW v \in Version, v.status # "absent",
         versions' = [versions EXCEPT ![n] = v]
  PROVE  /\ versions' \in [Numbers -> Version]
         /\ AbsentIsBare'
         /\ InstancesKeepTheirGraph'
<1>1. versions' \in [Numbers -> Version]
  BY DEF IInv, TypeOK
<1>2. AbsentIsBare'
  BY DEF IInv, TypeOK, AbsentIsBare
<1>3. ASSUME NEW i \in InstanceIds, instances[i] # NoInstance
      PROVE  versions'[instances[i].version].graph = instances[i].graph
  <2>1. instances[i].version \in Numbers \ {n}
    BY <1>3 DEF IInv, TypeOK, Instance, InstancesOf
  <2>2. versions[instances[i].version].graph = instances[i].graph
    BY <1>3 DEF IInv, InstancesKeepTheirGraph
  <2> QED BY <2>1, <2>2 DEF IInv, TypeOK
<1> QED BY <1>1, <1>2, <1>3 DEF InstancesKeepTheirGraph

\* No instance runs a version that is not there.
LEMMA NobodyRunsTheAbsent ==
  ASSUME IInv, NEW n \in Numbers \ Existing
  PROVE  InstancesOf(n) = {}
<1> SUFFICES ASSUME NEW i \in InstanceIds, instances[i] # NoInstance, instances[i].version = n
             PROVE  FALSE
  BY DEF InstancesOf
<1>1. versions[n].graph = NoGraph
  BY DEF Existing, IInv, AbsentIsBare
<1>2. instances[i].graph \in Graphs
  BY DEF IInv, TypeOK, Instance
<1> QED BY <1>1, <1>2, NoValueAssumption DEF IInv, InstancesKeepTheirGraph

LEMMA DraftInv ==
  ASSUME IInv, NEW c \in Callers, InsertDraft(c) \/ SaveDraft(c) \/ ReplaceGraph(c)
  PROVE  IInv'
<1> DEFINE n == seen[c].number
<1>1. /\ n \in Numbers /\ InstancesOf(n) = {}
      /\ \E v \in Version : v.status # "absent" /\ versions' = [versions EXCEPT ![n] = v]
      /\ definition # Deleted
      /\ Answer(c) /\ UNCHANGED <<definition, instances, scheduled>>
  <2>1. CASE InsertDraft(c)
    <3>1. n \in Numbers \ Existing
      BY <2>1 DEF InsertDraft
    <3>2. InstancesOf(n) = {}
      BY <3>1, NobodyRunsTheAbsent
    <3>3. \A g \in Graphs : [status |-> "draft", graph |-> g] \in Version
      BY DEF Version
    <3> QED BY <2>1, <3>1, <3>2, <3>3 DEF InsertDraft, Finish
  <2>2. CASE SaveDraft(c)
    <3>1. n \in Numbers
      BY <2>2 DEF SaveDraft, At, IInv, NumberKnown
    <3>2. \A g \in Graphs : [status |-> "draft", graph |-> g] \in Version
      BY DEF Version
    <3> QED BY <2>2, <3>1, <3>2 DEF SaveDraft, Finish, Replaceable
  <2>3. CASE ReplaceGraph(c)
    <3>1. n \in Numbers /\ versions[n].status # "absent" /\ versions[n] \in Version
      BY <2>3 DEF ReplaceGraph, Existing, IInv, TypeOK
    <3>2. PICK g \in Graphs : versions' = [versions EXCEPT ![n].graph = g]
      BY <2>3 DEF ReplaceGraph
    <3> DEFINE v == [versions[n] EXCEPT !.graph = g]
    <3>3. v \in Version /\ v.status # "absent"
      BY <3>1 DEF Version
    <3>4. versions' = [versions EXCEPT ![n] = v]
      BY <3>1, <3>2
    <3>5. definition # Deleted
      BY <2>3, <3>1 DEF ReplaceGraph, IInv, DeletedLeavesNothing
    <3> QED BY <2>3, <3>1, <3>3, <3>4, <3>5 DEF ReplaceGraph, Finish, Replaceable
  <2> QED BY <2>1, <2>2, <2>3
<1>2. PICK v \in Version : v.status # "absent" /\ versions' = [versions EXCEPT ![n] = v]
  BY <1>1
<1> HIDE DEF n
<1>3. versions' \in [Numbers -> Version] /\ AbsentIsBare' /\ InstancesKeepTheirGraph'
  BY <1>1, <1>2, WriteInv
<1>4. TypeOK' /\ NumberKnown'
  BY <1>1, <1>3, AnswerInv DEF IInv, TypeOK
<1>5. DeletedLeavesNothing'
  BY <1>1 DEF DeletedLeavesNothing
<1> QED BY <1>3, <1>4, <1>5 DEF IInv

\* Publishing changes the status of versions and no graph.
LEMMA PublishInv == ASSUME IInv, NEW c \in Callers, Publish(c) PROVE IInv'
<1> DEFINE n == seen[c].number
<1> DEFINE old == seen[c].definition.current
<1>1. n \in Numbers
  BY DEF Publish, At, IInv, NumberKnown
<1>2. \A m \in Numbers : /\ Retired(old)[m] \in Version
                         /\ Retired(old)[m].graph = versions[m].graph
                         /\ Retired(old)[m].status = "absent" => versions[m].status = "absent"
  BY DEF Retired, IInv, TypeOK, Version
<1>3. versions' = [Retired(old) EXCEPT ![n].status = "published"]
  BY DEF Publish
<1>4. Retired(old) = [m \in Numbers |-> Retired(old)[m]]
  BY DEF Retired
<1>5. \A m \in Numbers : /\ versions'[m] \in Version
                         /\ versions'[m].graph = versions[m].graph
                         /\ versions'[m].status = "absent" => versions[m].status = "absent"
  BY <1>1, <1>2, <1>3, <1>4 DEF Version
<1>6. versions' \in [Numbers -> Version]
  BY <1>3, <1>4, <1>5
<1>7. definition' \in Definition
  BY <1>1 DEF Publish, Definition
<1>8. TypeOK' /\ NumberKnown'
  BY <1>6, <1>7, AnswerInv DEF IInv, TypeOK, Publish, Finish
<1>9. AbsentIsBare'
  BY <1>5 DEF IInv, AbsentIsBare
<1>10. InstancesKeepTheirGraph'
  BY <1>5 DEF IInv, TypeOK, Instance, InstancesKeepTheirGraph, Publish, Finish
<1>11. DeletedLeavesNothing'
  BY <1>7, NoValueAssumption DEF DeletedLeavesNothing
<1> QED BY <1>8, <1>9, <1>10, <1>11 DEF IInv

LEMMA ArchiveInv ==
  ASSUME IInv, NEW c \in Callers, Archive(c) \/ Restore(c)
  PROVE  IInv'
<1>1. seen[c].definition \in Definition
  BY DEF IInv, TypeOK
<1>2. definition' \in Definition
  BY <1>1 DEF Archive, Restore, SaveDefinition, RestoredStatus, Definition
<1>3. Answer(c) /\ UNCHANGED <<versions, instances, scheduled>>
  BY DEF Archive, Restore, Finish
<1>4. TypeOK' /\ NumberKnown'
  BY <1>2, <1>3, AnswerInv DEF IInv, TypeOK
<1>5. AbsentIsBare' /\ InstancesKeepTheirGraph'
  BY <1>3 DEF IInv, AbsentIsBare, InstancesKeepTheirGraph
<1>6. DeletedLeavesNothing'
  BY <1>2, NoValueAssumption DEF DeletedLeavesNothing
<1> QED BY <1>4, <1>5, <1>6 DEF IInv

LEMMA RemoveInv == ASSUME IInv, NEW c \in Callers, RemoveDefinition(c) PROVE IInv'
<1>1. Missing \in Version
  BY DEF Missing, Version
<1>2. TypeOK' /\ NumberKnown'
  BY <1>1, AnswerInv DEF IInv, TypeOK, RemoveDefinition, Finish
<1>3. AbsentIsBare'
  BY DEF AbsentIsBare, RemoveDefinition, Missing
<1>4. \A i \in InstanceIds : instances'[i] = NoInstance
  BY DEF RemoveDefinition, Removable, Unreferenced, Finish
<1>5. InstancesKeepTheirGraph'
  BY <1>4 DEF InstancesKeepTheirGraph
<1>6. DeletedLeavesNothing'
  BY <1>4 DEF DeletedLeavesNothing, RemoveDefinition, Removable, Unreferenced, Finish, Existing, Missing
<1> QED BY <1>2, <1>3, <1>5, <1>6 DEF IInv

\* KeepDraftRow and Count only move on.
LEMMA MoveInv ==
  ASSUME IInv, NEW c \in Callers, KeepDraftRow(c) \/ Count(c)
  PROVE  IInv'
<1>1. /\ UNCHANGED <<definition, versions, instances, scheduled, seen>>
      /\ GoTo(c, "replace graph") \/ GoTo(c, "remove")
  BY DEF KeepDraftRow, Count
<1>2. TypeOK'
  BY <1>1 DEF IInv, TypeOK, GoTo, Places
<1>3. NumberKnown'
  BY <1>1 DEF IInv, TypeOK, NumberKnown, GoTo
<1> QED BY <1>1, <1>2, <1>3, PrivateStep

LEMMA GiveUpInv == ASSUME IInv, NEW c \in Callers, GiveUp(c) PROVE IInv'
<1>1. TypeOK' /\ NumberKnown'
  BY AnswerInv DEF IInv, TypeOK, GiveUp
<1> QED BY <1>1, PrivateStep DEF GiveUp

LEMMA ReadToStartInv == ASSUME IInv, NEW c \in Callers, ReadToStart(c) PROVE IInv'
<1>1. definition \in Definition /\ definition.current \in Numbers
  BY DEF IInv, TypeOK, ReadToStart, Definition
<1>2. TypeOK'
  <2>1. pc' \in [Callers -> Places]
    BY DEF IInv, TypeOK, ReadToStart, GoTo, Places
  <2>2. seen' \in [Callers -> [definition : Definition, number : Nat]]
    BY <1>1 DEF IInv, TypeOK, ReadToStart, PinnedVersion, Numbers
  <2> QED BY <2>1, <2>2 DEF IInv, TypeOK, ReadToStart
<1>3. NumberKnown'
  <2>1. seen'[c].number \in Numbers
    BY <1>1 DEF IInv, TypeOK, ReadToStart, PinnedVersion
  <2>2. \A d \in Callers \ {c} : pc'[d] = pc[d] /\ seen'[d] = seen[d]
    BY DEF IInv, TypeOK, ReadToStart, GoTo
  <2> QED BY <2>1, <2>2 DEF IInv, NumberKnown
<1> QED BY <1>2, <1>3, PrivateStep DEF ReadToStart

LEMMA StartInstanceInv == ASSUME IInv, NEW c \in Callers, StartInstance(c) PROVE IInv'
<1> DEFINE n == seen[c].number
<1>1. n \in Numbers /\ versions[n].graph \in Graphs
  BY DEF StartInstance, At, IInv, TypeOK, NumberKnown, Version
<1>2. PICK i \in InstanceIds :
        /\ instances[i] = NoInstance
        /\ instances' = [instances EXCEPT ![i] = [version |-> n, graph |-> versions[n].graph]]
  BY DEF StartInstance
<1>3. [version |-> n, graph |-> versions[n].graph] \in Instance
  BY <1>1 DEF Instance
<1>4. TypeOK' /\ NumberKnown'
  <2>1. instances' \in [InstanceIds -> Instance \union {NoInstance}]
    BY <1>2, <1>3 DEF IInv, TypeOK
  <2> QED BY <2>1, AnswerInv DEF IInv, TypeOK, StartInstance
<1>5. AbsentIsBare'
  BY DEF IInv, AbsentIsBare, StartInstance
<1>6. InstancesKeepTheirGraph'
  BY <1>2 DEF IInv, TypeOK, InstancesKeepTheirGraph, StartInstance
<1>7. DeletedLeavesNothing'
  BY DEF StartInstance, DeletedLeavesNothing
<1> QED BY <1>4, <1>5, <1>6, <1>7 DEF IInv

LEMMA ScheduleInv == ASSUME IInv, Schedule PROVE IInv'
<1>1. scheduled' \in BOOLEAN
  BY Zenon DEF Schedule
<1>2. TypeOK' /\ NumberKnown'
  BY <1>1 DEF IInv, TypeOK, NumberKnown, Schedule
<1>3. AbsentIsBare' /\ InstancesKeepTheirGraph' /\ DeletedLeavesNothing'
  BY DEF IInv, AbsentIsBare, InstancesKeepTheirGraph, DeletedLeavesNothing, Schedule
<1> QED BY <1>2, <1>3 DEF IInv

LEMMA EditInv == ASSUME IInv, NEW c \in Editors, Edit(c) PROVE IInv'
<1>1. c \in Callers
  BY DEF Callers
<1>2. ASSUME NEW statuses, NEW place \in Places,
             place \notin {"save draft", "publish", "start"}, Read(c, statuses, place)
      PROVE  IInv'
  BY <1>1, <1>2, ReadInv
<1>3. CASE \/ Read(c, AnyStatus, "find draft")
           \/ Read(c, AnyStatus, "find what to publish")
           \/ Read(c, {"draft", "published"}, "archive")
           \/ Read(c, {"archived"}, "restore")
           \/ Read(c, {"archived"}, "count")
  BY <1>2, <1>3 DEF Places
<1>4. CASE FindDraft(c) \/ FindWhatToPublish(c)
  BY <1>1, <1>4, FindInv
<1>5. CASE InsertDraft(c) \/ SaveDraft(c) \/ ReplaceGraph(c)
  BY <1>1, <1>5, DraftInv
<1>6. CASE KeepDraftRow(c) \/ Count(c)
  BY <1>1, <1>6, MoveInv
<1>7. CASE Publish(c)
  BY <1>1, <1>7, PublishInv
<1>8. CASE Archive(c) \/ Restore(c)
  BY <1>1, <1>8, ArchiveInv
<1>9. CASE RemoveDefinition(c)
  BY <1>1, <1>9, RemoveInv
<1> QED BY <1>3, <1>4, <1>5, <1>6, <1>7, <1>8, <1>9 DEF Edit

LEMMA StutterInv == ASSUME IInv, UNCHANGED vars PROVE IInv'
<1>1. TypeOK' /\ NumberKnown'
  BY DEF IInv, TypeOK, NumberKnown, vars
<1> QED BY <1>1, PrivateStep DEF vars

LEMMA Invariance == Spec => []IInv
<1>1. IInv /\ [Next]_vars => IInv'
  <2> SUFFICES ASSUME IInv, [Next]_vars PROVE IInv'
    OBVIOUS
  <2>1. ASSUME NEW c \in Starters, ReadToStart(c) \/ StartInstance(c) PROVE IInv'
    BY <2>1, ReadToStartInv, StartInstanceInv DEF Callers
  <2> QED BY <2>1, EditInv, GiveUpInv, ScheduleInv, StutterInv DEF Next
<1> QED BY <1>1, InitInv, PTL DEF Spec

\* Every row and every call in progress keeps its shape.
THEOREM DefinitionTypeCorrect == Spec => []TypeOK
<1>1. IInv => TypeOK BY DEF IInv
<1> QED BY <1>1, Invariance, PTL

\* The graph an instance was started with stays the graph of its version, for
\* any number of concurrent editors and starters: the foreign key of the
\* tokens suffices.
THEOREM RunningGraphsAreSafe == Spec => []InstancesKeepTheirGraph
<1>1. IInv => InstancesKeepTheirGraph BY DEF IInv
<1> QED BY <1>1, Invariance, PTL

\* However deletions, starts and stale saves interleave, a deleted definition
\* leaves nothing behind.
THEOREM DeletionIsComplete == Spec => []DeletedLeavesNothing
<1>1. IInv => DeletedLeavesNothing BY DEF IInv
<1> QED BY <1>1, Invariance, PTL

-----------------------------------------------------------------------------
(* One editor at a time.  Then what the editor has read stays true until it  *)
(* writes, the version numbers have no gaps, and a starter holds a version   *)
(* that was published.                                                       *)

Released == {"published", "retired"}

NumbersHaveNoGaps ==
  definition # Deleted =>
    \E k \in Numbers : Existing = 1 .. k /\ k \in {definition.current, definition.current + 1}

EditorIsUpToDate ==
  \A c \in Editors :
    /\ pc[c] \in {"find draft", "find what to publish", "archive", "restore",
                  "insert draft", "save draft", "replace graph", "publish"} =>
         definition = seen[c].definition
    /\ pc[c] \in {"save draft", "replace graph", "publish"} => seen[c].number \in Drafts
    /\ pc[c] = "insert draft" => Drafts = {} /\ seen[c].number = NewNumber(definition)

StarterHoldsReleased ==
  \A c \in Starters :
    pc[c] = "start" /\ definition # Deleted => versions[seen[c].number].status \in Released

HInv ==
  /\ IInv
  /\ VersionsTellTheHistory
  /\ NumbersHaveNoGaps
  /\ InstancesRunReleasedVersions
  /\ EditorIsUpToDate
  /\ StarterHoldsReleased

LEMMA HistoryInit == Init => HInv
<1> SUFFICES ASSUME Init PROVE HInv
  OBVIOUS
<1>1. IInv
  BY InitInv
<1>2. definition.current = 0
  BY NoneIsFree DEF Init
<1>3. 1 \in Numbers
  BY VersionAssumption DEF Numbers
<1>4. \A n \in Numbers : versions[n].status = IF n = 1 THEN "draft" ELSE "absent"
  BY DEF Init, Missing
<1>5. Existing = {1}
  BY <1>3, <1>4 DEF Existing
<1>6. VersionsTellTheHistory
  BY <1>2, <1>3, <1>4, <1>5 DEF VersionsTellTheHistory
<1>7. NumbersHaveNoGaps
  <2>1. Existing = 1 .. 1 /\ 1 \in {definition.current, definition.current + 1}
    BY <1>2, <1>5
  <2> QED BY <1>3, <2>1 DEF NumbersHaveNoGaps
<1>8. InstancesRunReleasedVersions /\ EditorIsUpToDate /\ StarterHoldsReleased
  BY DEF Init, InstancesRunReleasedVersions, EditorIsUpToDate, StarterHoldsReleased, Callers
<1> QED BY <1>1, <1>6, <1>7, <1>8 DEF HInv

\* What the two parts about the history say together: the versions are those
\* up to the current one and, if there is one, a single draft after it.
LEMMA ShapeOfHistory ==
  ASSUME HInv, definition # Deleted
  PROVE  /\ definition.current \in Nat
         /\ Drafts = {} => definition.current \in Numbers /\ Existing = 1 .. definition.current
         /\ Drafts # {} => /\ definition.current + 1 \in Numbers
                           /\ Drafts = {definition.current + 1}
                           /\ Existing = 1 .. definition.current + 1
<1> DEFINE d == definition.current
<1>1. d \in Nat
  BY NoneIsFree DEF HInv, IInv, TypeOK, Definition, Numbers
<1>2. PICK k \in Numbers : Existing = 1 .. k /\ k \in {d, d + 1}
  BY DEF HInv, NumbersHaveNoGaps
<1>3. \A n \in Numbers : n \in Drafts <=> n \in Existing /\ n > d
  BY <1>1 DEF HInv, VersionsTellTheHistory, Drafts, Existing, Numbers
<1>4. Drafts \subseteq Numbers
  BY DEF Drafts
<1>5. CASE k = d
  <2>1. \A n \in Numbers : n \notin Drafts
    BY <1>1, <1>2, <1>3, <1>5
  <2>2. Drafts = {}
    BY <1>4, <2>1
  <2> QED BY <1>1, <1>2, <1>5, <2>2
<1>6. CASE k = d + 1
  <2>1. k \in Drafts
    BY <1>1, <1>2, <1>3, <1>6 DEF Numbers
  <2>2. \A n \in Numbers : n \in Drafts => n = d + 1
    BY <1>1, <1>2, <1>3, <1>6 DEF Numbers
  <2>3. Drafts = {d + 1}
    BY <1>4, <1>6, <2>1, <2>2
  <2> QED BY <1>1, <1>2, <1>6, <2>3
<1> QED BY <1>2, <1>5, <1>6

\* Steps that change no status of a version leave the history as it is.
LEMMA SameHistory ==
  ASSUME HInv, UNCHANGED instances,
         definition # Deleted <=> definition' # Deleted,
         definition # Deleted => definition'.current = definition.current,
         \A n \in Numbers : versions'[n].status = versions[n].status
  PROVE  /\ Existing' = Existing /\ Drafts' = Drafts
         /\ VersionsTellTheHistory'
         /\ NumbersHaveNoGaps'
         /\ InstancesRunReleasedVersions'
<1>1. Existing' = Existing /\ Drafts' = Drafts
  BY DEF Existing, Drafts
<1>2. VersionsTellTheHistory'
  <2>1. \A n \in Existing : n \in Numbers
    BY DEF Existing
  <2> QED BY <1>1, <2>1 DEF HInv, VersionsTellTheHistory
<1>3. NumbersHaveNoGaps'
  BY <1>1 DEF HInv, NumbersHaveNoGaps
<1>4. InstancesRunReleasedVersions'
  BY DEF HInv, IInv, TypeOK, Instance, InstancesRunReleasedVersions
<1> QED BY <1>1, <1>2, <1>3, <1>4

\* A step of an editor leaves what starters hold alone, if released versions
\* stay released.
LEMMA StartersUndisturbed ==
  ASSUME HInv, NEW c \in Editors,
         \A d \in Callers \ {c} : pc'[d] = pc[d] /\ seen'[d] = seen[d],
         definition' # Deleted => definition # Deleted,
         definition' # Deleted =>
           \A n \in Numbers : versions[n].status \in Released => versions'[n].status \in Released
  PROVE  StarterHoldsReleased'
<1> SUFFICES ASSUME NEW d \in Starters, pc'[d] = "start", definition' # Deleted
             PROVE  versions'[seen'[d].number].status \in Released
  BY DEF StarterHoldsReleased
<1>1. d \in Callers \ {c}
  BY CallerAssumption DEF Callers
<1>2. seen[d].number \in Numbers
  BY <1>1 DEF HInv, IInv, NumberKnown
<1>3. versions[seen[d].number].status \in Released
  BY <1>1 DEF HInv, StarterHoldsReleased
<1> QED BY <1>1, <1>2, <1>3

\* Only one caller's private state changes.
LEMMA OthersKeep ==
  ASSUME IInv, NEW c \in Callers, NEW place,
         GoTo(c, place), UNCHANGED seen \/ \E s : seen' = [seen EXCEPT ![c] = s]
  PROVE  /\ \A d \in Callers \ {c} : pc'[d] = pc[d] /\ seen'[d] = seen[d]
         /\ pc'[c] = place
BY DEF IInv, TypeOK, GoTo

\* An editor that has answered knows nothing.
LEMMA IdleEditor ==
  ASSUME \A d, e \in Editors : d = e, NEW c \in Editors, pc'[c] \in {"idle", "count", "remove"}
  PROVE  EditorIsUpToDate'
BY DEF EditorIsUpToDate

LEMMA AnswerFrame ==
  ASSUME IInv, NEW c \in Callers, Answer(c)
  PROVE  /\ \A d \in Callers \ {c} : pc'[d] = pc[d] /\ seen'[d] = seen[d]
         /\ pc'[c] = "idle"
BY DEF IInv, TypeOK, Answer, GoTo

\* A draft: the versions before and after the step differ in a new draft with
\* the next number, or in the graph of the draft only.
LEMMA DraftHistory ==
  ASSUME HInv, IInv', \A d, e \in Editors : d = e, NEW c \in Editors,
         InsertDraft(c) \/ SaveDraft(c) \/ ReplaceGraph(c)
  PROVE  HInv'
<1> DEFINE n == seen[c].number
<1>0. c \in Callers
  BY DEF Callers
<1>1. /\ definition # Deleted /\ definition' = definition /\ UNCHANGED instances
      /\ Answer(c)
  <2>1. definition = seen[c].definition
    BY DEF InsertDraft, SaveDraft, ReplaceGraph, At, HInv, EditorIsUpToDate
  <2>2. seen[c].definition \in Definition
    BY <1>0 DEF HInv, IInv, TypeOK
  <2> QED BY <2>1, <2>2, NoValueAssumption DEF InsertDraft, SaveDraft, ReplaceGraph, Finish
<1>2. EditorIsUpToDate'
  BY <1>0, <1>1, IdleEditor, AnswerFrame DEF HInv
<1>3. CASE SaveDraft(c) \/ ReplaceGraph(c)
  <2>1. n \in Drafts
    BY <1>3 DEF SaveDraft, ReplaceGraph, At, HInv, EditorIsUpToDate
  <2>2. n \in Numbers /\ versions[n].status = "draft"
    BY <2>1 DEF Drafts
  <2>3. versions \in [Numbers -> Version]
    BY DEF HInv, IInv, TypeOK
  <2>4. \A m \in Numbers : versions'[m].status = versions[m].status
    <3>1. CASE SaveDraft(c)
      <4>1. PICK g \in Graphs : versions' = [versions EXCEPT ![n] = [status |-> "draft", graph |-> g]]
        BY <3>1 DEF SaveDraft
      <4> QED BY <2>2, <2>3, <4>1
    <3>2. CASE ReplaceGraph(c)
      <4>1. PICK g \in Graphs : versions' = [versions EXCEPT ![n].graph = g]
        BY <3>2 DEF ReplaceGraph
      <4> QED BY <2>3, <4>1 DEF Version
    <3> QED BY <1>3, <3>1, <3>2
  <2>5. VersionsTellTheHistory' /\ NumbersHaveNoGaps' /\ InstancesRunReleasedVersions'
    BY <1>1, <2>4, SameHistory
  <2>6. StarterHoldsReleased'
    BY <1>0, <1>1, <2>4, StartersUndisturbed, AnswerFrame DEF HInv
  <2> QED BY <1>2, <2>5, <2>6 DEF HInv
<1>4. CASE InsertDraft(c)
  <2>1. Drafts = {} /\ n = NewNumber(definition)
    BY <1>4 DEF InsertDraft, At, HInv, EditorIsUpToDate
  <2> DEFINE d == definition.current
  <2>2. d \in Numbers /\ Existing = 1 .. d
    BY <1>1, <2>1, ShapeOfHistory
  <2>3. n = d + 1 /\ n \in Numbers
    BY <1>4, <2>1, <2>2, NoneIsFree DEF NewNumber, InsertDraft
  <2>4. versions \in [Numbers -> Version]
    BY DEF HInv, IInv, TypeOK
  <2>5. PICK g \in Graphs : versions' = [versions EXCEPT ![n] = [status |-> "draft", graph |-> g]]
    BY <1>4 DEF InsertDraft
  <2>6. \A m \in Numbers : versions'[m].status = IF m = n THEN "draft" ELSE versions[m].status
    BY <2>3, <2>4, <2>5
  <2> HIDE DEF n
  <2>7. \A m \in Numbers : m \in Existing' <=> m \in Existing \/ m = n
    BY <2>6 DEF Existing
  <2>8. Existing' = 1 .. n
    <3>1. Existing' \subseteq Numbers
      BY DEF Existing
    <3>2. \A m \in Numbers : m \in Existing' <=> m \in 1 .. n
      BY <2>2, <2>3, <2>7 DEF Numbers
    <3>3. ASSUME NEW m \in 1 .. n PROVE m \in Numbers
      BY <2>3, VersionAssumption DEF Numbers
    <3> QED BY <3>1, <3>2, <3>3
  <2>9. NumbersHaveNoGaps'
    BY <1>1, <2>3, <2>8 DEF NumbersHaveNoGaps
  <2>10. VersionsTellTheHistory'
    <3>1. \A m \in Existing : m \in Numbers /\
             versions[m].status = CASE m < d -> "retired" [] m = d -> "published" [] OTHER -> "draft"
      BY <1>1 DEF HInv, VersionsTellTheHistory, Existing
    <3>2. \A m \in Existing' : m \in Numbers /\ (m \in Existing \/ m = n)
      BY <2>7 DEF Existing
    <3>3. ~ (n < d) /\ n # d
      BY <2>2, <2>3 DEF Numbers
    <3>4. n \notin Existing
      BY <2>2, <2>3 DEF Numbers
    <3>5. \A m \in Existing' :
            versions'[m].status = CASE m < d -> "retired" [] m = d -> "published" [] OTHER -> "draft"
      BY <2>6, <3>1, <3>2, <3>3, <3>4
    <3> QED BY <1>1, <3>5 DEF VersionsTellTheHistory
  <2>11. n \notin Existing
    BY <2>2, <2>3 DEF Numbers
  <2>12. \A m \in Numbers : versions[m].status \in Released => versions'[m].status \in Released
    BY <2>3, <2>6, <2>11 DEF Released, Existing
  <2>13. InstancesRunReleasedVersions'
    BY <1>1, <2>12 DEF HInv, IInv, TypeOK, Instance, InstancesRunReleasedVersions, Released
  <2>14. StarterHoldsReleased'
    BY <1>0, <1>1, <2>12, StartersUndisturbed, AnswerFrame DEF HInv
  <2> QED BY <1>2, <2>9, <2>10, <2>13, <2>14 DEF HInv
<1> QED BY <1>3, <1>4

\* Publication: the draft, numbered next, becomes the current version, and the
\* current version is retired.
LEMMA PublishHistory ==
  ASSUME HInv, IInv', \A d, e \in Editors : d = e, NEW c \in Editors, Publish(c)
  PROVE  HInv'
<1> DEFINE n == seen[c].number
<1> DEFINE d == definition.current
<1>0. c \in Callers
  BY DEF Callers
<1>1. /\ definition # Deleted /\ definition = seen[c].definition
      /\ n \in Drafts /\ UNCHANGED instances /\ Answer(c)
  BY DEF Publish, At, Finish, HInv, EditorIsUpToDate
<1>2. /\ d \in Nat /\ n = d + 1 /\ n \in Numbers
      /\ Existing = 1 .. n
  BY <1>1, ShapeOfHistory
<1>3. definition' = [status |-> "published", current |-> n]
  BY DEF Publish
<1>4. \A m \in Numbers :
        versions'[m].status =
          IF m = n THEN "published"
          ELSE IF m = d /\ versions[m].status = "published" THEN "retired"
          ELSE versions[m].status
  <2>1. versions' = [Retired(d) EXCEPT ![n].status = "published"]
    BY <1>1 DEF Publish
  <2>2. versions \in [Numbers -> Version]
    BY DEF HInv, IInv, TypeOK
  <2>3. \A m \in Numbers : /\ m # n => versions'[m] = Retired(d)[m]
                           /\ m = n => versions'[m].status = "published"
    <3>1. \A m \in Numbers : Retired(d)[m] \in Version
      BY <2>2 DEF Retired, Version
    <3> QED BY <1>2, <2>1, <3>1 DEF Retired, Version
  <2>4. \A m \in Numbers :
          Retired(d)[m].status = IF m = d /\ versions[m].status = "published"
                                   THEN "retired" ELSE versions[m].status
    BY <2>2 DEF Retired, Version
  <2> QED BY <2>3, <2>4
<1>5. Existing' = Existing
  BY <1>2, <1>4 DEF Existing, Numbers
<1>6. NumbersHaveNoGaps'
  BY <1>2, <1>3, <1>5 DEF NumbersHaveNoGaps
<1>7. \A m \in Existing : m \in Numbers /\
         versions[m].status = CASE m < d -> "retired" [] m = d -> "published" [] OTHER -> "draft"
  BY <1>1 DEF HInv, VersionsTellTheHistory, Existing
<1>8. VersionsTellTheHistory'
  <2> HIDE DEF n, d
  <2>1. ASSUME NEW m \in Existing
        PROVE  versions'[m].status = CASE m < n -> "retired" [] m = n -> "published" [] OTHER -> "draft"
    <3>1. m \in Numbers /\ m \in 1 .. n
      BY <1>2, <1>7, <2>1
    <3>2. CASE m = n
      BY <1>4, <3>1, <3>2
    <3>3. CASE m = d /\ m # n
      <4>1. versions[m].status = "published"
        BY <1>2, <1>7, <2>1, <3>3
      <4> QED BY <1>2, <1>4, <3>1, <3>3, <4>1
    <3>4. CASE m # d /\ m # n
      <4>1. m < d
        BY <1>2, <3>1, <3>4
      <4>2. versions[m].status = "retired"
        BY <1>2, <1>7, <2>1, <3>1, <3>4, <4>1
      <4> QED BY <1>2, <1>4, <3>1, <3>4, <4>1, <4>2
    <3> QED BY <3>2, <3>3, <3>4
  <2>2. definition'.current = n
    BY <1>3
  <2> QED BY <1>5, <2>1, <2>2 DEF VersionsTellTheHistory
<1>9. \A m \in Numbers : versions[m].status \in Released => versions'[m].status \in Released
  BY <1>4 DEF Released
<1>10. InstancesRunReleasedVersions'
  BY <1>1, <1>9 DEF HInv, IInv, TypeOK, Instance, InstancesRunReleasedVersions, Released
<1>11. StarterHoldsReleased' /\ EditorIsUpToDate'
  BY <1>0, <1>1, <1>9, StartersUndisturbed, IdleEditor, AnswerFrame DEF HInv
<1> QED BY <1>6, <1>8, <1>10, <1>11 DEF HInv

\* Archiving and restoring change neither the versions nor which is current.
LEMMA ArchiveHistory ==
  ASSUME HInv, IInv', \A d, e \in Editors : d = e, NEW c \in Editors,
         Archive(c) \/ Restore(c)
  PROVE  HInv'
<1>0. c \in Callers
  BY DEF Callers
<1>1. definition = seen[c].definition /\ definition \in Definition
  BY <1>0 DEF Archive, Restore, At, HInv, EditorIsUpToDate, IInv, TypeOK
<1>2. definition' \in Definition /\ definition'.current = definition.current
  BY <1>1 DEF Archive, Restore, SaveDefinition, RestoredStatus, Definition
<1>3. Answer(c) /\ UNCHANGED <<versions, instances>>
  BY DEF Archive, Restore, Finish
<1>4. VersionsTellTheHistory' /\ NumbersHaveNoGaps' /\ InstancesRunReleasedVersions'
  BY <1>1, <1>2, <1>3, SameHistory, NoValueAssumption
<1>5. StarterHoldsReleased' /\ EditorIsUpToDate'
  BY <1>0, <1>1, <1>3, StartersUndisturbed, IdleEditor, AnswerFrame, NoValueAssumption DEF HInv
<1> QED BY <1>4, <1>5 DEF HInv

LEMMA RemoveHistory ==
  ASSUME HInv, IInv', \A d, e \in Editors : d = e, NEW c \in Editors, RemoveDefinition(c)
  PROVE  HInv'
<1>0. c \in Callers
  BY DEF Callers
<1>1. definition' = Deleted /\ Answer(c) /\ UNCHANGED instances
      /\ \A i \in InstanceIds : instances[i] = NoInstance
  BY DEF RemoveDefinition, Removable, Unreferenced, Finish
<1>2. VersionsTellTheHistory' /\ NumbersHaveNoGaps' /\ InstancesRunReleasedVersions'
  BY <1>1 DEF VersionsTellTheHistory, NumbersHaveNoGaps, InstancesRunReleasedVersions
<1>3. StarterHoldsReleased' /\ EditorIsUpToDate'
  BY <1>0, <1>1, IdleEditor, AnswerFrame DEF HInv, StarterHoldsReleased
<1> QED BY <1>2, <1>3 DEF HInv

\* Steps of the editor before it writes.
LEMMA EditorMoves ==
  ASSUME HInv, IInv', \A d, e \in Editors : d = e, NEW c \in Editors,
         UNCHANGED <<definition, versions, instances, scheduled>>,
         \A d \in Callers \ {c} : pc'[d] = pc[d] /\ seen'[d] = seen[d],
         EditorIsUpToDate'
  PROVE  HInv'
<1>1. VersionsTellTheHistory' /\ NumbersHaveNoGaps' /\ InstancesRunReleasedVersions'
  BY SameHistory
<1>2. StarterHoldsReleased'
  BY StartersUndisturbed
<1> QED BY <1>1, <1>2 DEF HInv

LEMMA ReadHistory ==
  ASSUME HInv, IInv', \A d, e \in Editors : d = e, NEW c \in Editors, NEW statuses,
         NEW place \in {"find draft", "find what to publish", "archive", "restore", "count"},
         Read(c, statuses, place)
  PROVE  HInv'
<1>0. c \in Callers
  BY DEF Callers
<1>1. /\ \A d \in Callers \ {c} : pc'[d] = pc[d] /\ seen'[d] = seen[d]
      /\ pc'[c] = place /\ seen'[c].definition = definition
  BY <1>0 DEF Read, GoTo, HInv, IInv, TypeOK
<1>2. EditorIsUpToDate'
  BY <1>1 DEF EditorIsUpToDate, Read
<1> QED BY <1>1, <1>2, EditorMoves DEF Read

LEMMA FindHistory ==
  ASSUME HInv, IInv', \A d, e \in Editors : d = e, NEW c \in Editors,
         FindDraft(c) \/ FindWhatToPublish(c)
  PROVE  HInv'
<1>0. c \in Callers
  BY DEF Callers
<1>1. Drafts # {} => Highest(Drafts) \in Drafts
  BY HighestIsHighest DEF Drafts
<1>2. definition = seen[c].definition
  BY DEF FindDraft, FindWhatToPublish, At, HInv, EditorIsUpToDate
<1>3. UNCHANGED <<definition, versions, instances, scheduled>>
  BY DEF FindDraft, FindWhatToPublish
<1>4. Drafts' = Drafts /\ NewNumber(definition)' = NewNumber(definition)
  BY <1>3 DEF Drafts, NewNumber, Existing
<1>5. \A d \in Callers \ {c} : pc'[d] = pc[d] /\ seen'[d] = seen[d]
  BY <1>0 DEF FindDraft, FindWhatToPublish, GoTo, HInv, IInv, TypeOK
<1>6. /\ seen'[c].definition = seen[c].definition
      /\ \/ pc'[c] \in {"save draft", "publish"} /\ seen'[c].number \in Drafts
         \/ pc'[c] = "insert draft" /\ Drafts = {} /\ seen'[c].number = NewNumber(definition)
  <2>1. CASE FindDraft(c)
    <3>1. /\ pc \in [Callers -> Places]
          /\ seen \in [Callers -> [definition : Definition, number : Nat]]
      BY DEF HInv, IInv, TypeOK
    <3>2. CASE Drafts # {}
      <4>1. /\ seen' = [seen EXCEPT ![c].number = Highest(Drafts)]
            /\ pc' = [pc EXCEPT ![c] = "save draft"]
        BY <2>1, <3>2 DEF FindDraft, GoTo
      <4> QED BY <1>0, <1>1, <3>1, <3>2, <4>1
    <3>3. CASE Drafts = {}
      <4>1. /\ seen' = [seen EXCEPT ![c].number = NewNumber(seen[c].definition)]
            /\ pc' = [pc EXCEPT ![c] = "insert draft"]
        BY <2>1, <3>3 DEF FindDraft, GoTo
      <4>2. NewNumber(seen[c].definition) = NewNumber(definition)
        BY <1>2
      <4> QED BY <1>0, <3>1, <3>3, <4>1, <4>2
    <3> QED BY <3>2, <3>3
  <2>2. CASE FindWhatToPublish(c)
    BY <1>0, <1>1, <1>2, <2>2 DEF FindWhatToPublish, GoTo, HInv, IInv, TypeOK
  <2> QED BY <2>1, <2>2
<1>7. EditorIsUpToDate'
  BY <1>2, <1>3, <1>4, <1>6 DEF EditorIsUpToDate
<1> QED BY <1>3, <1>5, <1>7, EditorMoves

LEMMA MoveHistory ==
  ASSUME HInv, IInv', \A d, e \in Editors : d = e, NEW c \in Editors,
         KeepDraftRow(c) \/ Count(c) \/ GiveUp(c)
  PROVE  HInv'
<1>0. c \in Callers
  BY DEF Callers
<1>1. UNCHANGED <<definition, versions, instances, scheduled>>
  BY DEF KeepDraftRow, Count, GiveUp
<1>2. CASE KeepDraftRow(c)
  <2>1. \A d \in Callers \ {c} : pc'[d] = pc[d] /\ seen'[d] = seen[d]
    BY <1>0, <1>2 DEF KeepDraftRow, GoTo, HInv, IInv, TypeOK
  <2>2. pc'[c] = "replace graph" /\ seen' = seen /\ pc[c] = "save draft"
    BY <1>0, <1>2 DEF KeepDraftRow, GoTo, At, HInv, IInv, TypeOK
  <2>3. Drafts' = Drafts
    BY <1>1 DEF Drafts
  <2>4. EditorIsUpToDate'
    BY <1>1, <2>2, <2>3 DEF EditorIsUpToDate, HInv
  <2> QED BY <1>1, <2>1, <2>4, EditorMoves
<1>3. CASE Count(c) \/ GiveUp(c)
  <2>1. /\ \A d \in Callers \ {c} : pc'[d] = pc[d] /\ seen'[d] = seen[d]
        /\ pc'[c] \in {"idle", "remove"}
    <3>1. CASE Count(c)
      BY <1>0, <3>1 DEF Count, GoTo, HInv, IInv, TypeOK
    <3>2. CASE GiveUp(c)
      BY <1>0, <3>2, AnswerFrame DEF GiveUp, HInv
    <3> QED BY <1>3, <3>1, <3>2
  <2> QED BY <1>1, <2>1, IdleEditor, EditorMoves
<1> QED BY <1>2, <1>3

\* Steps of starters leave the editor's knowledge as true as it was.
LEMMA EditorsUndisturbed ==
  ASSUME HInv, NEW c \in Starters, UNCHANGED <<definition, versions>>,
         \A d \in Callers \ {c} : pc'[d] = pc[d] /\ seen'[d] = seen[d]
  PROVE  EditorIsUpToDate'
<1>1. \A d \in Editors : pc'[d] = pc[d] /\ seen'[d] = seen[d]
  BY CallerAssumption DEF Callers
<1>2. Drafts' = Drafts /\ NewNumber(definition)' = NewNumber(definition)
  BY DEF Drafts, NewNumber, Existing
<1> QED BY <1>1, <1>2 DEF HInv, EditorIsUpToDate

LEMMA StarterHistory ==
  ASSUME HInv, IInv', NEW c \in Starters,
         ReadToStart(c) \/ StartInstance(c) \/ GiveUp(c)
  PROVE  HInv'
<1>0. c \in Callers
  BY DEF Callers
<1>1. UNCHANGED <<definition, versions>>
  BY DEF ReadToStart, StartInstance, GiveUp
<1>2. \A d \in Callers \ {c} : pc'[d] = pc[d] /\ seen'[d] = seen[d]
  <2>1. CASE ReadToStart(c)
    BY <1>0, <2>1 DEF ReadToStart, GoTo, HInv, IInv, TypeOK
  <2>2. CASE StartInstance(c) \/ GiveUp(c)
    BY <1>0, <2>2, AnswerFrame DEF StartInstance, GiveUp, HInv
  <2> QED BY <2>1, <2>2
<1>3. EditorIsUpToDate'
  BY <1>1, <1>2, EditorsUndisturbed
<1>4. CASE ReadToStart(c)
  <2>1. definition # Deleted /\ definition.current \in Numbers
    BY <1>4, NoneIsFree DEF ReadToStart, HInv, IInv, TypeOK, Definition
  <2>2. definition.current \in Existing
    <3>1. definition.current \in 1 .. definition.current
      BY <2>1 DEF Numbers
    <3>2. definition.current \in 1 .. definition.current + 1
      BY <2>1 DEF Numbers
    <3> QED BY <2>1, <3>1, <3>2, ShapeOfHistory
  <2>3. versions[definition.current].status = "published"
    BY <2>1, <2>2 DEF HInv, VersionsTellTheHistory, Numbers
  <2>4. pc'[c] = "start" /\ seen'[c].number = definition.current
    BY <1>0, <1>4 DEF ReadToStart, GoTo, PinnedVersion, HInv, IInv, TypeOK
  <2>5. StarterHoldsReleased'
    BY <1>0, <1>1, <1>2, <2>3, <2>4 DEF HInv, StarterHoldsReleased, Released, Callers
  <2>6. VersionsTellTheHistory' /\ NumbersHaveNoGaps' /\ InstancesRunReleasedVersions'
    BY <1>1, <1>4, SameHistory DEF ReadToStart
  <2> QED BY <1>3, <2>5, <2>6 DEF HInv
<1>5. CASE StartInstance(c) \/ GiveUp(c)
  <2>1. pc'[c] = "idle"
    BY <1>0, <1>5, AnswerFrame DEF StartInstance, GiveUp, HInv
  <2>2. StarterHoldsReleased'
    BY <1>1, <1>2, <2>1 DEF HInv, StarterHoldsReleased, Callers
  <2>3. VersionsTellTheHistory' /\ NumbersHaveNoGaps'
    BY <1>1 DEF HInv, VersionsTellTheHistory, NumbersHaveNoGaps, Existing
  <2>4. InstancesRunReleasedVersions'
    <3>1. CASE GiveUp(c)
      BY <1>1, <3>1 DEF GiveUp, HInv, InstancesRunReleasedVersions
    <3>2. CASE StartInstance(c)
      <4>1. versions[seen[c].number].status \in Released
        BY <3>2 DEF StartInstance, At, HInv, StarterHoldsReleased
      <4>2. PICK i \in InstanceIds :
              instances' = [instances EXCEPT ![i] =
                 [version |-> seen[c].number, graph |-> versions[seen[c].number].graph]]
        BY <3>2 DEF StartInstance
      <4>3. instances \in [InstanceIds -> Instance \union {NoInstance}]
        BY DEF HInv, IInv, TypeOK
      <4> QED BY <1>1, <4>1, <4>2, <4>3 DEF HInv, InstancesRunReleasedVersions, Released
    <3> QED BY <1>5, <3>1, <3>2
  <2> QED BY <1>3, <2>2, <2>3, <2>4 DEF HInv
<1> QED BY <1>4, <1>5

\* Schedules come and go, or nothing happens.
LEMMA QuietHistory ==
  ASSUME HInv, IInv', UNCHANGED <<definition, versions, instances, pc, seen>>
  PROVE  HInv'
<1>1. VersionsTellTheHistory' /\ NumbersHaveNoGaps' /\ InstancesRunReleasedVersions'
  BY SameHistory
<1>2. Drafts' = Drafts /\ NewNumber(definition)' = NewNumber(definition)
  BY DEF Drafts, NewNumber, Existing
<1>3. EditorIsUpToDate' /\ StarterHoldsReleased'
  BY <1>2 DEF HInv, EditorIsUpToDate, StarterHoldsReleased
<1> QED BY <1>1, <1>3 DEF HInv

LEMMA HistoryStep ==
  ASSUME HInv, IInv', \A d, e \in Editors : d = e, [Next]_vars
  PROVE  HInv'
<1>1. ASSUME NEW c \in Editors, Edit(c) PROVE HInv'
  <2>1. CASE \/ Read(c, AnyStatus, "find draft")
             \/ Read(c, AnyStatus, "find what to publish")
             \/ Read(c, {"draft", "published"}, "archive")
             \/ Read(c, {"archived"}, "restore")
             \/ Read(c, {"archived"}, "count")
    BY <2>1, ReadHistory
  <2>2. CASE FindDraft(c) \/ FindWhatToPublish(c)
    BY <2>2, FindHistory
  <2>3. CASE InsertDraft(c) \/ SaveDraft(c) \/ ReplaceGraph(c)
    BY <2>3, DraftHistory
  <2>4. CASE KeepDraftRow(c) \/ Count(c)
    BY <2>4, MoveHistory
  <2>5. CASE Publish(c)
    BY <2>5, PublishHistory
  <2>6. CASE Archive(c) \/ Restore(c)
    BY <2>6, ArchiveHistory
  <2>7. CASE RemoveDefinition(c)
    BY <2>7, RemoveHistory
  <2> QED BY <1>1, <2>1, <2>2, <2>3, <2>4, <2>5, <2>6, <2>7 DEF Edit
<1>2. ASSUME NEW c \in Starters, ReadToStart(c) \/ StartInstance(c) PROVE HInv'
  BY <1>2, StarterHistory
<1>3. ASSUME NEW c \in Callers, GiveUp(c) PROVE HInv'
  BY <1>3, MoveHistory, StarterHistory DEF Callers
<1>4. CASE Schedule
  BY <1>4, QuietHistory DEF Schedule
<1>5. CASE UNCHANGED vars
  BY <1>5, QuietHistory DEF vars
<1> QED BY <1>1, <1>2, <1>3, <1>4, <1>5 DEF Next

LEMMA HistoryInvariance ==
  ASSUME \A d, e \in Editors : d = e
  PROVE  Spec => []HInv
<1>1. HInv /\ IInv' /\ [Next]_vars => HInv'
  BY HistoryStep
<1> QED BY <1>1, HistoryInit, Invariance, PTL DEF Spec

\* One editor at a time, and any number of starters: retired versions, the
\* published one, a draft, in this order.
THEOREM VersionsAreInOrder ==
  ASSUME \A d, e \in Editors : d = e
  PROVE  Spec => []VersionsTellTheHistory
<1>1. HInv => VersionsTellTheHistory BY DEF HInv
<1> QED BY <1>1, HistoryInvariance, PTL

\* One editor at a time: saveDraft never meets a number that is taken or a
\* draft that runs.
THEOREM EditingNeverEnds ==
  ASSUME \A d, e \in Editors : d = e
  PROVE  Spec => []EditingStaysPossible
<1>1. HInv => EditingStaysPossible
  <2> SUFFICES ASSUME HInv, definition # Deleted
               PROVE  IF Drafts # {} THEN InstancesOf(Highest(Drafts)) = {}
                                     ELSE NewNumber(definition) \notin Existing
    BY DEF EditingStaysPossible
  <2>1. CASE Drafts # {}
    <3>1. Highest(Drafts) \in Drafts
      BY <2>1, HighestIsHighest DEF Drafts
    <3> QED
      BY <2>1, <3>1 DEF HInv, InstancesRunReleasedVersions, InstancesOf, Drafts
  <2>2. CASE Drafts = {}
    <3>1. definition.current \in Numbers /\ Existing = 1 .. definition.current
      BY <2>2, ShapeOfHistory
    <3>2. NewNumber(definition) = definition.current + 1
      BY <3>1, NoneIsFree DEF NewNumber
    <3> QED BY <2>2, <3>1, <3>2 DEF Numbers
  <2> QED BY <2>1, <2>2
<1> QED BY <1>1, HistoryInvariance, PTL

\* One editor at a time: nobody starts an instance of a draft.
THEOREM InstancesRunWhatWasReleased ==
  ASSUME \A d, e \in Editors : d = e
  PROVE  Spec => []InstancesRunReleasedVersions
<1>1. HInv => InstancesRunReleasedVersions BY DEF HInv
<1> QED BY <1>1, HistoryInvariance, PTL

\* One editor at a time: a version is never changed again once it was
\* published, although nothing in the service says so of the graph.
THEOREM ReleasesAreFinal ==
  ASSUME \A d, e \in Editors : d = e
  PROVE  Spec => ReleasedGraphsAreFrozen
<1> DEFINE Frozen == \A n \in Numbers :
       versions[n].status \in {"published", "retired"} /\ definition' # Deleted =>
         /\ versions'[n].status \in {"published", "retired"}
         /\ versions'[n].graph = versions[n].graph
<1>1. HInv /\ [Next]_vars => [Frozen]_vars
  <2> SUFFICES ASSUME HInv, Next PROVE Frozen
    OBVIOUS
  <2> SUFFICES ASSUME NEW n \in Numbers, versions[n].status \in {"published", "retired"},
                      definition' # Deleted
               PROVE  /\ versions'[n].status \in {"published", "retired"}
                      /\ versions'[n].graph = versions[n].graph
    OBVIOUS
  <2>1. versions \in [Numbers -> Version] /\ n \notin Drafts /\ n \in Existing
    BY DEF HInv, IInv, TypeOK, Drafts, Existing
  <2>2. ASSUME NEW c \in Editors, InsertDraft(c) \/ SaveDraft(c) \/ ReplaceGraph(c)
        PROVE  versions'[n] = versions[n]
    <3>1. seen[c].number # n
      BY <2>1, <2>2 DEF InsertDraft, SaveDraft, ReplaceGraph, At, HInv, EditorIsUpToDate
    <3> QED BY <2>1, <2>2, <3>1 DEF InsertDraft, SaveDraft, ReplaceGraph
  <2>3. ASSUME NEW c \in Editors, Publish(c)
        PROVE  /\ versions'[n].status \in {"published", "retired"}
               /\ versions'[n].graph = versions[n].graph
    <3>1. seen[c].number # n
      BY <2>1, <2>3 DEF Publish, At, HInv, EditorIsUpToDate
    <3> DEFINE old == seen[c].definition.current
    <3>2. versions'[n] = Retired(old)[n]
      BY <2>3, <3>1 DEF Publish, Retired
    <3> QED BY <2>1, <3>2 DEF Retired, Version
  <2>4. ASSUME NEW c \in Editors, Edit(c),
               ~ (InsertDraft(c) \/ SaveDraft(c) \/ ReplaceGraph(c) \/ Publish(c))
        PROVE  versions' = versions
    BY <2>4 DEF Edit, Read, FindDraft, KeepDraftRow, FindWhatToPublish, Archive, Restore,
                Count, RemoveDefinition
  <2>5. ASSUME NEW c \in Callers, ReadToStart(c) \/ StartInstance(c) \/ GiveUp(c)
        PROVE  versions' = versions
    BY <2>5 DEF ReadToStart, StartInstance, GiveUp
  <2>6. CASE Schedule
    BY <2>6 DEF Schedule
  <2> QED BY <2>2, <2>3, <2>4, <2>5, <2>6 DEF Next, Callers
<1>2. ReleasedGraphsAreFrozen <=> [][Frozen]_vars
  BY DEF ReleasedGraphsAreFrozen
<1> QED BY <1>1, <1>2, HistoryInvariance, PTL DEF Spec

-----------------------------------------------------------------------------
(* From a graph to a person.                                               *)

\* Induction up to n, over a set of numbers.
LEMMA Climbing ==
  ASSUME NEW n \in Nat, NEW S, 0 \in S, \A i \in 1 .. n : i - 1 \in S => i \in S
  PROVE  0 .. n \subseteq S
<1> DEFINE T == (0 .. n) \ S
<1> SUFFICES ASSUME T # {} PROVE FALSE
  OBVIOUS
<1>1. PICK x \in T : \A y \in T : ~ (<<y, x>> \in OpToRel(<, Nat))
  <2>1. IsWellFoundedOn(OpToRel(<, Nat), Nat)
    BY NatLessThanWellFounded
  <2>2. T \subseteq Nat
    OBVIOUS
  <2> QED BY <2>1, <2>2, WFMin
<1>2. T \subseteq Nat
  OBVIOUS
<1>3. \A y \in T : ~ (y < x)
  BY <1>1, <1>2 DEF OpToRel
<1>4. x \in 1 .. n /\ x - 1 \in 0 .. n /\ x - 1 < x
  OBVIOUS
<1>5. x - 1 \notin T
  BY <1>3, <1>4
<1> QED BY <1>4, <1>5

-----------------------------------------------------------------------------
(* Each recursive function of WorkflowGraphs satisfies its equation.       *)

LEMMA NormalizingUnfolds ==
  ASSUME NEW label, Len(label) \in Nat
  PROVE  Normalizing(label) = [i \in 0 .. Len(label) |->
           IF i = 0 THEN <<>> ELSE Spelled(Normalizing(label)[i - 1], label[i])]
<1> DEFINE Solves(f, k) ==
             f = [i \in 0 .. k |-> IF i = 0 THEN <<>> ELSE Spelled(f[i - 1], label[i])]
           S == {k \in 0 .. Len(label) : \E f : Solves(f, k)}
<1>1. 0 \in S
  <2>1. PICK f : f = [i \in 0 .. 0 |-> <<>>]
    OBVIOUS
  <2>2. Solves(f, 0)
    BY <2>1
  <2> QED BY <2>2
<1>2. ASSUME NEW k \in 1 .. Len(label), k - 1 \in S PROVE k \in S
  <2>1. PICK f : Solves(f, k - 1)
    BY <1>2
  <2>2. PICK g : g = [i \in 0 .. k |-> IF i = k THEN Spelled(f[k - 1], label[k]) ELSE f[i]]
    OBVIOUS
  <2>3. ASSUME NEW i \in 0 .. k
        PROVE  g[i] = IF i = 0 THEN <<>> ELSE Spelled(g[i - 1], label[i])
    <3>1. CASE i = k
      BY <3>1, <2>2
    <3>2. CASE i # k
      BY <3>2, <2>1, <2>2
    <3> QED BY <3>1, <3>2
  <2>4. Solves(g, k)
    BY <2>2, <2>3
  <2>5. k \in 0 .. Len(label)
    OBVIOUS
  <2> HIDE DEF Solves
  <2> QED BY <2>4, <2>5
<1>3. 0 .. Len(label) \subseteq S
  <2> HIDE DEF S
  <2> QED BY <1>1, <1>2, Climbing
<1>4. \E f : Solves(f, Len(label))
  BY <1>3
<1>5. Normalizing(label) = CHOOSE f : Solves(f, Len(label))
  BY DEF Normalizing
<1>6. Solves(Normalizing(label), Len(label))
  <2> HIDE DEF Solves
  <2> QED BY <1>4, <1>5
<1> QED BY <1>6

LEMMA PreparingUnfolds ==
  ASSUME NEW ts, Len(ts) \in Nat
  PROVE  Preparing(ts) = [i \in 0 .. Len(ts) |->
           IF i = 0 THEN <<>> ELSE Keyed(Preparing(ts)[i - 1], ts[i])]
<1> DEFINE Solves(f, k) ==
             f = [i \in 0 .. k |-> IF i = 0 THEN <<>> ELSE Keyed(f[i - 1], ts[i])]
           S == {k \in 0 .. Len(ts) : \E f : Solves(f, k)}
<1>1. 0 \in S
  <2>1. PICK f : f = [i \in 0 .. 0 |-> <<>>]
    OBVIOUS
  <2>2. Solves(f, 0)
    BY <2>1
  <2> QED BY <2>2
<1>2. ASSUME NEW k \in 1 .. Len(ts), k - 1 \in S PROVE k \in S
  <2>1. PICK f : Solves(f, k - 1)
    BY <1>2
  <2>2. PICK g : g = [i \in 0 .. k |-> IF i = k THEN Keyed(f[k - 1], ts[k]) ELSE f[i]]
    OBVIOUS
  <2>3. ASSUME NEW i \in 0 .. k
        PROVE  g[i] = IF i = 0 THEN <<>> ELSE Keyed(g[i - 1], ts[i])
    <3>1. CASE i = k
      BY <3>1, <2>2
    <3>2. CASE i # k
      BY <3>2, <2>1, <2>2
    <3> QED BY <3>1, <3>2
  <2>4. Solves(g, k)
    BY <2>2, <2>3
  <2>5. k \in 0 .. Len(ts)
    OBVIOUS
  <2> HIDE DEF Solves
  <2> QED BY <2>4, <2>5
<1>3. 0 .. Len(ts) \subseteq S
  <2> HIDE DEF S
  <2> QED BY <1>1, <1>2, Climbing
<1>4. \E f : Solves(f, Len(ts))
  BY <1>3
<1>5. Preparing(ts) = CHOOSE f : Solves(f, Len(ts))
  BY DEF Preparing
<1>6. Solves(Preparing(ts), Len(ts))
  <2> HIDE DEF Solves
  <2> QED BY <1>4, <1>5
<1> QED BY <1>6

LEMMA ReachingUnfolds ==
  ASSUME NEW g, NEW start, Len(g.transitions) \in Nat
  PROVE  Reaching(g, start) = [i \in 0 .. Len(g.transitions) |->
           IF i = 0 THEN start ELSE Spread(g, Reaching(g, start)[i - 1])]
<1> DEFINE n == Len(g.transitions)
           Solves(f, k) == f = [i \in 0 .. k |-> IF i = 0 THEN start ELSE Spread(g, f[i - 1])]
           S == {k \in 0 .. n : \E f : Solves(f, k)}
<1>1. 0 \in S
  <2>1. PICK f : f = [i \in 0 .. 0 |-> start]
    OBVIOUS
  <2>2. Solves(f, 0)
    BY <2>1
  <2> QED BY <2>2
<1>2. ASSUME NEW k \in 1 .. n, k - 1 \in S PROVE k \in S
  <2>1. PICK f : Solves(f, k - 1)
    BY <1>2
  <2>2. PICK h : h = [i \in 0 .. k |-> IF i = k THEN Spread(g, f[k - 1]) ELSE f[i]]
    OBVIOUS
  <2>3. ASSUME NEW i \in 0 .. k
        PROVE  h[i] = IF i = 0 THEN start ELSE Spread(g, h[i - 1])
    <3>1. CASE i = k
      BY <3>1, <2>2
    <3>2. CASE i # k
      BY <3>2, <2>1, <2>2
    <3> QED BY <3>1, <3>2
  <2>4. Solves(h, k)
    BY <2>2, <2>3
  <2>5. k \in 0 .. n
    OBVIOUS
  <2> HIDE DEF Solves
  <2> QED BY <2>4, <2>5
<1>3. 0 .. n \subseteq S
  <2> HIDE DEF S
  <2> QED BY <1>1, <1>2, Climbing
<1>4. \E f : Solves(f, n)
  BY <1>3
<1>5. Reaching(g, start) = CHOOSE f : Solves(f, n)
  BY DEF Reaching
<1>6. Solves(Reaching(g, start), n)
  <2> HIDE DEF Solves
  <2> QED BY <1>4, <1>5
<1> QED BY <1>6

-----------------------------------------------------------------------------
(* Keys *)

LEMMA LetterFacts ==
  /\ Underscore \notin Letters
  /\ {"a", "c", "g", "i", "n", "o", "r", "s", "t"} \subseteq Letters
  /\ Letters \subseteq KeyCharacters /\ Underscore \in KeyCharacters
<1>1. ToSet(Digits) = {"0", "1", "2", "3", "4", "5", "6", "7", "8", "9"}
  BY DEF ToSet, Digits
<1> QED BY <1>1, Zenon DEF Letters, KeyCharacters, Underscore

LEMMA BeginningIsWellFormed ==
  ASSUME NEW key, WellFormedKey(key), NEW n \in 1 .. Len(key)
  PROVE  WellFormedKey(SubSeq(key, 1, n))
<1>1. key \in Seq(KeyCharacters) /\ Len(key) \in Nat
  BY DEF WellFormedKey
<1>2. \A i \in 1 .. n : key[i] \in KeyCharacters
  BY <1>1
<1>3. /\ SubSeq(key, 1, n) \in Seq(KeyCharacters)
      /\ Len(SubSeq(key, 1, n)) = n
      /\ SubSeq(key, 1, n)[1] = key[1]
  BY <1>1, <1>2, SubSeqProperties
<1>4. SubSeq(key, 1, n) # <<>>
  BY <1>3
<1> QED BY <1>3, <1>4 DEF WellFormedKey

LEMMA CutIsWellFormed ==
  ASSUME NEW key, WellFormedKey(key), NEW n \in Nat \ {0}
  PROVE  WellFormedKey(Cut(key, n))
<1>1. Len(key) \in Nat \ {0}
  BY DEF WellFormedKey
<1> QED BY <1>1, BeginningIsWellFormed DEF Cut

LEMMA SpelledIsWellFormed ==
  ASSUME NEW key, key = <<>> \/ WellFormedKey(key), NEW c
  PROVE  Spelled(key, c) = <<>> \/ WellFormedKey(Spelled(key, c))
<1>1. key \in Seq(KeyCharacters)
  <2>1. CASE key = <<>>
    BY <2>1, EmptySeq
  <2>2. CASE WellFormedKey(key)
    BY <2>2 DEF WellFormedKey
  <2> QED BY <2>1, <2>2
<1>2. ASSUME NEW d \in KeyCharacters, key = <<>> => d \in Letters
      PROVE  WellFormedKey(Append(key, d))
  <2>1. /\ Append(key, d) \in Seq(KeyCharacters)
        /\ Append(key, d) # <<>>
        /\ key = <<>> => Append(key, d)[1] = d
        /\ key # <<>> => Append(key, d)[1] = key[1]
    BY <1>1, <1>2, AppendProperties
  <2> QED BY <1>2, <2>1 DEF WellFormedKey
<1>3. CASE c \in Letters
  BY <1>2, <1>3, LetterFacts DEF Spelled
<1>4. CASE c \notin Letters
  BY <1>2, <1>4, LetterFacts DEF Spelled
<1> QED BY <1>3, <1>4

\* What actionKeyFromLabel makes of a label is a key that is kept when it is
\* asked for.
LEMMA LabelKeyIsWellFormed ==
  ASSUME NEW label, Len(label) \in Nat
  PROVE  WellFormedKey(ActionKeyFromLabel(label))
<1> DEFINE done == Normalizing(label)
           n    == Len(label)
           S    == {i \in 0 .. n : done[i] = <<>> \/ WellFormedKey(done[i])}
<1>1. done[0] = <<>> /\ \A i \in 1 .. n : done[i] = Spelled(done[i - 1], label[i])
  <2> HIDE DEF done
  <2>1. done = [i \in 0 .. n |-> IF i = 0 THEN <<>> ELSE Spelled(done[i - 1], label[i])]
    BY NormalizingUnfolds DEF done
  <2> QED BY <2>1
<1> HIDE DEF done
<1>2. 0 .. n \subseteq S
  <2>1. 0 \in S
    BY <1>1
  <2>2. ASSUME NEW i \in 1 .. n, i - 1 \in S PROVE i \in S
    <3>1. done[i - 1] = <<>> \/ WellFormedKey(done[i - 1])
      BY <2>2
    <3>2. done[i] = <<>> \/ WellFormedKey(done[i])
      BY <1>1, <3>1, SpelledIsWellFormed
    <3> QED BY <3>2
  <2> HIDE DEF S
  <2> QED BY <2>1, <2>2, Climbing
<1>3. done[n] = <<>> \/ WellFormedKey(done[n])
  BY <1>2
<1>4. Normalized(label) = <<>> \/ WellFormedKey(Normalized(label))
  <2>1. CASE done[n] = <<>>
    BY <2>1 DEF Normalized, done
  <2>2. CASE WellFormedKey(done[n]) /\ Last(done[n]) # Underscore
    BY <2>2 DEF Normalized, done
  <2>3. CASE WellFormedKey(done[n]) /\ Last(done[n]) = Underscore
    <3>1. PICK key : key = done[n]
      OBVIOUS
    <3>2. key \in Seq(KeyCharacters) /\ key # <<>> /\ key[1] # Underscore
      BY <2>3, <3>1, LetterFacts DEF WellFormedKey
    <3>3. key[Len(key)] = Underscore
      BY <2>3, <3>1 DEF Last
    <3>4. Len(key) - 1 \in 1 .. Len(key)
      <4>1. Len(key) \in Nat \ {0}
        BY <3>2, EmptySeq
      <4>2. Len(key) # 1
        BY <3>2, <3>3
      <4>3. PICK k \in Nat \ {0} : k = Len(key)
        BY <4>1
      <4> QED BY <4>2, <4>3
    <3>5. WellFormedKey(Front(key))
      BY <2>3, <3>1, <3>4, BeginningIsWellFormed DEF Front
    <3>6. Normalized(label) = Front(key)
      BY <2>3, <3>1 DEF Normalized, done, WellFormedKey
    <3> QED BY <3>5, <3>6
  <2> QED BY <1>3, <2>1, <2>2, <2>3
<1>5. CASE Normalized(label) = <<>>
  <2>1. Cut(<<>>, KeyLength) = <<>>
    BY KeyAssumption DEF Cut
  <2>2. ActionKeyFromLabel(label) = <<"a", "c", "t", "i", "o", "n">>
    BY <1>5, <2>1 DEF ActionKeyFromLabel
  <2>3. \A c \in {"a", "c", "t", "i", "o", "n"} : c \in Letters /\ c \in KeyCharacters
    BY LetterFacts
  <2> DEFINE key == <<"a", "c", "t", "i", "o", "n">>
  <2>4. key \in Seq(KeyCharacters) /\ key # <<>> /\ key[1] = "a"
    BY <2>3
  <2>5. WellFormedKey(key)
    <3> HIDE DEF key
    <3> QED BY <2>3, <2>4 DEF WellFormedKey
  <2> QED BY <2>2, <2>5
<1>6. CASE WellFormedKey(Normalized(label))
  BY <1>6, CutIsWellFormed, KeyAssumption DEF ActionKeyFromLabel, WellFormedKey
<1> QED BY <1>4, <1>5, <1>6

LEMMA DigitFacts ==
  /\ \A d \in 0 .. 9 : Digit(d) \in Letters
  /\ \A d, e \in 0 .. 9 : Digit(d) = Digit(e) => d = e
<1>1. DOMAIN Digits = 1 .. 10
  BY DEF Digits
<1>2. \A d \in 1 .. 10 : Digits[d] \in ToSet(Digits)
  BY <1>1 DEF ToSet
<1>3. ToSet(Digits) \subseteq Letters
  BY DEF Letters
<1>4. ASSUME NEW d \in 0 .. 9 PROVE Digit(d) \in Letters
  <2>1. d + 1 \in 1 .. 10
    OBVIOUS
  <2> QED BY <1>2, <1>3, <2>1 DEF Digit
<1>5. ASSUME NEW d \in 0 .. 9, NEW e \in 0 .. 9, Digit(d) = Digit(e) PROVE d = e
  BY <1>5 DEF Digit, Digits
<1> QED BY <1>4, <1>5

\* An underscore and the digits of the number, k characters together.
OneDigit(s, n) == \E a \in 0 .. 9 : n = a /\ s[2] = Digit(a)
TwoDigits(s, n) == \E a, b \in 0 .. 9 : n = 10 * a + b /\ s[2] = Digit(a) /\ s[3] = Digit(b)
ThreeDigits(s, n) ==
  \E a, b, c \in 0 .. 9 :
    n = 100 * a + 10 * b + c /\ s[2] = Digit(a) /\ s[3] = Digit(b) /\ s[4] = Digit(c)

Shown(s, n) ==
  /\ Len(s) = 2 => OneDigit(s, n)
  /\ Len(s) = 3 => TwoDigits(s, n)
  /\ Len(s) = 4 => ThreeDigits(s, n)
Tells(s, n) == s \in Seq(KeyCharacters) /\ Len(s) \in 2 .. 4 /\ s[1] = Underscore /\ Shown(s, n)

\* SuffixNumbers of three digits at most.
SuffixNumbers == 2 .. 999

LEMMA SuffixTells ==
  ASSUME NEW n \in SuffixNumbers
  PROVE  Tells(Suffix(n), n)
<1> USE DEF SuffixNumbers
<1>1. PICK u \in KeyCharacters : u = Underscore
  BY LetterFacts
<1>2. \A d \in 0 .. 9 : Digit(d) \in KeyCharacters
  BY DigitFacts, LetterFacts
<1>3. CASE n < 10
  <2>1. n \in 0 .. 9
    BY <1>3
  <2>2. PICK a \in KeyCharacters : a = Digit(n)
    BY <1>2, <2>1
  <2>3. PICK s : s = <<u, a>>
    OBVIOUS
  <2>4. Suffix(n) = s
    BY <1>1, <1>3, <2>2, <2>3 DEF Suffix
  <2>5. s \in Seq(KeyCharacters) /\ Len(s) = 2 /\ s[1] = u /\ s[2] = a
    BY <2>3
  <2>6. OneDigit(s, n)
    BY <2>1, <2>2, <2>5 DEF OneDigit
  <2>7. Shown(s, n)
    BY <2>5, <2>6 DEF Shown
  <2>8. Tells(s, n)
    BY <1>1, <2>5, <2>7 DEF Tells
  <2> QED BY <2>4, <2>8
<1>4. CASE ~ (n < 10) /\ n < 100
  <2>1. PICK x \in 0 .. 9, y \in 0 .. 9 : x = n \div 10 /\ y = n % 10 /\ n = 10 * x + y
    BY <1>4
  <2>2. PICK a \in KeyCharacters, b \in KeyCharacters : a = Digit(x) /\ b = Digit(y)
    BY <1>2
  <2>3. PICK s : s = <<u, a, b>>
    OBVIOUS
  <2>4. Suffix(n) = s
    BY <1>1, <1>4, <2>1, <2>2, <2>3 DEF Suffix
  <2>5. s \in Seq(KeyCharacters) /\ Len(s) = 3 /\ s[1] = u /\ s[2] = a /\ s[3] = b
    BY <2>3
  <2>6. TwoDigits(s, n)
    BY <2>1, <2>2, <2>5 DEF TwoDigits
  <2>7. Shown(s, n)
    BY <2>5, <2>6 DEF Shown
  <2>8. Tells(s, n)
    BY <1>1, <2>5, <2>7 DEF Tells
  <2> QED BY <2>4, <2>8
<1>5. CASE ~ (n < 100)
  <2>1. PICK x \in 0 .. 9, y \in 0 .. 9, z \in 0 .. 9 :
          x = n \div 100 /\ y = (n \div 10) % 10 /\ z = n % 10 /\ n = 100 * x + 10 * y + z
    <3>1. n \div 100 \in 0 .. 9 /\ (n \div 10) % 10 \in 0 .. 9 /\ n % 10 \in 0 .. 9
      BY <1>5
    <3>2. n = 100 * (n \div 100) + 10 * ((n \div 10) % 10) + (n % 10)
      BY <1>5
    <3> QED BY <3>1, <3>2
  <2>2. PICK a \in KeyCharacters, b \in KeyCharacters, c \in KeyCharacters :
          a = Digit(x) /\ b = Digit(y) /\ c = Digit(z)
    BY <1>2
  <2>3. PICK s : s = <<u, a, b, c>>
    OBVIOUS
  <2>4. ~ (n < 10)
    BY <1>5
  <2>5. Suffix(n) = s
    BY <1>1, <1>5, <2>1, <2>2, <2>3, <2>4, Zenon DEF Suffix
  <2>6. s \in Seq(KeyCharacters) /\ Len(s) = 4 /\ s[1] = u /\ s[2] = a /\ s[3] = b /\ s[4] = c
    BY <2>3
  <2>7. ThreeDigits(s, n)
    BY <2>1, <2>2, <2>6 DEF ThreeDigits
  <2>8. Shown(s, n)
    BY <2>6, <2>7 DEF Shown
  <2>9. Tells(s, n)
    BY <1>1, <2>6, <2>8 DEF Tells
  <2> QED BY <2>5, <2>9
<1> QED BY <1>3, <1>4, <1>5

LEMMA TellsOne ==
  ASSUME NEW s, NEW m \in Nat, NEW n \in Nat, Tells(s, m), Tells(s, n)
  PROVE  m = n
<1>1. Shown(s, m) /\ Shown(s, n) /\ Len(s) \in 2 .. 4
  BY DEF Tells
<1>2. CASE Len(s) = 2
  <2>1. OneDigit(s, m) /\ OneDigit(s, n)
    BY <1>2, <1>1 DEF Shown
  <2> QED BY <2>1, DigitFacts DEF OneDigit
<1>3. CASE Len(s) = 3
  <2>1. TwoDigits(s, m) /\ TwoDigits(s, n)
    BY <1>3, <1>1 DEF Shown
  <2>2. PICK a \in 0 .. 9, b \in 0 .. 9 : m = 10 * a + b /\ s[2] = Digit(a) /\ s[3] = Digit(b)
    BY <2>1 DEF TwoDigits
  <2>3. PICK d \in 0 .. 9, e \in 0 .. 9 : n = 10 * d + e /\ s[2] = Digit(d) /\ s[3] = Digit(e)
    BY <2>1 DEF TwoDigits
  <2>4. Digit(a) = Digit(d) /\ Digit(b) = Digit(e)
    BY <2>2, <2>3
  <2>5. a = d /\ b = e
    BY <2>4, DigitFacts
  <2> QED BY <2>2, <2>3, <2>5
<1>4. CASE Len(s) = 4
  <2>1. ThreeDigits(s, m) /\ ThreeDigits(s, n)
    BY <1>4, <1>1 DEF Shown
  <2>2. PICK a \in 0 .. 9, b \in 0 .. 9, c \in 0 .. 9 :
          m = 100 * a + 10 * b + c /\ s[2] = Digit(a) /\ s[3] = Digit(b) /\ s[4] = Digit(c)
    BY <2>1 DEF ThreeDigits
  <2>3. PICK d \in 0 .. 9, e \in 0 .. 9, f \in 0 .. 9 :
          n = 100 * d + 10 * e + f /\ s[2] = Digit(d) /\ s[3] = Digit(e) /\ s[4] = Digit(f)
    BY <2>1 DEF ThreeDigits
  <2>4. Digit(a) = Digit(d) /\ Digit(b) = Digit(e) /\ Digit(c) = Digit(f)
    BY <2>2, <2>3
  <2>5. a = d /\ b = e /\ c = f
    BY <2>4, DigitFacts
  <2> QED BY <2>2, <2>3, <2>5
<1> QED BY <1>2, <1>3, <1>4, <1>1

LEMMA TellsInLetters ==
  ASSUME NEW s, NEW n, Tells(s, n), NEW i \in 2 .. Len(s)
  PROVE  s[i] \in Letters
<1>1. Shown(s, n) /\ Len(s) \in 2 .. 4
  BY DEF Tells
<1>2. i = 2 \/ i = 3 \/ i = 4
  <2>1. PICK k \in 2 .. 4 : k = Len(s)
    BY <1>1
  <2>2. i \in 2 .. k
    BY <2>1
  <2> QED BY <2>2
<1>3. CASE Len(s) = 2
  <2>1. OneDigit(s, n)
    BY <1>3, <1>1 DEF Shown
  <2>2. s[2] \in Letters
    BY <2>1, DigitFacts DEF OneDigit
  <2> QED BY <1>3, <2>2
<1>4. CASE Len(s) = 3
  <2>1. TwoDigits(s, n)
    BY <1>4, <1>1 DEF Shown
  <2>2. s[2] \in Letters /\ s[3] \in Letters
    BY <2>1, DigitFacts DEF TwoDigits
  <2> QED BY <1>2, <1>4, <2>2
<1>5. CASE Len(s) = 4
  <2>1. ThreeDigits(s, n)
    BY <1>5, <1>1 DEF Shown
  <2>2. s[2] \in Letters /\ s[3] \in Letters /\ s[4] \in Letters
    BY <2>1, DigitFacts DEF ThreeDigits
  <2> QED BY <1>2, <2>2
<1> QED BY <1>3, <1>4, <1>5, <1>1

LEMMA SuffixedFacts ==
  ASSUME NEW base, WellFormedKey(base), NEW n \in SuffixNumbers
  PROVE  /\ WellFormedKey(Suffixed(base, n))
         /\ \E head \in Seq(KeyCharacters) : Suffixed(base, n) = head \o Suffix(n)
<1>1. Tells(Suffix(n), n)
  BY SuffixTells
<1>2. PICK k \in 2 .. 4 : k = Len(Suffix(n))
  BY <1>1 DEF Tells
<1> DEFINE room == KeyLength - k
           head == Cut(base, IF room < 1 THEN 1 ELSE room)
<1>3. (IF room < 1 THEN 1 ELSE room) \in Nat \ {0}
  BY KeyAssumption
<1>4. WellFormedKey(head)
  BY <1>3, CutIsWellFormed
<1>5. Suffixed(base, n) = head \o Suffix(n)
  BY <1>2 DEF Suffixed
<1> HIDE DEF head
<1>6. head \in Seq(KeyCharacters) /\ head # <<>> /\ head[1] \in Letters
  BY <1>4 DEF WellFormedKey
<1>7. Suffix(n) \in Seq(KeyCharacters) /\ Len(Suffix(n)) = k
  BY <1>1, <1>2 DEF Tells
<1>8. Len(head) \in Nat \ {0}
  BY <1>6, EmptySeq
<1>9. /\ head \o Suffix(n) \in Seq(KeyCharacters)
      /\ Len(head \o Suffix(n)) = Len(head) + Len(Suffix(n))
      /\ (head \o Suffix(n))[1] = head[1]
  <2>1. PICK l \in Nat \ {0} : l = Len(head)
    BY <1>8
  <2>2. 1 \in 1 .. l + k /\ 1 <= l
    BY <2>1
  <2> QED BY <1>6, <1>7, <2>1, <2>2, ConcatProperties
<1>10. head \o Suffix(n) # <<>>
  BY <1>6, <1>7, ConcatEqualIffEmpty
<1>11. WellFormedKey(head \o Suffix(n))
  BY <1>6, <1>9, <1>10 DEF WellFormedKey
<1> QED BY <1>5, <1>6, <1>11

\* The digits at the end of a suffixed key tell the number, and the
\* underscore before them how many there are.
LEMMA SuffixesDiffer ==
  ASSUME NEW base, WellFormedKey(base), NEW m \in SuffixNumbers, NEW n \in SuffixNumbers,
         Suffixed(base, m) = Suffixed(base, n)
  PROVE  m = n
<1>1. PICK g \in Seq(KeyCharacters) : Suffixed(base, m) = g \o Suffix(m)
  BY SuffixedFacts
<1>2. PICK h \in Seq(KeyCharacters) : Suffixed(base, n) = h \o Suffix(n)
  BY SuffixedFacts
<1>3. PICK key : key = Suffixed(base, m)
  OBVIOUS
<1>4. PICK s : s = Suffix(m) /\ Tells(s, m)
  BY SuffixTells
<1>5. PICK t : t = Suffix(n) /\ Tells(t, n)
  BY SuffixTells
<1>6. PICK k \in 2 .. 4, l \in 2 .. 4 :
        /\ s \in Seq(KeyCharacters) /\ t \in Seq(KeyCharacters)
        /\ Len(s) = k /\ Len(t) = l /\ s[1] = Underscore /\ t[1] = Underscore
  BY <1>4, <1>5 DEF Tells
<1>7. PICK p \in Nat, q \in Nat : p = Len(g) /\ q = Len(h)
  BY <1>1, <1>2
<1>8. p + k = q + l
  <2>1. Len(g \o s) = p + k
    BY <1>1, <1>4, <1>6, <1>7, ConcatProperties
  <2>2. Len(h \o t) = q + l
    BY <1>2, <1>5, <1>6, <1>7, ConcatProperties
  <2> QED BY <1>1, <1>2, <1>3, <1>4, <1>5, <2>1, <2>2
<1>9. /\ \A i \in 1 .. k : key[p + i] = s[i]
      /\ \A i \in 1 .. l : key[q + i] = t[i]
  <2>1. ASSUME NEW i \in 1 .. k PROVE key[p + i] = s[i]
    <3>1. p + i \in 1 .. p + k /\ ~ (p + i <= p) /\ p + i - p = i
      OBVIOUS
    <3>2. PICK x \in 1 .. p + k : x = p + i /\ ~ (x <= p) /\ x - p = i
      BY <3>1
    <3>3. (g \o s)[x] = s[x - p]
      BY <1>1, <1>6, <1>7, <3>2, ConcatProperties
    <3> QED BY <1>1, <1>3, <1>4, <3>2, <3>3
  <2>2. ASSUME NEW i \in 1 .. l PROVE key[q + i] = t[i]
    <3>1. q + i \in 1 .. q + l /\ ~ (q + i <= q) /\ q + i - q = i
      OBVIOUS
    <3>2. PICK x \in 1 .. q + l : x = q + i /\ ~ (x <= q) /\ x - q = i
      BY <3>1
    <3>3. (h \o t)[x] = t[x - q]
      BY <1>2, <1>6, <1>7, <3>2, ConcatProperties
    <3> QED BY <1>2, <1>3, <1>5, <3>2, <3>3
  <2> QED BY <2>1, <2>2
<1>10. (\A i \in 2 .. k : s[i] \in Letters) /\ \A i \in 2 .. l : t[i] \in Letters
  BY <1>4, <1>5, <1>6, TellsInLetters
<1>11. CASE k < l
  <2>1. q + (l - k + 1) = p + 1 /\ l - k + 1 \in 2 .. l /\ 1 \in 1 .. k
    BY <1>8, <1>11
  <2>2. s[1] = t[l - k + 1]
    <3>1. key[p + 1] = s[1] /\ key[q + (l - k + 1)] = t[l - k + 1]
      BY <1>9, <2>1
    <3> QED BY <2>1, <3>1
  <2> QED BY <1>6, <1>10, <2>1, <2>2, LetterFacts
<1>12. CASE l < k
  <2>1. p + (k - l + 1) = q + 1 /\ k - l + 1 \in 2 .. k /\ 1 \in 1 .. l
    BY <1>8, <1>12
  <2>2. t[1] = s[k - l + 1]
    <3>1. key[q + 1] = t[1] /\ key[p + (k - l + 1)] = s[k - l + 1]
      BY <1>9, <2>1
    <3> QED BY <2>1, <3>1
  <2> QED BY <1>6, <1>10, <2>1, <2>2, LetterFacts
<1>13. CASE k = l
  <2>1. p = q
    BY <1>8, <1>13
  <2>2. \A i \in 1 .. k : s[i] = t[i]
    BY <1>9, <1>13, <2>1
  <2>3. s = t
    BY <1>6, <1>13, <2>2, SeqEqual
  <2>4. Tells(s, m) /\ Tells(s, n)
    BY <1>4, <1>5, <2>3
  <2>5. m \in Nat /\ n \in Nat
    BY DEF SuffixNumbers
  <2> QED BY <2>4, <2>5, TellsOne
<1> QED BY <1>11, <1>12, <1>13

\* There are more suffixes than keys in use.
LEMMA FreshIsNew ==
  ASSUME NEW base, WellFormedKey(base),
         NEW used, IsFiniteSet(used), Cardinality(used) <= MostTransitions
  PROVE  Fresh(base, used) \notin used /\ WellFormedKey(Fresh(base, used))
<1>1. CASE base \notin used
  BY <1>1 DEF Fresh
<1>2. CASE base \in used
  <2>1. PICK c \in Nat : c = Cardinality(used)
    BY FS_CardinalityType
  <2>2. PICK D : D = 2 .. c + 2
    OBVIOUS
  <2>3. c + 2 \in 2 .. 999
    BY <2>1 DEF MostTransitions
  <2>4. \A n \in D : n \in Nat /\ n \in SuffixNumbers
    BY <2>2, <2>3 DEF SuffixNumbers
  <2>5. IsFiniteSet(D) /\ Cardinality(D) = c + 1
    BY <2>2, FS_Interval
  <2>6. PICK f : f = [n \in D |-> Suffixed(base, n)]
    OBVIOUS
  <2>7. PICK n \in D : Suffixed(base, n) \notin used
    <3> SUFFICES ASSUME \A n \in D : Suffixed(base, n) \in used PROVE FALSE
      OBVIOUS
    <3>1. f \in [D -> used]
      BY <2>6
    <3>2. PICK x \in D, y \in D : x # y /\ f[x] = f[y]
      BY <2>1, <2>5, <3>1, FS_PigeonHole
    <3>3. Suffixed(base, x) = Suffixed(base, y)
      BY <2>6, <3>2
    <3>4. x \in SuffixNumbers /\ y \in SuffixNumbers
      BY <2>4
    <3>5. x = y
      BY <3>3, <3>4, SuffixesDiffer
    <3> QED BY <3>2, <3>5
  <2>8. PICK S : S = {x \in D : Suffixed(base, x) \notin used}
    OBVIOUS
  <2>9. PICK x \in S : \A y \in S : ~ (<<y, x>> \in OpToRel(<, Nat))
    <3>1. S \subseteq Nat /\ S # {}
      BY <2>4, <2>7, <2>8
    <3>2. IsWellFoundedOn(OpToRel(<, Nat), Nat)
      BY NatLessThanWellFounded
    <3> QED BY <3>1, <3>2, WFMin
  <2>10. x \in D /\ Suffixed(base, x) \notin used
    BY <2>8, <2>9
  <2>11. \A m \in 2 .. x - 1 : Suffixed(base, m) \in used
    <3> SUFFICES ASSUME NEW m \in 2 .. x - 1, Suffixed(base, m) \notin used PROVE FALSE
      OBVIOUS
    <3>1. x \in Nat /\ x \in 2 .. c + 2
      BY <2>2, <2>3, <2>10
    <3>2. m \in Nat /\ m < x /\ m \in D
      BY <2>1, <2>2, <3>1
    <3>3. m \in S
      BY <2>8, <3>2
    <3> QED BY <2>9, <3>1, <3>2, <3>3 DEF OpToRel
  <2> DEFINE Least(m) == /\ Suffixed(base, m) \notin used
                         /\ \A k \in 2 .. m - 1 : Suffixed(base, k) \in used
             m == CHOOSE k \in D : Least(k)
  <2>12. m \in D /\ Suffixed(base, m) \notin used
    <3>1. Least(x)
      BY <2>10, <2>11
    <3>2. m \in D /\ Least(m)
      <4> HIDE DEF Least
      <4> QED BY <2>10, <3>1
    <3> QED BY <3>2
  <2>13. Fresh(base, used) = Suffixed(base, m)
    BY <1>2, <2>1, <2>2 DEF Fresh
  <2> HIDE DEF m
  <2> QED BY <2>4, <2>12, <2>13, SuffixedFacts
<1> QED BY <1>1, <1>2

-----------------------------------------------------------------------------
(* What prepareTransitions makes of the transitions somebody sends         *)

LEMMA KeysAreFew ==
  ASSUME NEW S, NEW ts \in Seq(S), NEW source
  PROVE  /\ IsFiniteSet(KeysFrom(ts, source))
         /\ Cardinality(KeysFrom(ts, source)) <= Len(ts)
<1>1. PICK n \in Nat : n = Len(ts)
  OBVIOUS
<1>2. DOMAIN ts = 1 .. n
  BY <1>1
<1>3. PICK I : I = {j \in DOMAIN ts : ts[j].source = source}
  OBVIOUS
<1>4. PICK K : K = KeysFrom(ts, source)
  OBVIOUS
<1>5. K = {ts[i].key : i \in I}
  BY <1>3, <1>4 DEF KeysFrom
<1>6. IsFiniteSet(1 .. n) /\ Cardinality(1 .. n) = n
  BY FS_Interval
<1>7. I \subseteq 1 .. n
  BY <1>2, <1>3
<1>8. IsFiniteSet(I) /\ Cardinality(I) <= n
  BY <1>6, <1>7, FS_Subset
<1>9. PICK f : f = [i \in I |-> ts[i].key]
  OBVIOUS
<1>10. f \in Surjection(I, K)
  BY <1>5, <1>9 DEF Surjection
<1>11. IsFiniteSet(K) /\ Cardinality(K) <= Cardinality(I)
  BY <1>8, <1>10, FS_Surjection
<1>12. PICK a \in Nat, b \in Nat : a = Cardinality(K) /\ b = Cardinality(I)
  BY <1>8, <1>11, FS_CardinalityType
<1> QED BY <1>1, <1>4, <1>8, <1>11, <1>12

\* A transition with another key, which is well-formed.
Rekeyed(t, u) ==
  /\ u = [source |-> t.source, target |-> t.target, key |-> u.key, label |-> t.label,
          condition |-> t.condition]
  /\ WellFormedKey(u.key)

\* No step has two actions with one key.
KeysApart(ts) ==
  \A i, j \in DOMAIN ts : ts[i].source = ts[j].source /\ ts[i].key = ts[j].key => i = j

RekeyedUpTo(ts, i, done) ==
  /\ \E S : done \in Seq(S)
  /\ Len(done) = i
  /\ \A j \in 1 .. i : Rekeyed(ts[j], done[j])
  /\ KeysApart(done)

LEMMA BaseKeyIsWellFormed ==
  ASSUME NEW t, IsTransition(t)
  PROVE  WellFormedKey(BaseKey(t))
<1>1. Len(t.label) \in Nat
  BY DEF IsTransition
<1> QED BY <1>1, LabelKeyIsWellFormed DEF BaseKey

LEMMA NewKeyRekeys ==
  ASSUME NEW t, IsTransition(t), NEW key, WellFormedKey(key)
  PROVE  /\ Rekeyed(t, [t EXCEPT !.key = key])
         /\ [t EXCEPT !.key = key].key = key
         /\ [t EXCEPT !.key = key].source = t.source
<1>1. PICK source, target, old, label, condition :
        /\ source = t.source /\ target = t.target /\ old = t.key /\ label = t.label
        /\ condition = t.condition
  OBVIOUS
<1>2. t = [source |-> source, target |-> target, key |-> old, label |-> label,
           condition |-> condition]
  BY <1>1 DEF IsTransition
<1>3. PICK u : u = [source |-> source, target |-> target, key |-> key, label |-> label,
                    condition |-> condition]
  OBVIOUS
<1>4. [t EXCEPT !.key = key] = u
  BY <1>2, <1>3
<1>5. u.key = key /\ u.source = source
  BY <1>3
<1> QED BY <1>1, <1>3, <1>4, <1>5 DEF Rekeyed

LEMMA KeyedRekeys ==
  ASSUME NEW ts, NEW i \in Nat \ {0}, i <= MostTransitions, IsTransition(ts[i]),
         NEW done, RekeyedUpTo(ts, i - 1, done)
  PROVE  RekeyedUpTo(ts, i, Keyed(done, ts[i]))
<1>1. PICK t : t = ts[i]
  OBVIOUS
<1>2. PICK S : done \in Seq(S)
  BY DEF RekeyedUpTo
<1>3. Len(done) = i - 1 /\ (\A j \in 1 .. i - 1 : Rekeyed(ts[j], done[j])) /\ KeysApart(done)
  BY DEF RekeyedUpTo
<1>4. PICK used : used = KeysFrom(done, t.source)
  OBVIOUS
<1>5. IsFiniteSet(used) /\ Cardinality(used) <= MostTransitions
  <2>1. IsFiniteSet(used) /\ Cardinality(used) <= Len(done)
    BY <1>2, <1>4, KeysAreFew
  <2>2. PICK c \in Nat : c = Cardinality(used)
    BY <2>1, FS_CardinalityType
  <2>3. c <= MostTransitions
    BY <1>3, <2>1, <2>2 DEF MostTransitions
  <2> QED BY <2>1, <2>2, <2>3
<1>6. PICK key : key = Fresh(BaseKey(t), used)
  OBVIOUS
<1>7. key \notin used /\ WellFormedKey(key)
  BY <1>1, <1>5, <1>6, BaseKeyIsWellFormed, FreshIsNew
<1>8. PICK u : u = [t EXCEPT !.key = key]
  OBVIOUS
<1>9. Rekeyed(t, u) /\ u.key = key /\ u.source = t.source
  BY <1>1, <1>7, <1>8, NewKeyRekeys
<1>10. PICK next : next = Append(done, u)
  OBVIOUS
<1>11. Keyed(done, ts[i]) = next
  BY <1>1, <1>4, <1>6, <1>8, <1>10 DEF Keyed
<1>12. /\ next \in Seq(S \union {u}) /\ Len(next) = i /\ next[i] = u
       /\ \A j \in 1 .. i - 1 : next[j] = done[j]
  <2>1. done \in Seq(S \union {u})
    BY <1>2
  <2>2. i = Len(done) + 1
    BY <1>3
  <2> QED BY <1>3, <1>10, <2>1, <2>2, AppendProperties
<1>13. \A j \in 1 .. i : Rekeyed(ts[j], next[j])
  <2>1. ASSUME NEW j \in 1 .. i PROVE Rekeyed(ts[j], next[j])
    <3>1. j \in 1 .. i - 1 \/ j = i
      OBVIOUS
    <3> QED BY <1>1, <1>3, <1>9, <1>12, <3>1
  <2> QED BY <2>1
<1>14. DOMAIN next = 1 .. i /\ DOMAIN done = 1 .. i - 1
  BY <1>2, <1>3, <1>12
<1>15. ASSUME NEW j \in 1 .. i - 1, done[j].source = u.source PROVE done[j].key # u.key
  <2>1. done[j].key \in used
    BY <1>4, <1>9, <1>14, <1>15 DEF KeysFrom
  <2> QED BY <1>7, <1>9, <2>1
<1>16. KeysApart(next)
  <2> SUFFICES ASSUME NEW j \in 1 .. i, NEW k \in 1 .. i,
                      next[j].source = next[k].source, next[j].key = next[k].key
               PROVE  j = k
    BY <1>14 DEF KeysApart
  <2>1. CASE j = i /\ k \in 1 .. i - 1
    BY <1>12, <1>15, <2>1
  <2>2. CASE k = i /\ j \in 1 .. i - 1
    BY <1>12, <1>15, <2>2
  <2>3. CASE j \in 1 .. i - 1 /\ k \in 1 .. i - 1
    <3>1. done[j].source = done[k].source /\ done[j].key = done[k].key
      BY <1>12, <2>3
    <3> QED BY <1>3, <1>14, <2>3, <3>1 DEF KeysApart
  <2>4. (j \in 1 .. i - 1 \/ j = i) /\ (k \in 1 .. i - 1 \/ k = i)
    OBVIOUS
  <2> QED BY <2>1, <2>2, <2>3, <2>4
<1>17. \E R : next \in Seq(R)
  BY <1>12
<1> QED BY <1>11, <1>12, <1>13, <1>16, <1>17 DEF RekeyedUpTo

\* prepareTransitions gives every action a well-formed key, no two alike at
\* one step, and changes nothing else, whatever labels and keys it is sent.
THEOREM PreparedKeysAreApart ==
  ASSUME NEW S, NEW ts \in Seq(S), Len(ts) <= MostTransitions,
         \A i \in 1 .. Len(ts) : IsTransition(ts[i])
  PROVE  RekeyedUpTo(ts, Len(ts), Prepared(ts))
<1>1. PICK n \in Nat : n = Len(ts)
  OBVIOUS
<1>2. PICK done : done = Preparing(ts)
  OBVIOUS
<1>3. done = [i \in 0 .. n |-> IF i = 0 THEN <<>> ELSE Keyed(done[i - 1], ts[i])]
  BY <1>1, <1>2, PreparingUnfolds
<1>4. done[0] = <<>> /\ \A i \in 1 .. n : done[i] = Keyed(done[i - 1], ts[i])
  BY <1>3
<1> DEFINE T == {i \in 0 .. n : RekeyedUpTo(ts, i, done[i])}
<1>5. 0 \in T
  <2>1. <<>> \in Seq({}) /\ Len(<<>>) = 0 /\ DOMAIN <<>> = {}
    OBVIOUS
  <2>2. KeysApart(<<>>)
    BY <2>1 DEF KeysApart
  <2>3. \E R : <<>> \in Seq(R)
    BY <2>1
  <2>4. \A j \in 1 .. 0 : FALSE
    OBVIOUS
  <2>5. RekeyedUpTo(ts, 0, <<>>)
    BY <2>1, <2>2, <2>3, <2>4 DEF RekeyedUpTo
  <2> QED BY <1>4, <2>5
<1>6. ASSUME NEW i \in 1 .. n, i - 1 \in T PROVE i \in T
  <2>1. RekeyedUpTo(ts, i - 1, done[i - 1])
    BY <1>6
  <2>2. i \in Nat \ {0} /\ i <= MostTransitions /\ IsTransition(ts[i])
    BY <1>1 DEF MostTransitions
  <2>3. RekeyedUpTo(ts, i, done[i])
    BY <1>4, <2>1, <2>2, KeyedRekeys
  <2> QED BY <2>3
<1>7. 0 .. n \subseteq T
  <2> HIDE DEF T
  <2> QED BY <1>5, <1>6, Climbing
<1> QED BY <1>1, <1>2, <1>7 DEF Prepared

LEMMA SameKeyChangesNothing ==
  ASSUME NEW t, t = [source |-> t.source, target |-> t.target, key |-> t.key, label |-> t.label,
                     condition |-> t.condition]
  PROVE  [t EXCEPT !.key = t.key] = t
<1>1. PICK source, target, key, label, condition :
        /\ source = t.source /\ target = t.target /\ key = t.key /\ label = t.label
        /\ condition = t.condition
  OBVIOUS
<1>2. t = [source |-> source, target |-> target, key |-> key, label |-> label,
           condition |-> condition]
  BY <1>1
<1>3. [t EXCEPT !.key = key] = t
  BY <1>2
<1> QED BY <1>1, <1>3

\* Keys that are well-formed and apart stay what they are.
LEMMA PreparedIsStable ==
  ASSUME NEW S, NEW ts \in Seq(S), KeysApart(ts), \A i \in 1 .. Len(ts) : Rekeyed(ts[i], ts[i])
  PROVE  Prepared(ts) = ts
<1>1. PICK n \in Nat : n = Len(ts)
  OBVIOUS
<1>2. PICK done : done = Preparing(ts)
  OBVIOUS
<1>3. done = [i \in 0 .. n |-> IF i = 0 THEN <<>> ELSE Keyed(done[i - 1], ts[i])]
  BY <1>1, <1>2, PreparingUnfolds
<1>4. done[0] = <<>> /\ \A i \in 1 .. n : done[i] = Keyed(done[i - 1], ts[i])
  BY <1>3
<1> DEFINE Begins(d, i) == d \in Seq(S) /\ Len(d) = i /\ \A j \in 1 .. i : d[j] = ts[j]
           T == {i \in 0 .. n : Begins(done[i], i)}
<1>5. 0 \in T
  <2>1. <<>> \in Seq(S) /\ Len(<<>>) = 0 /\ \A j \in 1 .. 0 : FALSE
    OBVIOUS
  <2>2. Begins(<<>>, 0)
    BY <2>1
  <2>3. Begins(done[0], 0)
    <3> HIDE DEF Begins
    <3> QED BY <1>4, <2>2
  <2> QED BY <2>3
<1>6. ASSUME NEW i \in 1 .. n, i - 1 \in T PROVE i \in T
  <2>1. PICK d : d = done[i - 1]
    OBVIOUS
  <2>2. d \in Seq(S) /\ Len(d) = i - 1 /\ \A j \in 1 .. i - 1 : d[j] = ts[j]
    BY <1>6, <2>1
  <2>3. PICK t \in S : t = ts[i]
    BY <1>1
  <2>4. Rekeyed(t, t)
    BY <1>1, <2>3
  <2>5. BaseKey(t) = t.key
    BY <2>4 DEF BaseKey, Rekeyed
  <2>6. t.key \notin KeysFrom(d, t.source)
    <3> SUFFICES ASSUME t.key \in KeysFrom(d, t.source) PROVE FALSE
      OBVIOUS
    <3>1. PICK j \in DOMAIN d : d[j].source = t.source /\ d[j].key = t.key
      BY DEF KeysFrom
    <3>2. j \in 1 .. i - 1
      BY <2>2, <3>1
    <3>3. ts[j].source = ts[i].source /\ ts[j].key = ts[i].key
      BY <2>2, <2>3, <3>1, <3>2
    <3>4. j \in DOMAIN ts /\ i \in DOMAIN ts /\ j # i
      BY <1>1, <3>2
    <3> QED BY <3>3, <3>4 DEF KeysApart
  <2>7. Fresh(BaseKey(t), KeysFrom(d, t.source)) = t.key
    BY <2>5, <2>6 DEF Fresh
  <2>8. [t EXCEPT !.key = t.key] = t
    BY <2>4, SameKeyChangesNothing DEF Rekeyed
  <2>9. done[i] = Append(d, t)
    <3>1. done[i] = Keyed(d, t)
      BY <1>4, <2>1, <2>3
    <3> QED BY <2>7, <2>8, <3>1 DEF Keyed
  <2>10. PICK e : e = Append(d, t)
    OBVIOUS
  <2>11. i = Len(d) + 1
    BY <2>2
  <2>12. e \in Seq(S) /\ Len(e) = i /\ e[i] = t /\ \A j \in 1 .. i - 1 : e[j] = d[j]
    BY <2>2, <2>10, <2>11, AppendProperties
  <2>13. ASSUME NEW j \in 1 .. i PROVE e[j] = ts[j]
    <3>1. j \in 1 .. i - 1 \/ j = i
      OBVIOUS
    <3> QED BY <2>2, <2>3, <2>12, <3>1
  <2>14. Begins(done[i], i)
    BY <2>9, <2>10, <2>12, <2>13
  <2>15. i \in 0 .. n
    OBVIOUS
  <2> HIDE DEF Begins
  <2> QED BY <2>14, <2>15
<1>7. 0 .. n \subseteq T
  <2> HIDE DEF T
  <2> QED BY <1>5, <1>6, Climbing
<1>8. Begins(done[n], n)
  <2> HIDE DEF Begins
  <2> QED BY <1>7
<1>9. done[n] = ts
  BY <1>1, <1>8, SeqEqual
<1> QED BY <1>1, <1>2, <1>9 DEF Prepared

-----------------------------------------------------------------------------
(* What validateGraph makes sure of                                        *)

\* Reached is contained in every set that contains the start and all it
\* leads to.
LEMMA ReachedIsLeast ==
  ASSUME NEW g, Len(g.transitions) \in Nat, NEW start, NEW closed, start \subseteq closed,
         \A t \in ToSet(g.transitions) : t.source \in closed => t.target \in closed
  PROVE  Reached(g, start) \subseteq closed
<1>1. PICK n \in Nat : n = Len(g.transitions)
  OBVIOUS
<1>2. PICK reached : reached = Reaching(g, start)
  OBVIOUS
<1>3. reached = [i \in 0 .. n |-> IF i = 0 THEN start ELSE Spread(g, reached[i - 1])]
  BY <1>1, <1>2, ReachingUnfolds
<1>4. reached[0] = start /\ \A i \in 1 .. n : reached[i] = Spread(g, reached[i - 1])
  BY <1>3
<1> DEFINE T == {i \in 0 .. n : reached[i] \subseteq closed}
<1>5. 0 \in T
  BY <1>4
<1>6. ASSUME NEW i \in 1 .. n, i - 1 \in T PROVE i \in T
  <2>1. PICK r : r = reached[i - 1] /\ r \subseteq closed
    BY <1>6
  <2>2. Spread(g, r) \subseteq closed
    BY <2>1 DEF Spread
  <2>3. reached[i] = Spread(g, r)
    BY <1>4, <2>1
  <2> QED BY <2>2, <2>3
<1>7. 0 .. n \subseteq T
  <2> HIDE DEF T
  <2> QED BY <1>5, <1>6, Climbing
<1> QED BY <1>1, <1>2, <1>7 DEF Reached

LEMMA ValidGraphIsSound ==
  ASSUME NEW g, NEW S, g.transitions \in Seq(S), ValidGraph(g)
  PROVE  AllStepsAreReached(g) /\ StepsLeadOn(g) /\ ActionsAreNamed(g)
<1>1. PICK ts : ts = g.transitions
  OBVIOUS
<1>2. PICK n \in Nat : n = Len(ts) /\ DOMAIN ts = 1 .. n
  BY <1>1
<1>3. AllStepsAreReached(g)
  <2> SUFFICES ASSUME NEW closed \in SUBSET NodeKeys(g),
                      \E start \in NodesOf(g, "START") : start.key \in closed,
                      \A t \in ToSet(g.transitions) : t.source \in closed => t.target \in closed
               PROVE  closed = NodeKeys(g)
    BY DEF AllStepsAreReached
  <2>1. PICK start \in NodesOf(g, "START") : start.key \in closed
    OBVIOUS
  <2>2. NodeKeys(g) \subseteq Reached(g, {start.key})
    BY <2>1 DEF ValidGraph
  <2>3. Reached(g, {start.key}) \subseteq closed
    BY <1>1, <1>2, <2>1, ReachedIsLeast
  <2> QED BY <2>2, <2>3
<1>4. StepsLeadOn(g)
  <2> SUFFICES ASSUME NEW node \in ToSet(g.nodes), node.type \notin {"END", "PARALLEL_JOIN"}
               PROVE  \E t \in ToSet(g.transitions) : t.source = node.key
    BY DEF StepsLeadOn
  <2>1. Connected(g, node)
    BY DEF ValidGraph
  <2>2. Outgoing(g, node.key) # {}
    BY <2>1 DEF Connected
  <2>3. PICK i \in DOMAIN g.transitions : g.transitions[i].source = node.key
    BY <2>2 DEF Outgoing
  <2>4. g.transitions[i] \in ToSet(g.transitions)
    BY DEF ToSet
  <2> QED BY <2>3, <2>4
<1>5. ActionsAreNamed(g)
  <2>1. ASSUME NEW i \in 1 .. n, NEW j \in 1 .. n, j < i, ts[j].source = ts[i].source,
               ts[j].key = ts[i].key
        PROVE  FALSE
    <3>1. TransitionsValid(g)
      BY DEF ValidGraph
    <3>2. j \in 1 .. i - 1
      BY <2>1
    <3>3. <<ts[j].source, ts[j].key>> # <<ts[i].source, ts[i].key>>
      BY <1>1, <1>2, <3>1, <3>2 DEF TransitionsValid
    <3> QED BY <2>1, <3>3
  <2> SUFFICES ASSUME NEW i \in 1 .. n, NEW j \in 1 .. n,
                      ts[i].source = ts[j].source, ts[i].key = ts[j].key
               PROVE  i = j
    BY <1>1, <1>2 DEF ActionsAreNamed
  <2>2. ~ (j < i) /\ ~ (i < j)
    BY <2>1
  <2> QED BY <2>2
<1> QED BY <1>3, <1>4, <1>5

\* A graph that was saved: it is valid, and its keys stay what they are.
GraphKept(g) ==
  /\ \E S : g.transitions \in Seq(S)
  /\ ValidGraph(g)
  /\ WithKeys(g) = g

GraphsKept == GraphKept(draft) /\ (graph # Unpublished => GraphKept(graph))

LEMMA SavedGraphIsKept ==
  ASSUME NEW g \in Sent, ValidGraph(WithKeys(g))
  PROVE  GraphKept(WithKeys(WithKeys(g)))
<1>1. PICK ns, ts : g = [nodes |-> ns, transitions |-> ts]
  BY SentAssumption
<1>2. /\ ts \in Seq(ToSet(ts)) /\ Len(ts) <= MostTransitions
      /\ \A t \in ToSet(ts) : IsTransition(t)
  BY <1>1, SentAssumption
<1>3. \A i \in 1 .. Len(ts) : IsTransition(ts[i])
  BY <1>2 DEF ToSet
<1>4. PICK ps : ps = Prepared(ts)
  OBVIOUS
<1>5. RekeyedUpTo(ts, Len(ts), ps)
  BY <1>2, <1>3, <1>4, PreparedKeysAreApart
<1>6. PICK S : ps \in Seq(S)
  BY <1>5 DEF RekeyedUpTo
<1>7. KeysApart(ps) /\ Len(ps) = Len(ts) /\ \A i \in 1 .. Len(ts) : Rekeyed(ts[i], ps[i])
  BY <1>5 DEF RekeyedUpTo
<1>8. ASSUME NEW t, NEW u, Rekeyed(t, u) PROVE Rekeyed(u, u)
  <2>1. PICK source, target, key, label, condition :
          u = [source |-> source, target |-> target, key |-> key, label |-> label,
               condition |-> condition]
    BY <1>8 DEF Rekeyed
  <2>2. WellFormedKey(u.key)
    BY <1>8 DEF Rekeyed
  <2>3. u = [source |-> u.source, target |-> u.target, key |-> u.key, label |-> u.label,
             condition |-> u.condition]
    BY <2>1
  <2> QED BY <2>2, <2>3 DEF Rekeyed
<1>9. \A i \in 1 .. Len(ps) : Rekeyed(ps[i], ps[i])
  BY <1>7, <1>8
<1>10. Prepared(ps) = ps
  BY <1>6, <1>7, <1>9, PreparedIsStable
<1>11. PICK h : h = [nodes |-> ns, transitions |-> ps]
  OBVIOUS
<1>12. WithKeys(g) = h /\ WithKeys(h) = h
  BY <1>1, <1>4, <1>10, <1>11 DEF WithKeys
<1>13. h.transitions \in Seq(S)
  BY <1>6, <1>11
<1> QED BY <1>12, <1>13 DEF GraphKept

-----------------------------------------------------------------------------
(* The graph a definition is created with                                  *)

LEMMA DefaultNodes ==
  \E a, b, c, d :
    /\ DefaultGraph.nodes = <<a, b, c, d>>
    /\ ToSet(DefaultGraph.nodes) = {a, b, c, d}
    /\ a.key = "start" /\ a.type = "START" /\ a.rules = {} /\ a.config = NoConfig
    /\ b.key = "execute" /\ b.type = "HUMAN_TASK" /\ b.config = NoConfig
    /\ b.rules = {Rule("REQUEST_FIELD", <<"assigneeId">>)}
    /\ c.key = "technical_review" /\ c.type = "HUMAN_TASK" /\ c.config = NoConfig
    /\ c.rules = {Rule("REQUEST_FIELD", <<"technicalReviewerId">>)}
    /\ d.key = "completed" /\ d.type = "END" /\ d.rules = {} /\ d.config = NoConfig
<1>1. PICK a : a = Plain("start", "START", {})
  OBVIOUS
<1>2. PICK b : b = Plain("execute", "HUMAN_TASK", {Rule("REQUEST_FIELD", <<"assigneeId">>)})
  OBVIOUS
<1>3. PICK c : c = Plain("technical_review", "HUMAN_TASK",
                         {Rule("REQUEST_FIELD", <<"technicalReviewerId">>)})
  OBVIOUS
<1>4. PICK d : d = Plain("completed", "END", {})
  OBVIOUS
<1>5. DefaultGraph.nodes = <<a, b, c, d>>
  BY <1>1, <1>2, <1>3, <1>4 DEF DefaultGraph
<1>6. PICK ns : ns = <<a, b, c, d>>
  OBVIOUS
<1>7. ToSet(ns) = {a, b, c, d}
  <2>1. DOMAIN ns = 1 .. 4 /\ ns[1] = a /\ ns[2] = b /\ ns[3] = c /\ ns[4] = d
    BY <1>6
  <2>2. \A i \in 1 .. 4 : i = 1 \/ i = 2 \/ i = 3 \/ i = 4
    OBVIOUS
  <2>3. 1 \in 1 .. 4 /\ 2 \in 1 .. 4 /\ 3 \in 1 .. 4 /\ 4 \in 1 .. 4
    OBVIOUS
  <2> QED BY <2>1, <2>2, <2>3 DEF ToSet
<1>8. a.key = "start" /\ a.type = "START" /\ a.rules = {} /\ a.config = NoConfig
  BY <1>1 DEF Plain
<1>9. /\ b.key = "execute" /\ b.type = "HUMAN_TASK" /\ b.config = NoConfig
      /\ b.rules = {Rule("REQUEST_FIELD", <<"assigneeId">>)}
  BY <1>2 DEF Plain
<1>10. /\ c.key = "technical_review" /\ c.type = "HUMAN_TASK" /\ c.config = NoConfig
       /\ c.rules = {Rule("REQUEST_FIELD", <<"technicalReviewerId">>)}
  BY <1>3 DEF Plain
<1>11. d.key = "completed" /\ d.type = "END" /\ d.rules = {} /\ d.config = NoConfig
  BY <1>4 DEF Plain
<1> QED BY <1>5, <1>6, <1>7, <1>8, <1>9, <1>10, <1>11

LEMMA DefaultTransitions ==
  \E e, f, g, h :
    /\ DefaultGraph.transitions = <<e, f, g, h>>
    /\ e = Step("start", "execute", <<"g">>)
    /\ f = Step("execute", "technical_review", <<"s">>)
    /\ g = Step("technical_review", "execute", <<"r">>)
    /\ h = Step("technical_review", "completed", <<"a">>)
<1>1. PICK e : e = Step("start", "execute", <<"g">>)
  OBVIOUS
<1>2. PICK f : f = Step("execute", "technical_review", <<"s">>)
  OBVIOUS
<1>3. PICK g : g = Step("technical_review", "execute", <<"r">>)
  OBVIOUS
<1>4. PICK h : h = Step("technical_review", "completed", <<"a">>)
  OBVIOUS
<1>5. DefaultGraph.transitions = <<e, f, g, h>>
  BY <1>1, <1>2, <1>3, <1>4 DEF DefaultGraph
<1> QED BY <1>1, <1>2, <1>3, <1>4, <1>5

LEMMA DefaultGraphIsValid == ValidGraph(DefaultGraph)
<1>1. PICK ns, a, b, c, d :
        /\ DefaultGraph.nodes = ns /\ ns = <<a, b, c, d>> /\ ToSet(ns) = {a, b, c, d}
        /\ a.key = "start" /\ a.type = "START" /\ a.rules = {} /\ a.config = NoConfig
        /\ b.key = "execute" /\ b.type = "HUMAN_TASK" /\ b.config = NoConfig
        /\ b.rules = {Rule("REQUEST_FIELD", <<"assigneeId">>)}
        /\ c.key = "technical_review" /\ c.type = "HUMAN_TASK" /\ c.config = NoConfig
        /\ c.rules = {Rule("REQUEST_FIELD", <<"technicalReviewerId">>)}
        /\ d.key = "completed" /\ d.type = "END" /\ d.rules = {} /\ d.config = NoConfig
  BY DefaultNodes
<1>2. PICK ts, e, f, g, h :
        /\ DefaultGraph.transitions = ts /\ ts = <<e, f, g, h>>
        /\ e = Step("start", "execute", <<"g">>)
        /\ f = Step("execute", "technical_review", <<"s">>)
        /\ g = Step("technical_review", "execute", <<"r">>)
        /\ h = Step("technical_review", "completed", <<"a">>)
  BY DefaultTransitions
<1>3. /\ DOMAIN ns = 1 .. 4 /\ Len(ns) = 4
      /\ ns[1] = a /\ ns[2] = b /\ ns[3] = c /\ ns[4] = d
  BY <1>1
<1>4. /\ DOMAIN ts = 1 .. 4 /\ Len(ts) = 4
      /\ ts[1] = e /\ ts[2] = f /\ ts[3] = g /\ ts[4] = h
  BY <1>2
<1>5. PICK D : D = DefaultGraph /\ D.nodes = ns /\ D.transitions = ts
  BY <1>1, <1>2
<1>6. /\ e.source = "start" /\ e.target = "execute" /\ e.condition = Null
      /\ f.source = "execute" /\ f.target = "technical_review" /\ f.condition = Null
      /\ g.source = "technical_review" /\ g.target = "execute" /\ g.condition = Null
      /\ h.source = "technical_review" /\ h.target = "completed" /\ h.condition = Null
      /\ g.key = <<"r">> /\ h.key = <<"a">>
  BY <1>2 DEF Step
<1>7. \A i \in 1 .. 4 : i = 1 \/ i = 2 \/ i = 3 \/ i = 4
  OBVIOUS
<1>8. 1 \in 1 .. 4 /\ 2 \in 1 .. 4 /\ 3 \in 1 .. 4 /\ 4 \in 1 .. 4
  OBVIOUS
<1>9. ToSet(ts) = {e, f, g, h}
  BY <1>4, <1>7, <1>8 DEF ToSet
<1>10. NodeKeys(D) = {"start", "execute", "technical_review", "completed"}
  BY <1>1, <1>5 DEF NodeKeys
<1>11. Cardinality(NodeKeys(D)) = Len(D.nodes)
  <2>1. Cardinality({"start", "execute", "technical_review", "completed"}) = 4
    <3>1. IsFiniteSet({"start"}) /\ Cardinality({"start"}) = 1
      BY FS_Singleton
    <3>2. IsFiniteSet({"start", "execute"}) /\ Cardinality({"start", "execute"}) = 2
      <4>1. {"start", "execute"} = {"start"} \union {"execute"} /\ "execute" \notin {"start"}
        OBVIOUS
      <4> QED BY <3>1, <4>1, FS_AddElement
    <3>3. /\ IsFiniteSet({"start", "execute", "technical_review"})
          /\ Cardinality({"start", "execute", "technical_review"}) = 3
      <4>1. /\ {"start", "execute", "technical_review"}
                 = {"start", "execute"} \union {"technical_review"}
            /\ "technical_review" \notin {"start", "execute"}
        OBVIOUS
      <4> QED BY <3>2, <4>1, FS_AddElement
    <3>4. /\ {"start", "execute", "technical_review", "completed"}
               = {"start", "execute", "technical_review"} \union {"completed"}
          /\ "completed" \notin {"start", "execute", "technical_review"}
      OBVIOUS
    <3> QED BY <3>3, <3>4, FS_AddElement
  <2> QED BY <1>3, <1>5, <1>10, <2>1
<1>12. \A node \in ToSet(D.nodes) : NodeValid(node)
  <2>1. PermissionsValid(NoConfig) /\ FieldsValid(NoConfig.fields)
    <3>1. NoConfig.permissions = Null /\ NoConfig.permission = Null /\ NoConfig.fields = <<>>
      BY DEF NoConfig
    <3>2. DOMAIN <<>> = {}
      OBVIOUS
    <3> QED BY <3>1, <3>2 DEF PermissionsValid, FieldsValid
  <2>2. ASSUME NEW path, path # Null PROVE RuleValid(Rule("REQUEST_FIELD", path))
    <3>1. PICK rule : rule = Rule("REQUEST_FIELD", path)
      OBVIOUS
    <3>2. rule.type = "REQUEST_FIELD" /\ rule.field = path
      BY <3>1 DEF Rule
    <3>3. RuleValid(rule)
      BY <2>2, <3>2 DEF RuleValid
    <3> QED BY <3>1, <3>3
  <2>3. NodeValid(a) /\ NodeValid(d)
    BY <1>1, <2>1 DEF NodeValid
  <2>4. NodeValid(b)
    <3>1. <<"assigneeId">> # Null
      BY NullAssumption
    <3>2. RuleValid(Rule("REQUEST_FIELD", <<"assigneeId">>))
      BY <2>2, <3>1
    <3> QED BY <1>1, <2>1, <3>2 DEF NodeValid
  <2>5. NodeValid(c)
    <3>1. <<"technicalReviewerId">> # Null
      BY NullAssumption
    <3>2. RuleValid(Rule("REQUEST_FIELD", <<"technicalReviewerId">>))
      BY <2>2, <3>1
    <3> QED BY <1>1, <2>1, <3>2 DEF NodeValid
  <2> QED BY <1>1, <1>5, <2>3, <2>4, <2>5
<1>13. Cardinality({i \in DOMAIN D.nodes : D.nodes[i].type = "START"}) = 1
  <2>1. {i \in DOMAIN D.nodes : D.nodes[i].type = "START"} = {1}
    BY <1>1, <1>3, <1>5, <1>7, <1>8
  <2> QED BY <2>1, FS_Singleton
<1>14. NodesOf(D, "END") # {}
  BY <1>1, <1>5 DEF NodesOf
<1>15. TransitionsValid(D)
  <2>1. ASSUME NEW i \in 1 .. 4
        PROVE  {ts[i].source, ts[i].target} \subseteq NodeKeys(D) /\ ts[i].condition = Null
    BY <1>4, <1>6, <1>7, <1>10
  <2>2. ASSUME NEW i \in 1 .. 4, NEW j \in 1 .. i - 1
        PROVE  <<ts[j].source, ts[j].key>> # <<ts[i].source, ts[i].key>>
    <3>1. <<"r">> # <<"a">>
      OBVIOUS
    <3>2. ts[j].source # ts[i].source \/ ts[j].key # ts[i].key
      <4>1. \/ i = 2 /\ j = 1
            \/ i = 3 /\ j \in {1, 2}
            \/ i = 4 /\ j \in {1, 2, 3}
        OBVIOUS
      <4> QED BY <1>4, <1>6, <3>1, <4>1
    <3> QED BY <3>2
  <2> QED BY <1>4, <1>5, <2>1, <2>2 DEF TransitionsValid
<1>16. \A start \in NodesOf(D, "START") : NodeKeys(D) \subseteq Reached(D, {start.key})
  <2>1. NodesOf(D, "START") = {a}
    BY <1>1, <1>5 DEF NodesOf
  <2>2. PICK start, reached : start = {"start"} /\ reached = Reaching(D, start)
    OBVIOUS
  <2>3. reached = [i \in 0 .. 4 |-> IF i = 0 THEN start ELSE Spread(D, reached[i - 1])]
    <3>1. Len(D.transitions) \in Nat /\ 0 .. Len(D.transitions) = 0 .. 4
      <4>1. D.transitions = ts /\ Len(ts) = 4 /\ 4 \in Nat
        BY <1>4, <1>5
      <4> QED BY <4>1, Zenon
    <3>2. Reaching(D, start) = [i \in 0 .. Len(D.transitions) |->
            IF i = 0 THEN start ELSE Spread(D, Reaching(D, start)[i - 1])]
      BY <3>1, ReachingUnfolds
    <3> QED BY <2>2, <3>1, <3>2
  <2>4. /\ reached[0] = start
        /\ reached[1] = Spread(D, reached[0])
        /\ reached[2] = Spread(D, reached[1])
        /\ reached[3] = Spread(D, reached[2])
        /\ reached[4] = Spread(D, reached[3])
    BY <2>3
  <2>5. ASSUME NEW r, NEW t \in {e, f, g, h}, t.source \in r
        PROVE  r \subseteq Spread(D, r) /\ t.target \in Spread(D, r)
    BY <1>5, <1>9, <2>5 DEF Spread
  <2>6. {"start", "execute"} \subseteq reached[1]
    BY <1>6, <2>2, <2>4, <2>5
  <2>7. {"start", "execute", "technical_review"} \subseteq reached[2]
    BY <1>6, <2>4, <2>5, <2>6
  <2>8. {"start", "execute", "technical_review", "completed"} \subseteq reached[3]
    BY <1>6, <2>4, <2>5, <2>7
  <2>9. reached[3] \subseteq reached[4]
    BY <1>6, <2>4, <2>5, <2>8
  <2> QED BY <1>1, <1>4, <1>5, <1>10, <2>1, <2>2, <2>8, <2>9 DEF Reached
<1>17. \A node \in ToSet(D.nodes) : Connected(D, node)
  <2>1. ASSUME NEW key PROVE \A i \in 1 .. 4 :
          /\ i \in Outgoing(D, key) <=> ts[i].source = key
          /\ i \in Incoming(D, key) <=> ts[i].target = key
    BY <1>4, <1>5 DEF Outgoing, Incoming
  <2>2. \A key : Outgoing(D, key) \subseteq 1 .. 4 /\ Incoming(D, key) \subseteq 1 .. 4
    BY <1>4, <1>5 DEF Outgoing, Incoming
  <2>3. Connected(D, a)
    <3>1. Incoming(D, "start") = {}
      BY <1>4, <1>6, <1>7, <2>1, <2>2
    <3>2. 1 \in Outgoing(D, "start")
      BY <1>4, <1>6, <1>8, <2>1
    <3> QED BY <1>1, <3>1, <3>2 DEF Connected
  <2>4. Connected(D, b)
    <3>1. 2 \in Outgoing(D, "execute")
      BY <1>4, <1>6, <1>8, <2>1
    <3> QED BY <1>1, <3>1 DEF Connected
  <2>5. Connected(D, c)
    <3>1. 3 \in Outgoing(D, "technical_review")
      BY <1>4, <1>6, <1>8, <2>1
    <3> QED BY <1>1, <3>1 DEF Connected
  <2>6. Connected(D, d)
    <3>1. Outgoing(D, "completed") = {}
      BY <1>4, <1>6, <1>7, <2>1, <2>2
    <3> QED BY <1>1, <3>1 DEF Connected
  <2> QED BY <1>1, <1>5, <2>3, <2>4, <2>5, <2>6
<1>18. ValidGraph(D)
  BY <1>11, <1>12, <1>13, <1>14, <1>15, <1>16, <1>17 DEF ValidGraph
<1> QED BY <1>5, <1>18

LEMMA StepIsRekeyed ==
  ASSUME NEW source, NEW target, NEW c \in Letters
  PROVE  Rekeyed(Step(source, target, <<c>>), Step(source, target, <<c>>))
<1>1. PICK key : key = <<c>>
  OBVIOUS
<1>2. c \in KeyCharacters
  BY LetterFacts
<1>3. key \in Seq(KeyCharacters) /\ key # <<>> /\ key[1] = c
  BY <1>1, <1>2
<1>4. WellFormedKey(key)
  BY <1>3 DEF WellFormedKey
<1>5. PICK t : t = Step(source, target, key)
  OBVIOUS
<1>6. /\ t = [source |-> t.source, target |-> t.target, key |-> t.key, label |-> t.label,
              condition |-> t.condition]
      /\ t.key = key
  BY <1>5 DEF Step
<1>7. Rekeyed(t, t)
  BY <1>4, <1>6 DEF Rekeyed
<1> QED BY <1>1, <1>5, <1>7

LEMMA FirstDraftIsKept == FirstDraft = DefaultGraph /\ GraphKept(FirstDraft)
<1>1. PICK ns, ts, e, f, g, h :
        /\ DefaultGraph = [nodes |-> ns, transitions |-> ts] /\ ts = <<e, f, g, h>>
        /\ e = Step("start", "execute", <<"g">>)
        /\ f = Step("execute", "technical_review", <<"s">>)
        /\ g = Step("technical_review", "execute", <<"r">>)
        /\ h = Step("technical_review", "completed", <<"a">>)
  <2>1. PICK ns, ts : DefaultGraph = [nodes |-> ns, transitions |-> ts]
    BY DEF DefaultGraph
  <2>2. ts = DefaultGraph.transitions
    BY <2>1
  <2> QED BY <2>1, <2>2, DefaultTransitions
<1>2. DOMAIN ts = 1 .. 4 /\ Len(ts) = 4 /\ ts[1] = e /\ ts[2] = f /\ ts[3] = g /\ ts[4] = h
  BY <1>1
<1>3. ts \in Seq({e, f, g, h})
  BY <1>1
<1>4. \A i \in 1 .. 4 : i = 1 \/ i = 2 \/ i = 3 \/ i = 4
  OBVIOUS
<1>5. Rekeyed(e, e) /\ Rekeyed(f, f) /\ Rekeyed(g, g) /\ Rekeyed(h, h)
  <2>1. "g" \in Letters /\ "s" \in Letters /\ "r" \in Letters /\ "a" \in Letters
    BY LetterFacts
  <2> QED BY <1>1, <2>1, StepIsRekeyed
<1>6. \A i \in 1 .. Len(ts) : Rekeyed(ts[i], ts[i])
  BY <1>2, <1>4, <1>5
<1>7. KeysApart(ts)
  <2>1. /\ e.source = "start" /\ f.source = "execute" /\ g.source = "technical_review"
        /\ h.source = "technical_review" /\ g.key = <<"r">> /\ h.key = <<"a">>
    BY <1>1 DEF Step
  <2>2. <<"r">> # <<"a">>
    OBVIOUS
  <2>3. ASSUME NEW i \in 1 .. 4, NEW j \in 1 .. 4, ts[i].source = ts[j].source,
               ts[i].key = ts[j].key
        PROVE  i = j
    BY <1>2, <1>4, <2>1, <2>2, <2>3
  <2> QED BY <1>2, <2>3 DEF KeysApart
<1>8. Prepared(ts) = ts
  BY <1>3, <1>6, <1>7, PreparedIsStable
<1>9. PICK D : D = DefaultGraph
  OBVIOUS
<1>10. WithKeys(D) = D /\ D.transitions = ts
  BY <1>1, <1>8, <1>9 DEF WithKeys
<1>11. FirstDraft = D
  BY <1>9, <1>10 DEF FirstDraft
<1>12. ValidGraph(D)
  BY <1>9, DefaultGraphIsValid
<1> QED BY <1>3, <1>9, <1>10, <1>11, <1>12 DEF GraphKept

-----------------------------------------------------------------------------
(* Drafts and published graphs                                             *)

LEMMA GraphsKeptHolds == TasksSpec => []GraphsKept
<1>1. TasksInit => GraphsKept
  BY FirstDraftIsKept DEF TasksInit, GraphsKept
<1>2. GraphsKept /\ [TasksNext]_tasksVars => GraphsKept'
  <2> SUFFICES ASSUME GraphsKept, [TasksNext]_tasksVars PROVE GraphsKept'
    OBVIOUS
  <2>1. CASE SaveGraph
    <3>1. PICK g \in Sent : ValidGraph(WithKeys(g)) /\ draft' = WithKeys(WithKeys(g))
      BY <2>1 DEF SaveGraph
    <3>2. GraphKept(draft')
      BY <3>1, SavedGraphIsKept
    <3>3. graph' = graph
      BY <2>1 DEF SaveGraph
    <3> QED BY <3>2, <3>3 DEF GraphsKept
  <2>2. CASE PublishDraft
    BY <2>2 DEF PublishDraft, GraphsKept
  <2>3. CASE UNCHANGED <<draft, graph>>
    BY <2>3 DEF GraphsKept
  <2>4. TasksNext => SaveGraph \/ PublishDraft \/ UNCHANGED <<draft, graph>>
    BY DEF TasksNext, SaveRoleMappings, CreateHumanTask, ChangeStatus, RemoveUser, PerformAction
  <2>5. UNCHANGED tasksVars => UNCHANGED <<draft, graph>>
    BY DEF tasksVars
  <2> QED BY <2>1, <2>2, <2>3, <2>4, <2>5
<1> QED BY <1>1, <1>2, PTL DEF TasksSpec

\* Whatever graphs people send, with whatever labels and keys: a draft that
\* is kept can be run to an end, the key of an action is its own, and neither
\* saving it again nor cloning it changes a key.
THEOREM EverySavedGraphIsSound == TasksSpec => []SavedGraphsAreSound
<1>1. GraphsKept => SavedGraphsAreSound
  <2> SUFFICES ASSUME GraphsKept PROVE SavedGraphsAreSound
    OBVIOUS
  <2>1. PICK S : draft.transitions \in Seq(S)
    BY DEF GraphsKept, GraphKept
  <2>2. ValidGraph(draft) /\ WithKeys(draft) = draft
    BY DEF GraphsKept, GraphKept
  <2> QED BY <2>1, <2>2, ValidGraphIsSound DEF SavedGraphsAreSound
<1> QED BY <1>1, GraphsKeptHolds, PTL

-----------------------------------------------------------------------------
(* Tasks and people                                                        *)

LEMMA WithoutFacts ==
  ASSUME NEW task \in Task, NEW u
  PROVE  /\ Without(task, u) \in Task
         /\ Without(task, u).status = task.status
         /\ Without(task, u).executors = task.executors \ {u}
         /\ Without(task, u).watchers = task.watchers \ {u}
<1>1. PICK status \in {"pending", "blocked"}, executors \in SUBSET People,
           watchers \in SUBSET People :
        task = [status |-> status, executors |-> executors, watchers |-> watchers]
  BY DEF Task
<1>2. PICK less : less = [status |-> status, executors |-> executors \ {u},
                          watchers |-> watchers \ {u}]
  OBVIOUS
<1>3. Without(task, u) = less
  BY <1>1, <1>2 DEF Without
<1>4. less \in Task
  BY <1>2 DEF Task
<1> QED BY <1>1, <1>2, <1>3, <1>4

\* Who there is, who acted, and what a task is.
PeopleTyped ==
  /\ members \in [People -> MemberRecord]
  /\ mappings \in Mappings
  /\ tasks \in [DOMAIN tasks -> Task \union {NoTask}]
  /\ actors \in Seq(People \union {Null})

LEMMA NewTask ==
  ASSUME NEW n, CreateHumanTask(n)
  PROVE  \E task \in Task :
           /\ tasks' = [tasks EXCEPT ![n] = task]
           /\ task.executors \intersect task.watchers = {}
           /\ \A u \in task.executors : members[u].status # "none"
           /\ IF task.executors = {} THEN task.status = "blocked" /\ task.watchers = {}
                                     ELSE task.status = "pending"
<1>1. PICK executors \in ResolveAssignees(NodeAt(graph, n), "EXECUTOR"),
           observers \in ResolveAssignees(NodeAt(graph, n), "OBSERVER") :
        /\ executors \union observers \subseteq {u \in People : members[u].status # "none"}
        /\ tasks' = [tasks EXCEPT ![n] =
             [status    |-> IF executors = {} THEN "blocked" ELSE "pending",
              executors |-> executors,
              watchers  |-> IF executors = {} THEN {} ELSE Watching(observers, executors)]]
  BY DEF CreateHumanTask
<1>2. PICK task : task = [status    |-> IF executors = {} THEN "blocked" ELSE "pending",
                          executors |-> executors,
                          watchers  |-> IF executors = {} THEN {}
                                        ELSE Watching(observers, executors)]
  OBVIOUS
<1>3. tasks' = [tasks EXCEPT ![n] = task]
  BY <1>1, <1>2
<1>4. /\ task.status = (IF executors = {} THEN "blocked" ELSE "pending")
      /\ task.executors = executors
      /\ task.watchers = IF executors = {} THEN {} ELSE Watching(observers, executors)
  BY <1>2
<1>5. /\ executors \subseteq People /\ observers \subseteq People
      /\ \A u \in executors : members[u].status # "none"
  BY <1>1
<1>6. Watching(observers, executors) \subseteq People \ executors
  BY <1>5 DEF Watching
<1>7. task \in Task
  BY <1>2, <1>5, <1>6 DEF Task
<1>8. task.executors \intersect task.watchers = {}
  BY <1>4, <1>6
<1> QED BY <1>3, <1>4, <1>5, <1>7, <1>8

LEMMA PeopleTypedHolds == TasksSpec => []PeopleTyped
<1>1. TasksInit => PeopleTyped
  <2> SUFFICES ASSUME TasksInit PROVE PeopleTyped
    OBVIOUS
  <2>1. members \in [People -> MemberRecord] /\ mappings \in Mappings
    BY MembersAssumption DEF TasksInit
  <2>2. <<>> \in [DOMAIN <<>> -> Task \union {NoTask}] /\ <<>> \in Seq(People \union {Null})
    OBVIOUS
  <2> QED BY <2>1, <2>2 DEF TasksInit, PeopleTyped
<1>2. PeopleTyped /\ [TasksNext]_tasksVars => PeopleTyped'
  <2> SUFFICES ASSUME PeopleTyped, [TasksNext]_tasksVars PROVE PeopleTyped'
    OBVIOUS
  <2>1. CASE SaveGraph
    BY <2>1 DEF SaveGraph, PeopleTyped
  <2>2. CASE PublishDraft
    <3>1. tasks' \in [DOMAIN tasks' -> Task \union {NoTask}]
      BY <2>2 DEF PublishDraft
    <3> QED BY <2>2, <3>1 DEF PublishDraft, PeopleTyped
  <2>3. CASE SaveRoleMappings
    BY <2>3 DEF SaveRoleMappings, PeopleTyped
  <2>4. ASSUME NEW n \in DOMAIN tasks, CreateHumanTask(n) PROVE PeopleTyped'
    <3>1. PICK task \in Task : tasks' = [tasks EXCEPT ![n] = task]
      BY <2>4, NewTask
    <3>2. tasks' \in [DOMAIN tasks' -> Task \union {NoTask}]
      <4> HIDE DEF Task
      <4> QED BY <3>1 DEF PeopleTyped
    <3>3. members' = members /\ mappings' = mappings /\ actors' = actors
      BY <2>4 DEF CreateHumanTask
    <3> QED BY <3>2, <3>3 DEF PeopleTyped
  <2>5. ASSUME NEW u \in People, ChangeStatus(u) PROVE PeopleTyped'
    <3>1. members' \in [People -> MemberRecord]
      BY <2>5 DEF ChangeStatus, PeopleTyped, MemberRecord
    <3>2. UNCHANGED <<mappings, tasks, actors>>
      BY <2>5 DEF ChangeStatus
    <3> QED BY <3>1, <3>2 DEF PeopleTyped
  <2>6. ASSUME NEW u \in People, RemoveUser(u) PROVE PeopleTyped'
    <3>1. members' \in [People -> MemberRecord]
      BY <2>6 DEF RemoveUser, PeopleTyped, MemberRecord
    <3>2. \A n \in DOMAIN tasks : Open(n) => Without(tasks[n], u) \in Task
      BY WithoutFacts DEF PeopleTyped, Open
    <3>3. tasks' = [n \in DOMAIN tasks |-> IF Open(n) THEN Without(tasks[n], u) ELSE NoTask]
      BY <2>6 DEF RemoveUser
    <3>4. tasks' \in [DOMAIN tasks' -> Task \union {NoTask}]
      BY <3>2, <3>3
    <3>5. actors' = [i \in DOMAIN actors |-> IF actors[i] = u THEN Null ELSE actors[i]]
      BY <2>6 DEF RemoveUser
    <3>6. actors' \in Seq(People \union {Null})
      <4>1. PICK k \in Nat : k = Len(actors) /\ DOMAIN actors = 1 .. k
        BY DEF PeopleTyped
      <4>2. \A i \in 1 .. k : actors[i] \in People \union {Null}
        BY <4>1 DEF PeopleTyped
      <4>3. actors' \in [1 .. k -> People \union {Null}]
        BY <3>5, <4>1, <4>2
      <4> QED BY <4>3, IsASeq
    <3> QED BY <2>6, <3>1, <3>4, <3>6 DEF RemoveUser, PeopleTyped
  <2>7. ASSUME NEW u \in People, NEW n \in DOMAIN tasks, PerformAction(u, n)
        PROVE  PeopleTyped'
    <3>1. /\ tasks' = [tasks EXCEPT ![n] = NoTask]
          /\ actors' = Append(actors, u)
          /\ UNCHANGED <<members, mappings>>
      BY <2>7 DEF PerformAction
    <3>2. tasks' \in [DOMAIN tasks' -> Task \union {NoTask}]
      BY <3>1 DEF PeopleTyped
    <3>3. actors' \in Seq(People \union {Null})
      BY <3>1, AppendProperties DEF PeopleTyped
    <3> QED BY <3>1, <3>2, <3>3 DEF PeopleTyped
  <2>8. CASE UNCHANGED tasksVars
    BY <2>8 DEF tasksVars, PeopleTyped
  <2> QED BY <2>1, <2>2, <2>3, <2>4, <2>5, <2>6, <2>7, <2>8 DEF TasksNext
<1> QED BY <1>1, <1>2, PTL DEF TasksSpec

\* Types, and the graphs of draft and instance stay valid.
THEOREM TasksAreTyped == TasksSpec => []TasksTypeOK
<1>1. GraphsKept /\ PeopleTyped => TasksTypeOK
  BY DEF GraphsKept, GraphKept, PeopleTyped, TasksTypeOK
<1> QED BY <1>1, GraphsKeptHolds, PeopleTypedHolds, PTL

\* What TasksAreStaffed says of one task, given who is who.
Staffed(task, ms) ==
  task # NoTask =>
    /\ task.executors \intersect task.watchers = {}
    /\ task.status = "blocked" => task.executors \union task.watchers = {}
    /\ \A u \in task.executors : ms[u].status # "none"
    /\ task.status = "pending" /\ task.executors = {} => \E u \in People : ms[u].status = "none"

LEMMA StaffedStays ==
  ASSUME PeopleTyped, \A n \in DOMAIN tasks : Staffed(tasks[n], members), [TasksNext]_tasksVars
  PROVE  \A n \in DOMAIN tasks' : Staffed(tasks'[n], members')
<1> USE DEF PeopleTyped
<1>1. CASE UNCHANGED <<tasks, members>>
  BY <1>1
<1>2. CASE PublishDraft
  <2> SUFFICES ASSUME NEW n \in DOMAIN tasks' PROVE Staffed(tasks'[n], members')
    OBVIOUS
  <2>1. tasks'[n] = NoTask
    BY <1>2 DEF PublishDraft
  <2> QED BY <2>1 DEF Staffed
<1>3. ASSUME NEW n \in DOMAIN tasks, CreateHumanTask(n)
      PROVE  \A k \in DOMAIN tasks' : Staffed(tasks'[k], members')
  <2>1. PICK task \in Task :
          /\ tasks' = [tasks EXCEPT ![n] = task]
          /\ task.executors \intersect task.watchers = {}
          /\ \A u \in task.executors : members[u].status # "none"
          /\ IF task.executors = {} THEN task.status = "blocked" /\ task.watchers = {}
                                    ELSE task.status = "pending"
    BY <1>3, NewTask
  <2>2. members' = members
    BY <1>3 DEF CreateHumanTask
  <2>3. Staffed(task, members)
    BY <2>1 DEF Staffed
  <2>4. /\ DOMAIN tasks' = DOMAIN tasks
        /\ \A k \in DOMAIN tasks : tasks'[k] = IF k = n THEN task ELSE tasks[k]
    BY <2>1
  <2> QED BY <2>2, <2>3, <2>4
<1>4. ASSUME NEW u \in People, ChangeStatus(u)
      PROVE  \A n \in DOMAIN tasks' : Staffed(tasks'[n], members')
  <2>1. PICK status \in {"active", "suspended"} :
          members[u].status # "none" /\ members' = [members EXCEPT ![u].status = status]
    BY <1>4 DEF ChangeStatus
  <2>2. \A v \in People : members'[v].status = "none" <=> members[v].status = "none"
    <3>1. members'[u].status = status
      BY <2>1 DEF MemberRecord
    <3>2. \A v \in People \ {u} : members'[v] = members[v]
      BY <2>1
    <3> QED BY <2>1, <3>1, <3>2
  <2>3. tasks' = tasks
    BY <1>4 DEF ChangeStatus
  <2>4. ASSUME NEW n \in DOMAIN tasks PROVE Staffed(tasks[n], members')
    <3>1. CASE tasks[n] = NoTask
      BY <3>1 DEF Staffed
    <3>2. CASE tasks[n] # NoTask
      <4>1. tasks[n].executors \subseteq People
        BY <3>2 DEF Task
      <4>2. Staffed(tasks[n], members)
        OBVIOUS
      <4> QED BY <2>2, <4>1, <4>2 DEF Staffed
    <3> QED BY <3>1, <3>2
  <2> QED BY <2>3, <2>4
<1>5. ASSUME NEW u \in People, RemoveUser(u)
      PROVE  \A n \in DOMAIN tasks' : Staffed(tasks'[n], members')
  <2>1. members' = [members EXCEPT ![u].status = "none"]
    BY <1>5 DEF RemoveUser
  <2>2. members'[u].status = "none" /\ \A v \in People \ {u} : members'[v] = members[v]
    BY <2>1 DEF MemberRecord
  <2>3. /\ DOMAIN tasks' = DOMAIN tasks
        /\ \A n \in DOMAIN tasks :
             tasks'[n] = IF tasks[n] # NoTask THEN Without(tasks[n], u) ELSE NoTask
    BY <1>5 DEF RemoveUser, Open
  <2>4. ASSUME NEW n \in DOMAIN tasks PROVE Staffed(tasks'[n], members')
    <3>1. CASE tasks[n] = NoTask
      BY <2>3, <3>1 DEF Staffed
    <3>2. CASE tasks[n] # NoTask
      <4>1. PICK task \in Task : task = tasks[n] /\ task # NoTask
        BY <3>2
      <4>2. Staffed(task, members)
        BY <4>1
      <4>3. PICK less : /\ less = Without(task, u)
                        /\ less.status = task.status
                        /\ less.executors = task.executors \ {u}
                        /\ less.watchers = task.watchers \ {u}
        BY WithoutFacts
      <4>4. task.executors \subseteq People
        BY DEF Task
      <4>5. Staffed(less, members')
        BY <2>2, <4>1, <4>2, <4>3, <4>4 DEF Staffed
      <4> QED BY <2>3, <4>1, <4>3, <4>5
    <3> QED BY <3>1, <3>2
  <2> QED BY <2>3, <2>4
<1>6. ASSUME NEW u \in People, NEW n \in DOMAIN tasks, PerformAction(u, n)
      PROVE  \A k \in DOMAIN tasks' : Staffed(tasks'[k], members')
  <2>1. tasks' = [tasks EXCEPT ![n] = NoTask] /\ members' = members
    BY <1>6 DEF PerformAction
  <2>2. Staffed(NoTask, members)
    BY DEF Staffed
  <2> QED BY <2>1, <2>2
<1>7. SaveGraph \/ SaveRoleMappings => UNCHANGED <<tasks, members>>
  BY DEF SaveGraph, SaveRoleMappings
<1>8. UNCHANGED tasksVars => UNCHANGED <<tasks, members>>
  BY DEF tasksVars
<1> QED BY <1>1, <1>2, <1>3, <1>4, <1>5, <1>6, <1>7, <1>8 DEF TasksNext

\* Nobody both executes and watches a task, and only the removal of users
\* leaves a task that had an executor without one.
THEOREM TasksStayStaffed == TasksSpec => []TasksAreStaffed
<1> DEFINE AllStaffed == \A n \in DOMAIN tasks : Staffed(tasks[n], members)
<1>1. TasksInit => AllStaffed
  <2>1. DOMAIN <<>> = {}
    OBVIOUS
  <2> QED BY <2>1 DEF TasksInit
<1>2. PeopleTyped /\ AllStaffed /\ [TasksNext]_tasksVars => AllStaffed'
  BY StaffedStays
<1>3. AllStaffed => TasksAreStaffed
  BY DEF Staffed, TasksAreStaffed, Open
<1> HIDE DEF AllStaffed
<1> QED BY <1>1, <1>2, <1>3, PeopleTypedHolds, PTL DEF TasksSpec

-----------------------------------------------------------------------------
(* Offers                                                                  *)

\* A condition says the same of two contexts that agree on the facts it
\* mentions.
LEMMA ConditionsReadFacts ==
  ASSUME NEW c, NEW x, NEW y,
         \A i \in DOMAIN c : "fact" \in DOMAIN c[i] => GetFact(x, c[i].fact) = GetFact(y, c[i].fact)
  PROVE  EvaluateCondition(c, x) = EvaluateCondition(c, y)
<1> DEFINE Op(i)    == IF "op" \in DOMAIN c[i] THEN c[i].op ELSE ""
           Fact(i, context) ==
             IF "fact" \in DOMAIN c[i] THEN GetFact(context, c[i].fact) ELSE Undefined
           Value(i) == IF "value" \in DOMAIN c[i] THEN c[i].value ELSE Undefined
<1>1. \A i \in DOMAIN c : Fact(i, x) = Fact(i, y)
  OBVIOUS
<1>2. \A context :
        Compared(c, context) = [i \in DOMAIN c |-> Compare(Op(i), Fact(i, context), Value(i))]
  BY DEF Compared
<1> HIDE DEF Op, Fact, Value
<1>3. Compared(c, x) = Compared(c, y)
  BY <1>1, <1>2
<1> QED BY <1>3 DEF EvaluateCondition

\* What is sent along changes no fact but those it names.
LEMMA PayloadKeepsFacts ==
  ASSUME NEW payload, NEW path, Head(path) \notin DOMAIN payload
  PROVE  GetFact(Context, path) = GetFact(Overridden(payload), path)
<1>1. PICK facts : Context = <<"object", facts>>
  BY DEF Context
<1>2. Context[1] = "object" /\ Context[2] = facts
  BY <1>1
<1>3. PICK more : more = [fact \in DOMAIN facts \union DOMAIN payload |->
                            IF fact \in DOMAIN payload THEN payload[fact] ELSE facts[fact]]
  OBVIOUS
<1>4. Overridden(payload) = <<"object", more>>
  BY <1>2, <1>3 DEF Overridden
<1>5. PICK over : over = Overridden(payload) /\ over[1] = "object" /\ over[2] = more
  BY <1>4
<1>6. PICK segment : segment = Head(path) /\ segment \notin DOMAIN payload
  OBVIOUS
<1>7. /\ segment \in DOMAIN more <=> segment \in DOMAIN facts
      /\ segment \in DOMAIN facts => more[segment] = facts[segment]
  BY <1>3, <1>6
<1>8. Member(Context, segment) = Member(over, segment)
  BY <1>2, <1>5, <1>7 DEF Member
<1> QED BY <1>5, <1>6, <1>8 DEF GetFact

LEMMA UndecidedConditions ==
  ASSUME NEW condition, condition # Null, NEW payload,
         Mentioned(condition) \intersect DOMAIN payload = {}
  PROVE  EvaluateCondition(condition, Context)
           = EvaluateCondition(condition, Overridden(payload))
<1>1. ASSUME NEW i \in DOMAIN condition, "fact" \in DOMAIN condition[i]
      PROVE  GetFact(Context, condition[i].fact)
               = GetFact(Overridden(payload), condition[i].fact)
  <2>1. Head(condition[i].fact) \in Mentioned(condition)
    BY <1>1 DEF Mentioned
  <2>2. Head(condition[i].fact) \notin DOMAIN payload
    BY <2>1
  <2> QED BY <2>2, PayloadKeepsFacts
<1> QED BY <1>1, ConditionsReadFacts

LEMMA NamedActionsAreOne ==
  ASSUME NEW g, ActionsAreNamed(g), NEW t \in ToSet(g.transitions), NEW u \in ToSet(g.transitions),
         t.source = u.source, t.key = u.key
  PROVE  t = u
<1>1. PICK i \in DOMAIN g.transitions : t = g.transitions[i]
  BY DEF ToSet
<1>2. PICK j \in DOMAIN g.transitions : u = g.transitions[j]
  BY DEF ToSet
<1>3. i = j
  BY <1>1, <1>2 DEF ActionsAreNamed
<1> QED BY <1>1, <1>2, <1>3

LEMMA OffersMatch ==
  ASSUME NEW u, NEW n \in DOMAIN tasks, NEW key, NEW payload,
         PayloadFits(NodeAt(graph, n).config.fields, payload, key), ~Decides(payload, n, key),
         NEW t \in ToSet(graph.transitions), t.source = n, t.key = key
  PROVE  t \in Accepted(u, n, key, payload)
           <=> /\ t.source \in DOMAIN tasks
               /\ Open(t.source)
               /\ HasStepPermission(u, NodeAt(graph, t.source).config)
               /\ u \in tasks[t.source].executors \/ IsAdmin(u)
               /\ t.condition = Null \/ EvaluateCondition(t.condition, Context)
<1>1. Mentioned(t.condition) \intersect DOMAIN payload = {}
  BY DEF Decides
<1>2. t.condition # Null =>
        EvaluateCondition(t.condition, Context)
          = EvaluateCondition(t.condition, Overridden(payload))
  BY <1>1, UndecidedConditions
<1> QED BY <1>2 DEF Accepted, HasStepPermission

LEMMA SoundOffersAreKept ==
  ASSUME graph # Unpublished => ActionsAreNamed(graph)
  PROVE  OffersAreKept
<1> SUFFICES ASSUME graph # Unpublished, NEW u \in People, NEW n \in DOMAIN tasks,
                    NEW key \in KeysFrom(graph.transitions, n), NEW payload \in Payloads,
                    PayloadFits(NodeAt(graph, n).config.fields, payload, key),
                    ~Decides(payload, n, key)
             PROVE  LET offers == {o \in Offered(u) : o.task = n}
                    IN  /\ {o.target : o \in {p \in offers : p.key = key}}
                             = {t.target : t \in Accepted(u, n, key, payload)}
                        /\ Cardinality({o \in offers : o.key = key}) <= 1
  BY DEF OffersAreKept
<1>1. ActionsAreNamed(graph)
  OBVIOUS
<1> DEFINE Kept(t) == t \in ToSet(graph.transitions) /\ t.source = n /\ t.key = key
           Offer(t) == [task |-> t.source, key |-> t.key, target |-> t.target]
           OfferedNow(t) == /\ t.source \in DOMAIN tasks
                            /\ Open(t.source)
                            /\ HasStepPermission(u, NodeAt(graph, t.source).config)
                            /\ u \in tasks[t.source].executors \/ IsAdmin(u)
                            /\ t.condition = Null \/ EvaluateCondition(t.condition, Context)
<1>2. PICK offers : offers = {o \in Offered(u) : o.task = n /\ o.key = key}
  OBVIOUS
<1>3. Offered(u) = {Offer(t) : t \in {t \in ToSet(graph.transitions) : OfferedNow(t)}}
  BY DEF Offered
<1>4. \A t : Offer(t).task = t.source /\ Offer(t).key = t.key /\ Offer(t).target = t.target
  OBVIOUS
<1>5. \A t : Kept(t) => (t \in Accepted(u, n, key, payload) <=> OfferedNow(t))
  BY OffersMatch
<1>6. \A t : t \in Accepted(u, n, key, payload) => Kept(t)
  BY DEF Accepted
<1>7. \A t, s : Kept(t) /\ Kept(s) => t = s
  BY <1>1, NamedActionsAreOne
<1> HIDE DEF Offer, OfferedNow
<1>8. ASSUME NEW o
      PROVE  o \in offers <=> \E t : Kept(t) /\ OfferedNow(t) /\ o = Offer(t)
  BY <1>2, <1>3, <1>4
<1> HIDE DEF Kept
<1>9. {o.target : o \in offers} = {t.target : t \in Accepted(u, n, key, payload)}
  <2>1. ASSUME NEW o \in offers PROVE \E t \in Accepted(u, n, key, payload) : o.target = t.target
    BY <1>4, <1>5, <1>8
  <2>2. ASSUME NEW t \in Accepted(u, n, key, payload) PROVE \E o \in offers : o.target = t.target
    <3>1. Offer(t) \in offers
      BY <1>5, <1>6, <1>8
    <3> QED BY <1>4, <3>1
  <2> QED BY <2>1, <2>2
<1>10. Cardinality(offers) <= 1
  <2>1. CASE offers = {}
    BY <2>1, FS_EmptySet
  <2>2. CASE offers # {}
    <3>1. PICK o \in offers : TRUE
      BY <2>2
    <3>2. offers = {o}
      BY <1>7, <1>8, <3>1
    <3>3. \A x : Cardinality({x}) = 1
      BY FS_Singleton
    <3>4. Cardinality(offers) = 1
      BY <3>2, <3>3
    <3> QED BY <3>4
  <2> QED BY <2>1, <2>2
<1>11. {o \in {p \in Offered(u) : p.task = n} : o.key = key} = offers
  BY <1>2
<1> QED BY <1>9, <1>10, <1>11

\* Tasks reach people who can do what they are offered: what a member sees is
\* what performAction takes, one transition for each key, whatever is sent
\* along that the conditions do not read.
THEOREM TasksReachTheirPeople == TasksSpec => []TasksReachPeople
<1>1. GraphsKept => OffersAreKept
  <2> SUFFICES ASSUME GraphsKept PROVE graph # Unpublished => ActionsAreNamed(graph)
    BY SoundOffersAreKept
  <2>1. graph # Unpublished => \E S : graph.transitions \in Seq(S) /\ ValidGraph(graph)
    BY DEF GraphsKept, GraphKept
  <2> QED BY <2>1, ValidGraphIsSound
<1>2. GraphsKept /\ TasksAreStaffed => TasksReachPeople
  BY <1>1 DEF TasksReachPeople
<1> QED BY <1>2, GraphsKeptHolds, TasksStayStaffed, PTL
=============================================================================
