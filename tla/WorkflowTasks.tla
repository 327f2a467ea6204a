---------------------------- MODULE WorkflowTasks ----------------------------
(***************************************************************************)
(* From a graph somebody draws to a person who acts: a draft is saved and  *)
(* published when it is valid, an instance runs the published graph, tasks *)
(* are given to the people its rules name at that moment, and each of them *)
(* is offered actions, which performAction checks again.                   *)
(*                                                                         *)
(* Where the tokens of an instance go is WorkflowEngine's: here a human    *)
(* step may be reached whenever it has no open task.  Memberships and role *)
(* mappings change at any time, also under an open task.                   *)
(***************************************************************************)
EXTENDS WorkflowGraphs

CONSTANTS
  Sent,         \* the graphs people send
  People,       \* users, by an identifier that is a string
  Admins,       \* platform admins and holders of the role "admin"
  Creator,      \* createdBy, in the context of the instance
  Granted,      \* the permissions of each of the people
  Units,        \* organization units: [parent, manager (metadata)]
  Members,      \* the memberships the tenant starts with
  Mappings,     \* sets of role mappings people save
  Facts,        \* the rest of the context
  Payloads,     \* what is sent along with an action
  MaxDepth,     \* 20 units in the code
  MaxActions,   \* bound: actions performed
  Unpublished, NoTask

ASSUME PeopleAssumption ==
  /\ Creator \in People /\ Null \notin People
  /\ Admins \subseteq People

\* What the DTO lets through.
MostNodes == 200
MostTransitions == 500

IsTransition(t) ==
  /\ t = [source |-> t.source, target |-> t.target, key |-> t.key, label |-> t.label,
          condition |-> t.condition]
  /\ {t.key, t.label} \subseteq Seq(Characters)

ASSUME SentAssumption ==
  \A g \in Sent :
    /\ g = [nodes |-> g.nodes, transitions |-> g.transitions]
    /\ \A ts \in {g.nodes, g.transitions} : ts \in Seq(ToSet(ts))
    /\ Len(g.nodes) <= MostNodes /\ Len(g.transitions) <= MostTransitions
    /\ \A t \in ToSet(g.transitions) : IsTransition(t)

MemberRecord == [status : {"active", "suspended", "none"}, unit : DOMAIN Units \union {Null},
               position : {"p", Null}, roles : SUBSET {"r"}]

ASSUME MembersAssumption == Members \in [People -> MemberRecord] /\ {} \in Mappings

VARIABLES
  draft,      \* the graph of the draft version
  graph,      \* the published graph, which the instance runs
  members,    \* membership by user
  mappings,   \* the role mappings of the definition
  tasks,      \* the open task of each human step
  actors      \* who acted, in this order; Null once the user is gone

tasksVars == <<draft, graph, members, mappings, tasks, actors>>

Task == [status : {"pending", "blocked"}, executors : SUBSET People, watchers : SUBSET People]

TasksTypeOK ==
  /\ ValidGraph(draft)
  /\ graph # Unpublished => ValidGraph(graph)
  /\ members \in [People -> MemberRecord]
  /\ mappings \in Mappings
  /\ tasks \in [DOMAIN tasks -> Task \union {NoTask}]
  /\ actors \in Seq(People \union {Null})

-----------------------------------------------------------------------------
(* Drafts *)

FirstDraft == WithKeys(DefaultGraph)

\* createDefinition
TasksInit ==
  /\ draft = FirstDraft
  /\ graph = Unpublished
  /\ members = Members
  /\ mappings = {}
  /\ tasks = <<>>
  /\ actors = <<>>

\* One draft is saved before one is published, and people change after that:
\* a bound.  replaceGraph prepares the prepared transitions again.
SaveGraph ==
  /\ graph = Unpublished /\ draft = FirstDraft
  /\ \E g \in Sent :
       /\ ValidGraph(WithKeys(g))
       /\ draft' = WithKeys(WithKeys(g))
  /\ UNCHANGED <<graph, members, mappings, tasks, actors>>

HumanSteps(g) == {node.key : node \in NodesOf(g, "HUMAN_TASK")}

\* publishDefinition and, for the instance, startInstance.
PublishDraft ==
  /\ graph = Unpublished
  /\ ValidGraph(draft)
  /\ graph' = draft
  /\ tasks' = [n \in HumanSteps(draft) |-> NoTask]
  /\ UNCHANGED <<draft, members, mappings, actors>>

-----------------------------------------------------------------------------
(* People *)

IsActive(u) == u \in People /\ members[u].status = "active"
Active(Where(_)) == {u \in People : IsActive(u) /\ Where(members[u])}

\* The units from one upwards, MaxDepth at most; Null above the highest.
Above(unit) ==
  LET up[depth \in 1 .. MaxDepth] ==
        IF depth = 1 THEN unit
        ELSE LET below == up[depth - 1]
             IN  IF below \in DOMAIN Units THEN Units[below].parent ELSE Null
  IN  up

\* Who manages a unit: the one it names, else those in the position of the rule.
ManagersOf(unit, position) ==
  LET InPosition(m) == position # Null /\ m.unit = unit /\ m.position = position
  IN  IF unit \notin DOMAIN Units THEN {}
      ELSE IF IsActive(Units[unit].manager) THEN {Units[unit].manager}
      ELSE Active(InPosition)

\* The nearest unit that has a manager decides; findOne: any one of them.
RequesterManagers(position) ==
  LET up    == Above(IF IsActive(Creator) THEN members[Creator].unit ELSE Null)
      found == {depth \in 1 .. MaxDepth : ManagersOf(up[depth], position) # {}}
  IN  UNION {ManagersOf(up[depth], position) :
               depth \in {d \in found : \A e \in found : d <= e}}

InSubject(type, subject) ==
  LET In(m) == CASE type = "ORGANIZATION_UNIT" -> m.unit = subject
                 [] type = "POSITION"          -> m.position = subject
                 [] type = "ROLE"              -> subject \in m.roles
                 [] OTHER                      -> FALSE
  IN  {u \in {subject} : type = "USER" /\ IsActive(u)} \union Active(In)

Context == <<"object", [Facts EXCEPT !["createdBy"] = <<"text", <<Creator>>>>]>>

\* A text or the texts of a list, whoever they name.
InField(value) ==
  LET texts == CASE value[1] = "text" -> {value[2]}
                 [] value[1] = "list" -> {v[2] : v \in {w \in ToSet(value[2]) : w[1] = "text"}}
                 [] OTHER             -> {}
  IN  {text[1] : text \in texts}

\* The actor of the last action whose actor is not null.
PreviousActor ==
  LET known == {i \in DOMAIN actors : actors[i] # Null}
  IN  {actors[i] : i \in {k \in known : \A l \in known : l <= k}}

\* The sets of people one rule may give.
NamedBy(rule) ==
  CASE rule.variable # Null ->
         {UNION {InSubject(m.type, m.target) :
                   m \in {n \in mappings : n.variable = rule.variable}}}
    [] rule.variable = Null /\ rule.type = "CREATOR" -> {{Creator}}
    [] rule.variable = Null /\ rule.type = "PREVIOUS_STEP_ACTOR" -> {PreviousActor}
    [] rule.variable = Null /\ rule.type = "MANAGER_OF_REQUESTER" ->
         LET managers == RequesterManagers(rule.position)
         IN  IF managers = {} THEN {{}} ELSE {{u} : u \in managers}
    [] rule.variable = Null /\ rule.type = "REQUEST_FIELD" ->
         {InField(GetFact(Context, rule.field))}
    [] OTHER -> {InSubject(rule.type, rule.subject)}

FallsBack(rules, role, found) ==
  role = "EXECUTOR" /\ found = {} /\ \A rule \in rules : rule.variable = Null

ResolveAssignees(node, role) ==
  LET rules == {rule \in node.rules : rule.role = role}
      Add(rule, found) == {f \union named : f \in found, named \in NamedBy(rule)}
  IN  {IF FallsBack(rules, role, found) THEN {Creator} ELSE found :
         found \in FoldSet(Add, {{}}, rules)}

-----------------------------------------------------------------------------
(* Tasks *)

Watching(observers, executors) == observers \ executors

\* createHumanTask.  The rows of somebody who is no user violate a foreign
\* key: the transaction is rolled back, and nothing happens here.
CreateHumanTask(n) ==
  \E executors \in ResolveAssignees(NodeAt(graph, n), "EXECUTOR") :
  \E observers \in ResolveAssignees(NodeAt(graph, n), "OBSERVER") :
    /\ tasks[n] = NoTask
    /\ executors \union observers \subseteq {u \in People : members[u].status # "none"}
    /\ tasks' = [tasks EXCEPT ![n] =
         [status    |-> IF executors = {} THEN "blocked" ELSE "pending",
          executors |-> executors,
          watchers  |-> IF executors = {} THEN {} ELSE Watching(observers, executors)]]
    /\ UNCHANGED <<draft, graph, members, mappings, actors>>

Open(n) == tasks[n] # NoTask
IsAdmin(u) == u \in Admins

\* Variant: the permission of the step is forgotten.
AnyStepPermission(u, config) == TRUE
HasStepPermission(u, config) ==
  \/ RequiredPermissions(config) = {}
  \/ RequiredPermissions(config) \intersect Granted[u] # {}
  \/ IsAdmin(u)

\* availableActions: what the page of the instance offers.
Offered(u) ==
  {[task |-> t.source, key |-> t.key, target |-> t.target] : t \in
     {t \in ToSet(graph.transitions) :
        /\ t.source \in DOMAIN tasks
        /\ Open(t.source)
        /\ HasStepPermission(u, NodeAt(graph, t.source).config)
        /\ u \in tasks[t.source].executors \/ IsAdmin(u)
        /\ t.condition = Null \/ EvaluateCondition(t.condition, Context)}}

\* validateActionPayload
ValueFits(field, value) ==
  /\ CASE field.type = "number"  -> value[1] = "number"
       [] field.type = "boolean" -> value[1] = "boolean"
       [] OTHER                  -> value[1] = "text"
  /\ field.type = "select" => value[2] \in field.options

PayloadFits(fields, payload, key) ==
  \A i \in DOMAIN fields :
    LET field == fields[i]
    IN  \/ field.actions # {} /\ key \notin field.actions
        \/ field.key \notin DOMAIN payload /\ ~field.required
        \/ field.key \in DOMAIN payload /\ ValueFits(field, payload[field.key])

\* {...instance.context, ...payload}
Overridden(payload) ==
  LET facts == Context[2]
  IN  <<"object", [fact \in DOMAIN facts \union DOMAIN payload |->
                     IF fact \in DOMAIN payload THEN payload[fact] ELSE facts[fact]]>>

\* performAction, up to its first write, on the task it names.
Accepted(u, n, key, payload) ==
  {t \in ToSet(graph.transitions) :
     LET config == NodeAt(graph, n).config
     IN  /\ Open(n)
         /\ u \in tasks[n].executors \/ IsAdmin(u)
         /\ t.source = n /\ t.key = key
         /\ RequiredPermissions(config) = {} \/ IsAdmin(u)
              \/ RequiredPermissions(config) \intersect Granted[u] # {}
         /\ PayloadFits(config.fields, payload, key)
         /\ t.condition = Null
              \/ EvaluateCondition(t.condition, Overridden(payload))}

PerformAction(u, n) ==
  \E key \in KeysFrom(graph.transitions, n), payload \in Payloads :
    /\ IsActive(u)
    /\ Accepted(u, n, key, payload) # {}
    /\ tasks' = [tasks EXCEPT ![n] = NoTask]
    /\ Len(actors) < MaxActions
    /\ actors' = Append(actors, u)
    /\ UNCHANGED <<draft, graph, members, mappings>>

-----------------------------------------------------------------------------
(* What changes under the tasks *)

TargetExists(m) ==
  CASE m.type = "USER"              -> IsActive(m.target)
    [] m.type = "ORGANIZATION_UNIT" -> m.target \in DOMAIN Units
    [] OTHER                        -> TRUE

SaveRoleMappings ==
  \E ms \in Mappings :
    /\ \A m \in ms : TargetExists(m)
    /\ graph # Unpublished
    /\ mappings' = ms
    /\ UNCHANGED <<draft, graph, members, tasks, actors>>

ChangeStatus(u) ==
  \E status \in {"active", "suspended"} :
    /\ graph # Unpublished
    /\ members[u].status # "none"
    /\ members' = [members EXCEPT ![u].status = status]
    /\ UNCHANGED <<draft, graph, mappings, tasks, actors>>

Without(task, u) ==
  [status    |-> task.status,
   executors |-> task.executors \ {u},
   watchers  |-> task.watchers \ {u}]

\* The user's last membership goes and the user with it; the assignments
\* go by cascade, and their actions forget who did them.
RemoveUser(u) ==
  /\ graph # Unpublished
  /\ members[u].status # "none"
  /\ u # Creator
  /\ members' = [members EXCEPT ![u].status = "none"]
  /\ tasks' = [n \in DOMAIN tasks |-> IF Open(n) THEN Without(tasks[n], u) ELSE NoTask]
  /\ actors' = [i \in DOMAIN actors |-> IF actors[i] = u THEN Null ELSE actors[i]]
  /\ UNCHANGED <<draft, graph, mappings>>

TasksNext ==
  \/ SaveGraph
  \/ PublishDraft
  \/ SaveRoleMappings
  \/ \E n \in DOMAIN tasks : CreateHumanTask(n)
  \/ \E u \in People : ChangeStatus(u) \/ RemoveUser(u)
  \/ \E u \in People, n \in DOMAIN tasks : PerformAction(u, n)

TasksSpec == TasksInit /\ [][TasksNext]_tasksVars

-----------------------------------------------------------------------------
(* Properties *)

\* Whatever set of steps contains the start and everything it leads to
\* contains all steps.
AllStepsAreReached(g) ==
  \A closed \in SUBSET NodeKeys(g) :
    /\ \E start \in NodesOf(g, "START") : start.key \in closed
    /\ \A t \in ToSet(g.transitions) : t.source \in closed => t.target \in closed
    => closed = NodeKeys(g)

StepsLeadOn(g) ==
  \A node \in ToSet(g.nodes) :
    node.type \in {"END", "PARALLEL_JOIN"} \/ \E t \in ToSet(g.transitions) : t.source = node.key

\* The key of an action names one transition of its step.
ActionsAreNamed(g) ==
  \A i, j \in DOMAIN g.transitions :
    LET t == g.transitions[i]
        u == g.transitions[j]
    IN  <<t.source, t.key>> = <<u.source, u.key>> => i = j

\* Every saved graph can be run to an end: no step is out of reach, each that
\* is not an end or a join leads on, and the key of an action is its own.
\* Its keys stay what they are when it is saved or cloned.
SavedGraphsAreSound ==
  /\ AllStepsAreReached(draft)
  /\ StepsLeadOn(draft)
  /\ ActionsAreNamed(draft)
  /\ WithKeys(draft) = draft

\* The facts a condition starts from.
Mentioned(condition) ==
  IF condition = Null THEN {}
  ELSE {Head(condition[i].fact) : i \in {j \in DOMAIN condition : "fact" \in DOMAIN condition[j]}}

\* The payload has a say in the condition of an action with the key.
Decides(payload, n, key) ==
  \E t \in ToSet(graph.transitions) :
    t.source = n /\ t.key = key /\ Mentioned(t.condition) \intersect DOMAIN payload # {}

\* What a member is offered is accepted, and leads where it says, with every
\* payload the form of the step takes that has no say in its condition; and
\* what is accepted with such a payload was offered.
OffersAreKept ==
  graph # Unpublished =>
    \A u \in People, n \in DOMAIN tasks :
      LET offers == {o \in Offered(u) : o.task = n}
      IN  \A key \in KeysFrom(graph.transitions, n), payload \in Payloads :
            /\ PayloadFits(NodeAt(graph, n).config.fields, payload, key)
            /\ ~Decides(payload, n, key)
            => /\ {o.target : o \in {p \in offers : p.key = key}}
                    = {t.target : t \in Accepted(u, n, key, payload)}
               /\ Cardinality({o \in offers : o.key = key}) <= 1

\* Nobody both executes and watches a task; a task nobody was found for has
\* nobody, and only the removal of users leaves another one without executor.
TasksAreStaffed ==
  \A n \in DOMAIN tasks :
    Open(n) =>
      /\ tasks[n].executors \intersect tasks[n].watchers = {}
      /\ tasks[n].status = "blocked" => tasks[n].executors \union tasks[n].watchers = {}
      /\ \A u \in tasks[n].executors : members[u].status # "none"
      /\ tasks[n].status = "pending" /\ tasks[n].executors = {} =>
           \E u \in People : members[u].status = "none"

\* Tasks reach people who can do what they are offered.
TasksReachPeople == TasksAreStaffed /\ OffersAreKept

=============================================================================
