--------------------------- MODULE WorkflowEngine ---------------------------
(***************************************************************************)
(* The run time of one workflow instance: WorkflowService.startInstance    *)
(* and performAction, with activateToken, moveToken, tryJoin,              *)
(* createHumanTask and refreshInstanceStatus that they call.               *)
(*                                                                         *)
(* Both handlers run in one database transaction.  "db" is the committed   *)
(* instance (its row, tokens, tasks and action rows), the only thing other *)
(* requests can read; "img" is what the open transaction has made of it so *)
(* far.  Token activation is recursive in the code: "tx.stack" holds the   *)
(* activations that are still to be done, innermost first, and one step    *)
(* performs one activation.  A crash, an error or a depth over the limit   *)
(* throws "img" away.                                                      *)
(*                                                                         *)
(* A token that is created and consumed by the same activation (START,     *)
(* END, SERVICE_TASK, CONDITION, PARALLEL_SPLIT and a join that fires)     *)
(* leaves a row that no query reads: it is given no identifier here.       *)
(***************************************************************************)
EXTENDS Integers, Sequences, FiniteSets

CONSTANTS
  Nodes,        \* the nodes of the graphs
  Users,
  Admins,       \* users who are platform or tenant administrators
  Clients,      \* HTTP callers, each with at most one request in flight
  TokenIds,
  TaskIds,
  Keys,         \* idempotency keys
  Conds,        \* the conditions that transitions test
  Graphs,       \* the published versions an instance may run
  Requests,     \* the requests callers may send
  Sections,     \* parts of graphs between a split and its join, see ForkJoin
  MaxDepth,     \* the activation depth limit (64 in the code)
  MaxActions,   \* bound: people act at most this often on the instance
  NoNode, NoKey, NoCond, NoQuorum, AnyTask, NoRequest,
  Unused,       \* the place of a token that does not exist yet
  Consumed,     \* the place of a token that was consumed
  Starter,      \* the service that starts the instance
  Nobody

NodeType == {"START", "HUMAN_TASK", "SERVICE_TASK", "CONDITION",
             "PARALLEL_SPLIT", "PARALLEL_JOIN", "END"}

Transition == [action : STRING, to : Nodes, cond : Conds \union {NoCond}]

\* "resolve" gives the sets of executors a node's rules may resolve to when a
\* task is created there; "permitted" the users who hold one of the
\* permissions the node requires.
Graph == [type      : [Nodes -> NodeType],
          out       : [Nodes -> Seq(Transition)],
          start     : Nodes,
          strategy  : [Nodes -> {"ALL", "ANY", "QUORUM"}],
          quorum    : [Nodes -> Nat \union {NoQuorum}],
          resolve   : [Nodes -> SUBSET (SUBSET Users)],
          permitted : [Nodes -> SUBSET Users]]

\* A request names its task or lets the service pick one; "set" and "clear"
\* are the conditions its payload makes true and false.
Request == [user   : Users,
            task   : TaskIds \union {AnyTask},
            action : STRING,
            key    : Keys \union {NoKey},
            set    : SUBSET Conds,
            clear  : SUBSET Conds]

\* What validateGraphInput lets through, as far as the engine depends on it.
ASSUME GraphAssumption ==
  \A g \in Graphs :
    /\ g \in Graph
    /\ g.type[g.start] = "START"
    /\ \A n \in Nodes : g.resolve[n] # {}

ASSUME RequestAssumption == Requests \subseteq Request

ASSUME SectionAssumption ==
  Sections \subseteq [before : SUBSET Nodes, split : Nodes, join : Nodes]

ASSUME BoundAssumption == MaxDepth \in Nat /\ MaxActions \in Nat

ASSUME NullAssumption ==
  /\ {NoNode, Unused, Consumed} \intersect Nodes = {}
  /\ Unused # Consumed
  /\ NoKey \notin Keys
  /\ NoCond \notin Conds
  /\ NoQuorum \notin Nat
  /\ AnyTask \notin TaskIds
  /\ NoRequest \notin Requests
  /\ {Starter, Nobody} \intersect Clients = {}
  /\ Starter # Nobody

VARIABLES
  graph,        \* the version the instance runs; never changes
  context,      \* the conditions that hold in instance.context
  db,           \* the committed instance
  img,          \* the instance as the open transaction sees it
  tx,           \* the open transaction: who runs it, what is left to activate
  pending       \* the request each caller waits for

vars == <<graph, context, db, img, tx, pending>>

-----------------------------------------------------------------------------
(* Images of an instance *)

TaskStatus == {"none", "pending", "blocked", "completed"}

Task == {task \in [status : TaskStatus,
                   node   : Nodes \union {NoNode},
                   token  : TokenIds \union {NoNode},
                   who    : SUBSET Users,
                   since  : Nat] :
           task.status # "none" => task.node \in Nodes /\ task.token \in TokenIds}

Image == [status  : {"none", "running", "blocked", "completed"},
          current : Nodes \union {NoNode},
          tokens  : [TokenIds -> Nodes \union {Unused, Consumed}],
          tasks   : [TaskIds -> Task],
          log     : Seq([task : TaskIds, key : Keys \union {NoKey}])]

Absent == [status  |-> "none",
           current |-> NoNode,
           tokens  |-> [t \in TokenIds |-> Unused],
           tasks   |-> [k \in TaskIds |->
                          [status |-> "none", node |-> NoNode, token |-> NoNode,
                           who |-> {}, since |-> 0]],
           log     |-> <<>>]

Open(i, k) == i.tasks[k].status \in {"pending", "blocked"}
OpenTasks(i) == {k \in TaskIds : Open(i, k)}
ActiveTokens(i) == {t \in TokenIds : i.tokens[t] \in Nodes}
\* Variant: the query forgets the node.
TokensAnywhere(i, n) == ActiveTokens(i)
TokensAt(i, n) == {t \in TokenIds : i.tokens[t] = n}
\* Variant: the unique index on the key is missing.
KeysForgotten(i) == {}
KeysUsed(i) == {i.log[j].key : j \in DOMAIN i.log} \ {NoKey}
Served(i) == {i.log[j].task : j \in DOMAIN i.log}

\* Variant: an instance is over when no task is open.
RefreshByTasks(i) ==
  IF OpenTasks(i) = {} THEN [i EXCEPT !.status = "completed", !.current = NoNode] ELSE i

\* Variant: only the status is recomputed.
RefreshStatusOnly(i) ==
  [i EXCEPT !.status = IF ActiveTokens(i) = {} THEN "completed" ELSE "running"]

\* The status an instance row gets when the engine recomputes it.
Refresh(i) ==
  IF ActiveTokens(i) = {}
    THEN [i EXCEPT !.status = "completed", !.current = NoNode]
    ELSE [i EXCEPT
            !.status = IF \E k \in TaskIds : i.tasks[k].status = "blocked"
                         THEN "blocked" ELSE "running",
            !.current = IF \E t \in TokenIds : ActiveTokens(i) = {t}
                          THEN i.tokens[CHOOSE t \in TokenIds : ActiveTokens(i) = {t}]
                          ELSE @]

-----------------------------------------------------------------------------
(* Graphs *)

Holds(tr, facts) == tr.cond \in facts \union {NoCond}

\* The first outgoing transition whose condition holds, if there is one.
Selected(n, facts) ==
  {graph.out[n][i] : i \in {j \in DOMAIN graph.out[n] :
     /\ Holds(graph.out[n][j], facts)
     /\ \A h \in 1 .. j - 1 : ~Holds(graph.out[n][h], facts)}}

Incoming(n) ==
  Cardinality(UNION {{<<m, i>> : i \in {j \in DOMAIN graph.out[m] :
                                          graph.out[m][j].to = n}} : m \in Nodes})

\* Variant: a join fires one token too early.
ThresholdTooLow(n) == Incoming(n) - 1

\* Variant: a join waits for one token too many.
ThresholdTooHigh(n) == Incoming(n) + 1

Threshold(n) ==
  CASE graph.strategy[n] = "ANY"    -> 1
    [] graph.strategy[n] = "ALL"    -> Incoming(n)
    [] graph.strategy[n] = "QUORUM" ->
         IF graph.quorum[n] = NoQuorum THEN Incoming(n)
         ELSE IF graph.quorum[n] > 1 THEN graph.quorum[n] ELSE 1

-----------------------------------------------------------------------------
(* The initial state and the requests *)

Entry == [node : Nodes, depth : Nat, next : Nat]

Idle == [owner |-> Nobody, stack |-> <<>>]

\* Variant: the recursion passes no depth on.
ArrivalAtDepthZero(n, d) == [node |-> n, depth |-> 0, next |-> 0]

\* The activation of a new token at node n.  next > 0 marks a split that has
\* activated the branches before that position.
Arrival(n, d) == [node |-> n, depth |-> d, next |-> 0]

Init ==
  /\ graph \in Graphs
  /\ context \in SUBSET Conds
  /\ db = Absent
  /\ img = Absent
  /\ tx = Idle
  /\ pending = [c \in Clients |-> NoRequest]

\* Variant: no look-up of an instance the resource has already.
StartAgain ==
  /\ tx = Idle
  /\ img' = [db EXCEPT !.status = "running", !.current = graph.start]
  /\ tx' = [owner |-> Starter, stack |-> <<Arrival(graph.start, 0)>>]
  /\ UNCHANGED <<graph, context, db, pending>>

\* startInstance up to its call of activateToken.
StartInstance ==
  /\ tx = Idle
  /\ db.status = "none"
  /\ img' = [db EXCEPT !.status = "running", !.current = graph.start]
  /\ tx' = [owner |-> Starter, stack |-> <<Arrival(graph.start, 0)>>]
  /\ UNCHANGED <<graph, context, db, pending>>

\* The look-up before the transaction: a request whose key was committed
\* before is answered with the instance as it is, and changes nothing.
SendRequest(c, r) ==
  /\ pending[c] = NoRequest
  /\ r.key \notin KeysUsed(db)
  /\ pending' = [pending EXCEPT ![c] = r]
  /\ UNCHANGED <<graph, context, db, img, tx>>

Eligible(r) ==
  {k \in OpenTasks(db) : /\ r.task \in {k, AnyTask}
                         /\ r.user \in db.tasks[k].who \union Admins}

\* The oldest task the user may act on.  Tasks of one transaction bear the
\* same time stamp: the query may list them in any order.
Chosen(r) ==
  {k \in Eligible(r) : \A h \in Eligible(r) : db.tasks[k].since <= db.tasks[h].since}

\* The task is completed, the token it waits with consumed, the action row
\* written.
ActedOn(i, k, key) ==
  [i EXCEPT !.tasks = [i.tasks EXCEPT ![k] = [i.tasks[k] EXCEPT !.status = "completed"]],
            !.tokens = [i.tokens EXCEPT ![i.tasks[k].token] = Consumed],
            !.log = Append(i.log, [task |-> k, key |-> key])]

\* performAction up to its call of moveToken, under the lock on the instance.
PerformAction(c) ==
  LET r == pending[c] IN
  /\ r # NoRequest
  /\ tx = Idle
  /\ db.status \in {"running", "blocked"}
  /\ Len(db.log) < MaxActions
  /\ r.key \notin KeysUsed(db)
  /\ \E k \in Chosen(r) :
       LET n == db.tasks[k].node
           t == db.tasks[k].token
       IN /\ r.user \in graph.permitted[n] \union Admins
          /\ t \in ActiveTokens(db)
          /\ \E i \in DOMAIN graph.out[n] :
               LET tr == graph.out[n][i] IN
               /\ tr.action = r.action
               /\ Holds(tr, (context \ r.clear) \union r.set)
               /\ img' = ActedOn(db, k, r.key)
               /\ tx' = [owner |-> c, stack |-> <<Arrival(tr.to, 1)>>]
  /\ UNCHANGED <<graph, context, db, pending>>

\* A request that waits is answered with an error: a check of performAction
\* refuses it (status, assignment, permission, form, condition, token, unique
\* key), or the caller gives up, or the process dies before the transaction.
RefuseRequest(c) ==
  /\ pending[c] # NoRequest
  /\ tx.owner # c
  /\ pending' = [pending EXCEPT ![c] = NoRequest]
  /\ UNCHANGED <<graph, context, db, img, tx>>

-----------------------------------------------------------------------------
(* Activations inside the open transaction *)

Head1 == tx.stack[1]
Rest == Tail(tx.stack)

\* activateToken past its depth check, at a node of one of these types.
Arrives(types) ==
  /\ tx.stack # <<>>
  /\ Head1.next = 0
  /\ Head1.depth <= MaxDepth
  /\ graph.type[Head1.node] \in types
  /\ UNCHANGED <<graph, context, db, pending>>

Here == [img EXCEPT !.status = "running", !.current = Head1.node]

\* The transaction goes on with these activations, then with the rest.
Continue(arrivals) == tx' = [tx EXCEPT !.stack = arrivals \o Rest]

FreeToken == CHOOSE t \in TokenIds : img.tokens[t] = Unused
HasFreeToken == \E t \in TokenIds : img.tokens[t] = Unused
FreeTask == CHOOSE k \in TaskIds : img.tasks[k].status = "none"
HasFreeTask == \E k \in TaskIds : img.tasks[k].status = "none"

\* Variant: the look-up leaves pending tasks out.
HasBlockedTask(i, n) ==
  \E k \in TaskIds : i.tasks[k].status = "blocked" /\ i.tasks[k].node = n
HasOpenTask(i, n) == \E k \in OpenTasks(i) : i.tasks[k].node = n

\* createHumanTask: the rules of the node resolve to the executors "who".
CreateHumanTask(who) ==
  LET n == Head1.node IN
  /\ Arrives({"HUMAN_TASK"})
  /\ ~HasOpenTask(img, n)
  /\ HasFreeToken /\ HasFreeTask
  /\ who \in graph.resolve[n]
  /\ img' = [Here EXCEPT
               !.tokens[FreeToken] = n,
               !.tasks[FreeTask] =
                 [status |-> IF who = {} THEN "blocked" ELSE "pending",
                  node |-> n, token |-> FreeToken, who |-> who, since |-> Len(img.log)],
               !.status = IF who = {} THEN "blocked" ELSE @]
  /\ Continue(<<>>)

\* createHumanTask returns at once when the node has an open task: the new
\* token stays at the node with no task of its own.
JoinOpenTask ==
  LET n == Head1.node IN
  /\ Arrives({"HUMAN_TASK"})
  /\ HasOpenTask(img, n)
  /\ HasFreeToken
  /\ img' = [Here EXCEPT !.tokens[FreeToken] = n]
  /\ Continue(<<>>)

\* The token is consumed at an end node and the status recomputed.
ReachEnd ==
  /\ Arrives({"END"})
  /\ img' = Refresh(Here)
  /\ Continue(<<>>)

\* START, SERVICE_TASK and CONDITION nodes pass the token on along the first
\* transition that applies.  moveToken activates at depth + 1, and gets
\* depth + 1 already.
PassOn ==
  /\ Arrives({"START", "SERVICE_TASK", "CONDITION"})
  /\ \E tr \in Selected(Head1.node, context) :
       /\ img' = Here
       /\ Continue(<<Arrival(tr.to, Head1.depth + 2)>>)

\* No transition applies: the token stays and the instance is blocked.
DeadEnd ==
  LET n == Head1.node IN
  /\ Arrives({"START", "SERVICE_TASK", "CONDITION"})
  /\ Selected(n, context) = {}
  /\ HasFreeToken
  /\ img' = [Here EXCEPT !.status = "blocked", !.tokens[FreeToken] = n]
  /\ Continue(<<>>)

\* The token is consumed; the loop over the outgoing transitions starts.
Split ==
  /\ Arrives({"PARALLEL_SPLIT"})
  /\ img' = Here
  /\ Continue(<<[Head1 EXCEPT !.next = 1]>>)

\* One turn of that loop: the branch is activated, with all that follows
\* from it, before the next one is looked at.
NextBranch ==
  LET n == Head1.node
      i == Head1.next
  IN /\ tx.stack # <<>>
     /\ i > 0
     /\ IF i \in DOMAIN graph.out[n]
          THEN Continue((IF Holds(graph.out[n][i], context)
                           THEN <<Arrival(graph.out[n][i].to, Head1.depth + 1)>>
                           ELSE <<>>)
                        \o <<[Head1 EXCEPT !.next = i + 1]>>)
          ELSE Continue(<<>>)
     /\ UNCHANGED <<graph, context, db, img, pending>>

\* tryJoin below the threshold: the token waits at the join.
WaitAtJoin ==
  LET n == Head1.node IN
  /\ Arrives({"PARALLEL_JOIN"})
  /\ Cardinality(TokensAt(img, n)) + 1 < Threshold(n)
  /\ HasFreeToken
  /\ img' = [Here EXCEPT !.tokens[FreeToken] = n]
  /\ Continue(<<>>)

\* tryJoin at the threshold: every token at the join is consumed, and one
\* goes on unless no transition applies.
PassJoin ==
  LET n == Head1.node
      joined == [Here EXCEPT !.tokens =
                   [t \in TokenIds |-> IF t \in TokensAt(img, n) THEN Consumed ELSE @[t]]]
      next == Selected(n, context)
  IN /\ Arrives({"PARALLEL_JOIN"})
     /\ Cardinality(TokensAt(img, n)) + 1 >= Threshold(n)
     /\ \/ /\ next = {}
           /\ img' = [joined EXCEPT !.status = "blocked"]
           /\ Continue(<<>>)
        \/ \E tr \in next :
             /\ img' = joined
             /\ Continue(<<Arrival(tr.to, Head1.depth + 1)>>)

-----------------------------------------------------------------------------
(* The end of a transaction *)

Release == /\ tx' = Idle
           /\ pending' = [c \in Clients |-> IF c = tx.owner THEN NoRequest ELSE pending[c]]

\* performAction recomputes the status before the commit, startInstance does
\* not.
Commit ==
  /\ tx.owner # Nobody
  /\ tx.stack = <<>>
  /\ img' = IF tx.owner = Starter THEN img ELSE Refresh(img)
  /\ db' = img'
  /\ Release
  /\ UNCHANGED <<graph, context>>

Rollback ==
  /\ img' = db
  /\ Release
  /\ UNCHANGED <<graph, context, db>>

\* The depth check of activateToken throws.
TooDeep ==
  /\ tx.stack # <<>>
  /\ Head1.next = 0
  /\ Head1.depth > MaxDepth
  /\ Rollback

\* The process dies, or the database refuses a statement.
Crash ==
  /\ tx.owner # Nobody
  /\ Rollback

-----------------------------------------------------------------------------
Activation ==
  \/ \E who \in SUBSET Users : CreateHumanTask(who)
  \/ JoinOpenTask
  \/ ReachEnd
  \/ PassOn
  \/ DeadEnd
  \/ Split
  \/ NextBranch
  \/ WaitAtJoin
  \/ PassJoin

Next ==
  \/ StartInstance
  \/ \E c \in Clients : \/ \E r \in Requests : SendRequest(c, r)
                         \/ PerformAction(c)
                         \/ RefuseRequest(c)
  \/ Activation
  \/ Commit
  \/ TooDeep
  \/ Crash

Spec == Init /\ [][Next]_vars

\* The statements of a transaction run one after the other until it commits
\* or throws.
FairSpec ==
  /\ Spec
  /\ WF_vars(Activation \/ Commit \/ TooDeep)

-----------------------------------------------------------------------------
(* Properties *)

TypeOK ==
  /\ graph \in Graphs
  /\ context \in SUBSET Conds
  /\ db \in Image
  /\ img \in Image
  /\ tx \in [owner : Clients \union {Starter, Nobody},
             stack : Seq(Entry)]
  /\ pending \in [Clients -> Requests \union {NoRequest}]

\* Every open task of the committed instance refers to an active token at the
\* task's own node, which is a human task.  Then the conflict "Workflow token
\* is no longer active." (lines 718-720) is never what a person runs into:
\* no join, end or other branch consumes the token a task waits with.
TokensOfOpenTasks(i) ==
  \A k \in OpenTasks(i) :
    /\ i.tokens[i.tasks[k].token] = i.tasks[k].node
    /\ graph.type[i.tasks[k].node] = "HUMAN_TASK"

OpenTaskHasItsToken == TokensOfOpenTasks(db)

\* createHumanTask's look-up keeps one open task per node, whichever branches
\* and transactions reach the node: nobody is asked for the same step twice
\* at the same time.
OneTaskAtEachNode(i) ==
  \A h, k \in OpenTasks(i) : i.tasks[h].node = i.tasks[k].node => h = k

OneOpenTaskPerNode == OneTaskAtEachNode(db)

\* A completed instance is over: no token is active and no task is open, even
\* when an end node was reached while other branches were being activated.
ClosedMeansQuiet ==
  db.status = "completed" => /\ ActiveTokens(db) = {}
                             /\ OpenTasks(db) = {}

\* The action rows and the tasks tell the same story: each completed task has
\* exactly one action row and each row a completed task, and no idempotency
\* key is on two rows, however often and by whomever the request was sent.
LogIsExact(i) ==
  /\ Served(i) = {k \in TaskIds : i.tasks[k].status = "completed"}
  /\ \A m, n \in DOMAIN i.log :
       m # n => /\ i.log[m].task # i.log[n].task
                /\ i.log[m].key = i.log[n].key => i.log[m].key = NoKey

EachTaskActedOnOnce == LogIsExact(db)

\* The one active token of an instance is where the instance row says it is:
\* screens that show the current step show the step people work on.  Only
\* startInstance, which recomputes nothing, may leave the row at a split or a
\* join: the last branch it looked at ended there without a token.
CurrentIsTheTokens(i) ==
  \A t \in TokenIds : ActiveTokens(i) = {t} => i.current = i.tokens[t]

LastBranchVanished(i) ==
  \E n \in Nodes : /\ graph.type[n] \in {"PARALLEL_SPLIT", "PARALLEL_JOIN"}
                   /\ i.current = n

CurrentNodeIsTheTokens ==
  CurrentIsTheTokens(db) \/ (db.log = <<>> /\ LastBranchVanished(db))

\* A section of the graph where work is split among human tasks and waits for
\* all of them at a join: it is entered by one token, from nodes before the
\* split that make no second one, and nothing leads back into it.
Targets(n) == {graph.out[n][i].to : i \in DOMAIN graph.out[n]}
Branches(s) == Targets(s.split)
After(s) == Nodes \ (s.before \union {s.split, s.join} \union Branches(s))

WaitsForAll(s) ==
  \/ graph.strategy[s.join] = "ALL"
  \/ /\ graph.strategy[s.join] = "QUORUM"
     /\ graph.quorum[s.join] # NoQuorum =>
          graph.quorum[s.join] >= Cardinality(Branches(s))

ForkJoin(s) ==
  /\ graph.start \in s.before
  /\ \A n \in s.before :
       /\ graph.type[n] \notin {"PARALLEL_SPLIT", "PARALLEL_JOIN"}
       /\ Targets(n) \subseteq s.before \union {s.split}
  /\ graph.type[s.split] = "PARALLEL_SPLIT"
  /\ \A h, i \in DOMAIN graph.out[s.split] :
       graph.out[s.split][h].to = graph.out[s.split][i].to => h = i
  /\ \A n \in Branches(s) : /\ n \notin s.before
                            /\ graph.type[n] = "HUMAN_TASK"
                            /\ Targets(n) = {s.join}
  /\ graph.type[s.join] = "PARALLEL_JOIN"
  /\ WaitsForAll(s)
  /\ \A n \in After(s) \union {s.join} : Targets(n) \subseteq After(s)

\* A step behind such a join is opened only after every branch was acted on, in
\* any order, by any mix of retried requests, and whichever branches the
\* conditions of the split leave out.
JoinWaitsForItsBranches ==
  \A s \in Sections :
    ForkJoin(s) =>
      \A k \in TaskIds :
        db.tasks[k].status # "none" /\ db.tasks[k].node \in After(s) =>
          Branches(s) \subseteq {db.tasks[h].node : h \in Served(db)}

\* Nodes where one token stays one token and finds a way on.
AlwaysGoesOn(n) == \E i \in DOMAIN graph.out[n] : graph.out[n][i].cond = NoCond

OneAtATime(N) ==
  \A n \in N :
    /\ graph.type[n] \notin {"PARALLEL_SPLIT", "PARALLEL_JOIN"}
    /\ graph.type[n] \in {"START", "SERVICE_TASK", "CONDITION"} => AlwaysGoesOn(n)

\* A section that takes all its branches, and whose join waits for as many
\* tokens as there are branches: with "ALL" it counts transitions, so that each
\* branch may have only one.
TakesAll(s) ==
  /\ ForkJoin(s)
  /\ OneAtATime(s.before \union After(s))
  /\ Branches(s) # {}
  /\ \A i \in DOMAIN graph.out[s.split] : graph.out[s.split][i].cond = NoCond
  /\ IF graph.strategy[s.join] = "ALL" \/ graph.quorum[s.join] = NoQuorum
       THEN \A n \in Branches(s) : Len(graph.out[n]) = 1
       ELSE graph.quorum[s.join] <= Cardinality(Branches(s))
  /\ AlwaysGoesOn(s.join)

Balanced == OneAtATime(Nodes) \/ \E s \in Sections : TakesAll(s)

\* An instance that is not closed has a task somebody can act on.
NobodyIsStuck ==
  db.status \in {"running", "blocked"} => OpenTasks(db) # {}

\* It does not hold of every graph the validation accepts: a condition node
\* whose conditions are all false, a join that waits for a branch that was not
\* taken or counts one twice, and two tokens at one human task each leave a
\* token nobody can move.  On these graphs nobody is stuck, whatever callers do
\* at the same time.
BalancedNeverSticks == Balanced => NobodyIsStuck

\* A transaction comes to an end, also when the graph loops through automatic
\* nodes: the lock on the instance is given back.
TransactionEnds == (tx.owner # Nobody) ~> (tx.owner = Nobody)

\* The engine implements the life cycle: what is committed is one start, then
\* one served task after the other, and nothing after the instance is closed.
Lifecycle ==
  INSTANCE WorkflowLifecycle WITH
    phase  <- CASE db.status = "none" -> "none"
                [] db.status = "completed" -> "closed"
                [] OTHER -> "open",
    todo   <- OpenTasks(db),
    served <- Served(db)

ImplementsLifecycle == Lifecycle!Spec
=============================================================================
