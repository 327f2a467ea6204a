------------------------ MODULE WorkflowEngineProofs ------------------------
(***************************************************************************)
(* Proofs about WorkflowEngine, for every set of graphs, users, callers,   *)
(* tokens and tasks and every depth limit.                                 *)
(***************************************************************************)
EXTENDS WorkflowEngine, SequenceTheorems, FiniteSetTheorems,
        NaturalsInduction, WellFoundedInduction, TLAPS

\* Elements of sequences, as the provers need them.
LEMMA ElementType ==
  ASSUME NEW S, NEW s \in Seq(S)
  PROVE  /\ DOMAIN s = 1 .. Len(s)
         /\ Len(s) \in Nat
         /\ \A i \in DOMAIN s : s[i] \in S
         /\ s # <<>> => /\ s[1] \in S
                        /\ Tail(s) \in Seq(S)
<1>1. /\ DOMAIN s = 1 .. Len(s)
      /\ Len(s) \in Nat
      /\ \A i \in DOMAIN s : s[i] \in S
  BY LenProperties, ElementOfSeq
<1>2. s # <<>> => s[1] \in S
  BY <1>1, EmptySeq
<1>3. s # <<>> => Tail(s) \in Seq(S)
  BY HeadTailProperties
<1>4. QED
  BY <1>1, <1>2, <1>3

\* The graphs, opened up once.
LEMMA GraphFacts ==
  ASSUME NEW g \in Graphs
  PROVE  /\ g.start \in Nodes
         /\ g.type[g.start] = "START"
         /\ \A n \in Nodes : /\ g.type[n] \in NodeType
                             /\ g.resolve[n] \in SUBSET (SUBSET Users)
                             /\ \A i \in DOMAIN g.out[n] : g.out[n][i].to \in Nodes
<1>1. /\ g \in Graph
      /\ g.type[g.start] = "START"
  BY GraphAssumption
<1>2. \A n \in Nodes : g.out[n] \in Seq(Transition)
  BY <1>1 DEF Graph
<1>3. \A n \in Nodes : \A i \in DOMAIN g.out[n] : g.out[n][i] \in Transition
  BY <1>2, ElementType
<1>4. QED
  BY <1>1, <1>3 DEF Graph, Transition

\* Recomputing the status keeps the image's type and everything but the two
\* fields of the instance row.
LEMMA RefreshFacts ==
  ASSUME NEW i \in Image
  PROVE  /\ Refresh(i) \in Image
         /\ Refresh(i).tokens = i.tokens
         /\ Refresh(i).tasks = i.tasks
         /\ Refresh(i).log = i.log
         /\ Refresh(i).status # "none"
         /\ Refresh(i).status = "completed" <=> ActiveTokens(i) = {}
  <1>1. CASE ActiveTokens(i) = {}
    BY <1>1 DEF Refresh, Image
  <1>2. CASE ActiveTokens(i) # {}
    <2>1. ASSUME NEW t \in TokenIds, ActiveTokens(i) = {t}
          PROVE  i.tokens[CHOOSE u \in TokenIds : ActiveTokens(i) = {u}] \in Nodes
      BY <2>1 DEF ActiveTokens
    <2>2. QED
      BY <1>2, <2>1 DEF Refresh, Image
  <1>3. QED
    BY <1>1, <1>2

\* What serving an open task makes of an image.
LEMMA ActedOnFacts ==
  ASSUME NEW i \in Image, NEW k \in TaskIds, Open(i, k), NEW key \in Keys \union {NoKey}
  PROVE  LET j == ActedOn(i, k, key) IN
         /\ j \in Image
         /\ j.status = i.status
         /\ j.tasks = [i.tasks EXCEPT ![k] = [i.tasks[k] EXCEPT !.status = "completed"]]
         /\ j.tokens = [i.tokens EXCEPT ![i.tasks[k].token] = Consumed]
         /\ j.log = Append(i.log, [task |-> k, key |-> key])
<1> DEFINE done == [i.tasks[k] EXCEPT !.status = "completed"]
           row == [task |-> k, key |-> key]
           Row == [task : TaskIds, key : Keys \union {NoKey}]
<1>1. done \in Task
  BY DEF Image, Task, TaskStatus, Open
<1>2. row \in Row
  OBVIOUS
<1>3. ActedOn(i, k, key) =
        [i EXCEPT !.tasks = [i.tasks EXCEPT ![k] = done],
                  !.tokens = [i.tokens EXCEPT ![i.tasks[k].token] = Consumed],
                  !.log = Append(i.log, row)]
  BY DEF ActedOn
<1>4. i.log \in Seq(Row)
  BY DEF Image
<1> HIDE DEF done, row, Row
<1>5. Append(i.log, row) \in Seq(Row)
  BY <1>2, <1>4
<1>6. [i.tasks EXCEPT ![k] = done] \in [TaskIds -> Task]
  BY <1>1 DEF Image
<1>7. [i.tokens EXCEPT ![i.tasks[k].token] = Consumed]
        \in [TokenIds -> Nodes \union {Unused, Consumed}]
  BY DEF Image
<1>8. QED
  BY <1>3, <1>5, <1>6, <1>7 DEF Image, done, row, Row

LEMMA AbsentIsImage == Absent \in Image
  BY DEF Absent, Image, Task, TaskStatus

-----------------------------------------------------------------------------
(* Type correctness *)

\* What an activation does to the stack keeps its type.
LEMMA ContinueType ==
  ASSUME TypeOK, tx.stack # <<>>, NEW s \in Seq(Entry), Continue(s)
  PROVE  tx' \in [owner : Clients \union {Starter, Nobody}, stack : Seq(Entry)]
  <1>1. Tail(tx.stack) \in Seq(Entry)
    BY ElementType DEF TypeOK
  <1>2. s \o Tail(tx.stack) \in Seq(Entry)
    BY <1>1, ConcatProperties
  <1>3. QED
    BY <1>2 DEF Continue, Rest, TypeOK

LEMMA HeadType ==
  ASSUME TypeOK, tx.stack # <<>>
  PROVE  /\ Head1 \in Entry
         /\ Head1.node \in Nodes
         /\ Head1.depth \in Nat
         /\ Head1.next \in Nat
         /\ Here \in Image
         /\ Here.tokens = img.tokens
         /\ Here.tasks = img.tasks
         /\ Here.log = img.log
         /\ Here.status = "running"
  <1>1. Head1 \in Entry
    BY ElementType DEF TypeOK, Head1
  <1>2. QED
    BY <1>1 DEF Here, TypeOK, Image, Entry

LEMMA SelectedType ==
  ASSUME TypeOK, NEW n \in Nodes, NEW tr \in Selected(n, context)
  PROVE  tr.to \in Nodes
  BY GraphFacts DEF TypeOK, Selected

LEMMA ArrivalType ==
  ASSUME NEW n \in Nodes, NEW d \in Nat
  PROVE  <<Arrival(n, d)>> \in Seq(Entry)
  BY DEF Arrival, Entry

\* The type invariant is kept by every step.
LEMMA TypeStep == TypeOK /\ [Next]_vars => TypeOK'
<1> SUFFICES ASSUME TypeOK, [Next]_vars
             PROVE  TypeOK'
  OBVIOUS
<1> DEFINE TxType == [owner : Clients \union {Starter, Nobody}, stack : Seq(Entry)]
<1>0. /\ TypeOK <=> /\ graph \in Graphs
                    /\ context \in SUBSET Conds
                    /\ db \in Image
                    /\ img \in Image
                    /\ tx \in TxType
                    /\ pending \in [Clients -> Requests \union {NoRequest}]
      /\ TypeOK' <=> /\ graph' \in Graphs
                     /\ context' \in SUBSET Conds
                     /\ db' \in Image
                     /\ img' \in Image
                     /\ tx' \in TxType
                     /\ pending' \in [Clients -> Requests \union {NoRequest}]
  BY DEF TypeOK
<1> HIDE DEF TxType
<1>i. Idle \in TxType
  BY DEF Idle, TxType
<1>r. Release => /\ tx' \in TxType
                 /\ pending' \in [Clients -> Requests \union {NoRequest}]
  BY <1>0, <1>i DEF Release
<1>1. CASE StartInstance
  <2>1. img' \in Image
    BY <1>0, <1>1, GraphFacts DEF StartInstance, Image
  <2>2. tx' \in TxType
    BY <1>0, <1>1, GraphFacts, ArrivalType DEF StartInstance, TxType
  <2>3. QED
    BY <1>0, <1>1, <2>1, <2>2 DEF StartInstance
<1>2. ASSUME NEW c \in Clients, NEW r \in Requests, SendRequest(c, r)
      PROVE  TypeOK'
  BY <1>0, <1>2 DEF SendRequest
<1>3. ASSUME NEW c \in Clients, PerformAction(c)
      PROVE  TypeOK'
  <2> DEFINE r == pending[c]
  <2>1. r \in Request
    BY <1>0, <1>3, RequestAssumption DEF PerformAction
  <2>2. PICK k \in Chosen(r) : \E i \in DOMAIN graph.out[db.tasks[k].node] :
          /\ img' = ActedOn(db, k, r.key)
          /\ tx' = [owner |-> c,
                    stack |-> <<Arrival(graph.out[db.tasks[k].node][i].to, 1)>>]
          /\ db.tasks[k].token \in ActiveTokens(db)
    BY <1>3 DEF PerformAction
  <2>3. k \in TaskIds /\ Open(db, k)
    BY <2>2 DEF Chosen, Eligible, OpenTasks
  <2>4. db.tasks[k].node \in Nodes
    BY <1>0, <2>3 DEF Image, Task, Open
  <2>5. img' \in Image
    <3>1. r.key \in Keys \union {NoKey}
      BY <2>1 DEF Request
    <3>2. img' = ActedOn(db, k, r.key)
      BY <2>2
    <3>3. QED
      BY <1>0, <2>3, <3>1, <3>2, ActedOnFacts
  <2>6. \A i \in DOMAIN graph.out[db.tasks[k].node] :
          graph.out[db.tasks[k].node][i].to \in Nodes
    BY <1>0, <2>4, GraphFacts
  <2>7. tx' \in TxType
    <3>1. PICK i \in DOMAIN graph.out[db.tasks[k].node] :
            tx' = [owner |-> c,
                   stack |-> <<Arrival(graph.out[db.tasks[k].node][i].to, 1)>>]
      BY <2>2
    <3>2. <<Arrival(graph.out[db.tasks[k].node][i].to, 1)>> \in Seq(Entry)
      BY <2>6, ArrivalType
    <3>3. QED
      BY <3>1, <3>2 DEF TxType
  <2>8. QED
    BY <1>0, <1>3, <2>5, <2>7 DEF PerformAction
<1>4. ASSUME NEW c \in Clients, RefuseRequest(c)
      PROVE  TypeOK'
  BY <1>0, <1>4 DEF RefuseRequest
<1>5. ASSUME NEW who \in SUBSET Users, CreateHumanTask(who)
      PROVE  TypeOK'
  <2>1. /\ FreeToken \in TokenIds
        /\ FreeTask \in TaskIds
    BY <1>5 DEF CreateHumanTask, HasFreeToken, HasFreeTask, FreeToken, FreeTask
  <2>2. tx.stack # <<>>
    BY <1>5 DEF CreateHumanTask, Arrives
  <2>3. Len(img.log) \in Nat
    BY <1>0 DEF Image
  <2>4. img' \in Image
    <3> HIDE DEF TxType
    <3>1. Head1.node \in Nodes
      BY <2>2, HeadType DEF Entry
    <3> DEFINE task == [status |-> IF who = {} THEN "blocked" ELSE "pending",
                        node |-> Head1.node, token |-> FreeToken, who |-> who,
                        since |-> Len(img.log)]
    <3>2. task \in Task
      BY <2>1, <2>3, <3>1 DEF Task, TaskStatus
    <3>3. img' = [Here EXCEPT !.tokens[FreeToken] = Head1.node,
                             !.tasks[FreeTask] = task,
                             !.status = IF who = {} THEN "blocked" ELSE @]
      BY <1>5 DEF CreateHumanTask
    <3> HIDE DEF task
    <3>4. QED
      BY <2>1, <2>2, <3>1, <3>2, <3>3, HeadType DEF Image
  <2>5. tx' \in TxType
    BY <1>5, <2>2, EmptySeq, ContinueType DEF CreateHumanTask, TxType
  <2>6. QED
    BY <1>0, <1>5, <2>4, <2>5 DEF CreateHumanTask, Arrives
<1>6. CASE JoinOpenTask
  <2>1. FreeToken \in TokenIds
    BY <1>6 DEF JoinOpenTask, HasFreeToken, FreeToken
  <2>2. tx.stack # <<>>
    BY <1>6 DEF JoinOpenTask, Arrives
  <2>3. img' \in Image
    BY <1>6, <2>1, <2>2, HeadType DEF JoinOpenTask, Image, Entry
  <2>4. tx' \in TxType
    BY <1>6, <2>2, EmptySeq, ContinueType DEF JoinOpenTask, TxType
  <2>5. QED
    BY <1>0, <1>6, <2>3, <2>4 DEF JoinOpenTask, Arrives
<1>7. CASE ReachEnd
  <2>1. tx.stack # <<>>
    BY <1>7 DEF ReachEnd, Arrives
  <2>2. img' \in Image
    BY <1>7, <2>1, HeadType, RefreshFacts DEF ReachEnd
  <2>3. tx' \in TxType
    BY <1>7, <2>1, EmptySeq, ContinueType DEF ReachEnd, TxType
  <2>4. QED
    BY <1>0, <1>7, <2>2, <2>3 DEF ReachEnd, Arrives
<1>8. CASE PassOn
  <2>1. tx.stack # <<>>
    BY <1>8 DEF PassOn, Arrives
  <2>2. PICK tr \in Selected(Head1.node, context) :
          /\ img' = Here
          /\ Continue(<<Arrival(tr.to, Head1.depth + 2)>>)
    BY <1>8 DEF PassOn
  <2>3. <<Arrival(tr.to, Head1.depth + 2)>> \in Seq(Entry)
    BY <2>1, <2>2, HeadType, SelectedType, ArrivalType
  <2>4. tx' \in TxType
    BY <2>1, <2>2, <2>3, EmptySeq, ContinueType DEF TxType
  <2>5. QED
    BY <1>0, <1>8, <2>1, <2>2, <2>4, HeadType DEF PassOn, Arrives
<1>9. CASE DeadEnd
  <2>1. FreeToken \in TokenIds
    BY <1>9 DEF DeadEnd, HasFreeToken, FreeToken
  <2>2. tx.stack # <<>>
    BY <1>9 DEF DeadEnd, Arrives
  <2>3. img' \in Image
    BY <1>9, <2>1, <2>2, HeadType DEF DeadEnd, Image, Entry
  <2>4. tx' \in TxType
    BY <1>9, <2>2, EmptySeq, ContinueType DEF DeadEnd, TxType
  <2>5. QED
    BY <1>0, <1>9, <2>3, <2>4 DEF DeadEnd, Arrives
<1>10. CASE Split
  <2>1. tx.stack # <<>>
    BY <1>10 DEF Split, Arrives
  <2>2. <<[Head1 EXCEPT !.next = 1]>> \in Seq(Entry)
    BY <2>1, HeadType DEF Entry
  <2>3. tx' \in TxType
    BY <1>10, <2>1, <2>2, EmptySeq, ContinueType DEF Split, TxType
  <2>4. QED
    BY <1>0, <1>10, <2>1, <2>3, HeadType DEF Split, Arrives
<1>11. CASE NextBranch
  <2> DEFINE n == Head1.node
             i == Head1.next
             s == (IF Holds(graph.out[n][i], context)
                     THEN <<Arrival(graph.out[n][i].to, Head1.depth + 1)>>
                     ELSE <<>>) \o <<[Head1 EXCEPT !.next = i + 1]>>
  <2>1. tx.stack # <<>>
    BY <1>11 DEF NextBranch
  <2>2. Head1 \in Entry
    BY <2>1, HeadType
  <2>3. tx' \in TxType
    <3>1. CASE i \in DOMAIN graph.out[n]
      <4>1. graph.out[n][i].to \in Nodes
        BY <1>0, <2>1, <3>1, HeadType, GraphFacts
      <4>2. <<Arrival(graph.out[n][i].to, Head1.depth + 1)>> \in Seq(Entry)
        BY <2>1, <4>1, HeadType, ArrivalType
      <4>3. <<[Head1 EXCEPT !.next = i + 1]>> \in Seq(Entry)
        BY <2>2 DEF Entry
      <4>4. s \in Seq(Entry)
        BY <4>2, <4>3, ConcatProperties, EmptySeq
      <4>5. Continue(s)
        BY <1>11, <3>1 DEF NextBranch
      <4>6. QED
        BY <2>1, <4>4, <4>5, EmptySeq, ContinueType DEF TxType
    <3>2. CASE i \notin DOMAIN graph.out[n]
      BY <1>11, <2>1, <3>2, EmptySeq, ContinueType DEF NextBranch, TxType
    <3>3. QED
      BY <3>1, <3>2
  <2>4. QED
    BY <1>0, <1>11, <2>3 DEF NextBranch
<1>12. CASE WaitAtJoin
  <2>1. FreeToken \in TokenIds
    BY <1>12 DEF WaitAtJoin, HasFreeToken, FreeToken
  <2>2. tx.stack # <<>>
    BY <1>12 DEF WaitAtJoin, Arrives
  <2>3. img' \in Image
    BY <1>12, <2>1, <2>2, HeadType DEF WaitAtJoin, Image, Entry
  <2>4. tx' \in TxType
    BY <1>12, <2>2, EmptySeq, ContinueType DEF WaitAtJoin, TxType
  <2>5. QED
    BY <1>0, <1>12, <2>3, <2>4 DEF WaitAtJoin, Arrives
<1>13. CASE PassJoin
  <2> DEFINE joined == [Here EXCEPT !.tokens =
                          [t \in TokenIds |->
                             IF t \in TokensAt(img, Head1.node) THEN Consumed ELSE @[t]]]
  <2>1. tx.stack # <<>>
    BY <1>13 DEF PassJoin, Arrives
  <2>2. joined \in Image
    BY <2>1, HeadType DEF Image
  <2>3. \/ img' = [joined EXCEPT !.status = "blocked"] /\ Continue(<<>>)
        \/ \E tr \in Selected(Head1.node, context) :
             /\ img' = joined
             /\ Continue(<<Arrival(tr.to, Head1.depth + 1)>>)
    BY <1>13 DEF PassJoin
  <2> HIDE DEF joined
  <2>4. img' \in Image
    BY <2>2, <2>3 DEF Image
  <2>5. tx' \in TxType
    <3>1. CASE Continue(<<>>)
      BY <2>1, <3>1, EmptySeq, ContinueType DEF TxType
    <3>2. ASSUME NEW tr \in Selected(Head1.node, context),
                 Continue(<<Arrival(tr.to, Head1.depth + 1)>>)
          PROVE  tx' \in TxType
      <4>1. <<Arrival(tr.to, Head1.depth + 1)>> \in Seq(Entry)
        BY <2>1, HeadType, SelectedType, ArrivalType
      <4>2. QED
        BY <2>1, <3>2, <4>1, EmptySeq, ContinueType DEF TxType
    <3>3. QED
      BY <2>3, <3>1, <3>2
  <2>6. QED
    BY <1>0, <1>13, <2>4, <2>5 DEF PassJoin, Arrives
<1>14. CASE Commit
  BY <1>0, <1>14, <1>r, RefreshFacts DEF Commit
<1>15. CASE TooDeep
  BY <1>0, <1>15, <1>r DEF TooDeep, Rollback
<1>16. CASE Crash
  BY <1>0, <1>16, <1>r DEF Crash, Rollback
<1>17. CASE UNCHANGED vars
  BY <1>0, <1>17 DEF vars
<1>18. QED
  BY <1>1, <1>2, <1>3, <1>4, <1>5, <1>6, <1>7, <1>8, <1>9, <1>10, <1>11, <1>12,
     <1>13, <1>14, <1>15, <1>16, <1>17 DEF Next, Activation

\* Every reachable state is well-typed.
THEOREM TypeCorrect == Spec => []TypeOK
<1>1. Init => TypeOK
  BY AbsentIsImage DEF Init, TypeOK, Idle
<1>2. QED
  BY <1>1, TypeStep, PTL DEF Spec

-----------------------------------------------------------------------------
(* Safety: the inductive invariant *)

\* What holds of every image of an instance, committed or not.  The first
\* two parts need each other: a token is consumed at its node, and one task
\* per node makes sure that no other task waits with that token.
ImageInv(i) ==
  /\ TokensOfOpenTasks(i)
  /\ OneTaskAtEachNode(i)
  /\ LogIsExact(i)
  /\ i.status = "completed" => ActiveTokens(i) = {}

IInv ==
  /\ TypeOK
  /\ ImageInv(db)
  /\ ImageInv(img)

LEMMA AbsentInv == ImageInv(Absent)
  BY DEF ImageInv, Absent, TokensOfOpenTasks, OneTaskAtEachNode, LogIsExact, OpenTasks,
         Open, Served

\* An image with the same tasks and action rows, whose tokens at human tasks
\* are where they were.
LEMMA SameTasks ==
  ASSUME NEW i \in Image, NEW j \in Image, ImageInv(i),
         j.tasks = i.tasks, j.log = i.log,
         \A t \in TokenIds : /\ i.tokens[t] \in Nodes
                             /\ graph.type[i.tokens[t]] = "HUMAN_TASK"
                             => j.tokens[t] = i.tokens[t]
  PROVE  TokensOfOpenTasks(j) /\ OneTaskAtEachNode(j) /\ LogIsExact(j)
<1>1. OpenTasks(j) = OpenTasks(i)
  BY DEF OpenTasks, Open
<1>2. TokensOfOpenTasks(j)
  <2> SUFFICES ASSUME NEW k \in OpenTasks(i)
               PROVE  /\ j.tokens[i.tasks[k].token] = i.tasks[k].node
                      /\ graph.type[i.tasks[k].node] = "HUMAN_TASK"
    BY <1>1 DEF TokensOfOpenTasks
  <2>1. /\ i.tasks[k].token \in TokenIds
        /\ i.tasks[k].node \in Nodes
    BY DEF OpenTasks, Open, Image, Task
  <2>2. /\ i.tokens[i.tasks[k].token] = i.tasks[k].node
        /\ graph.type[i.tasks[k].node] = "HUMAN_TASK"
    BY DEF ImageInv, TokensOfOpenTasks
  <2>3. QED
    BY <2>1, <2>2
<1>3. OneTaskAtEachNode(j)
  BY <1>1 DEF ImageInv, OneTaskAtEachNode
<1>4. LogIsExact(j)
  BY DEF ImageInv, LogIsExact, Served
<1>5. QED
  BY <1>2, <1>3, <1>4

\* A free token put somewhere disturbs no task.
LEMMA FreeTokenFacts ==
  ASSUME TypeOK, HasFreeToken
  PROVE  /\ FreeToken \in TokenIds
         /\ img.tokens[FreeToken] = Unused
         /\ img.tokens[FreeToken] \notin Nodes
  BY NullAssumption DEF HasFreeToken, FreeToken

LEMMA FreeTaskFacts ==
  ASSUME TypeOK, HasFreeTask
  PROVE  /\ FreeTask \in TaskIds
         /\ img.tasks[FreeTask].status = "none"
  BY DEF HasFreeTask, FreeTask

\* Serving a task keeps the invariant of images.
LEMMA ActedOnInv ==
  ASSUME NEW i \in Image, ImageInv(i), NEW k \in TaskIds, Open(i, k),
         NEW key \in Keys \union {NoKey}, key \notin KeysUsed(i),
         i.status # "completed"
  PROVE  ImageInv(ActedOn(i, k, key))
<1> DEFINE j == ActedOn(i, k, key)
<1>0. /\ j \in Image
      /\ j.status = i.status
      /\ j.tasks = [i.tasks EXCEPT ![k] = [i.tasks[k] EXCEPT !.status = "completed"]]
      /\ j.tokens = [i.tokens EXCEPT ![i.tasks[k].token] = Consumed]
      /\ j.log = Append(i.log, [task |-> k, key |-> key])
  BY ActedOnFacts
<1> HIDE DEF j
<1>1. OpenTasks(j) = OpenTasks(i) \ {k}
  BY <1>0 DEF OpenTasks, Open, Image
<1>2. \A h \in OpenTasks(j) : j.tasks[h] = i.tasks[h]
  BY <1>0, <1>1 DEF Image, OpenTasks
<1>3. TokensOfOpenTasks(j)
  <2> SUFFICES ASSUME NEW h \in OpenTasks(j)
               PROVE  /\ j.tokens[j.tasks[h].token] = j.tasks[h].node
                      /\ graph.type[j.tasks[h].node] = "HUMAN_TASK"
    BY DEF TokensOfOpenTasks
  <2>1. /\ h \in OpenTasks(i) /\ h # k
        /\ k \in OpenTasks(i)
        /\ i.tasks[h].token \in TokenIds
    BY <1>1 DEF OpenTasks, Open, Image, Task
  <2>2. i.tasks[h].token # i.tasks[k].token
    BY <2>1 DEF ImageInv, TokensOfOpenTasks, OneTaskAtEachNode
  <2>3. QED
    BY <1>0, <1>2, <2>1, <2>2 DEF ImageInv, TokensOfOpenTasks, Image
<1>4. OneTaskAtEachNode(j)
  BY <1>1, <1>2 DEF ImageInv, OneTaskAtEachNode
<1>5. LogIsExact(j)
  <2> DEFINE row == [task |-> k, key |-> key]
             n == Len(i.log)
             Row == [task : TaskIds, key : Keys \union {NoKey}]
  <2>0. i.log \in Seq(Row) /\ row \in Row /\ j.log = Append(i.log, row)
    BY <1>0 DEF Image
  <2>1. /\ n \in Nat
        /\ DOMAIN i.log = 1 .. n
        /\ DOMAIN j.log = 1 .. n + 1
        /\ \A m \in 1 .. n : j.log[m] = i.log[m]
        /\ j.log[n + 1] = row
        /\ \A m \in 1 .. n : i.log[m] \in Row
    <3> HIDE DEF row, Row
    <3>1. Append(i.log, row) \in Seq(Row)
      BY <2>0, AppendProperties
    <3>2. /\ n \in Nat
          /\ DOMAIN i.log = 1 .. n
          /\ \A m \in 1 .. n : i.log[m] \in Row
      BY <2>0, ElementType
    <3>3. /\ Len(j.log) = n + 1
          /\ \A m \in 1 .. n : j.log[m] = i.log[m]
          /\ j.log[n + 1] = row
      BY <2>0, <3>2, AppendProperties
    <3>4. DOMAIN j.log = 1 .. n + 1
      BY <2>0, <3>1, <3>3, ElementType
    <3>5. QED
      BY <3>2, <3>3, <3>4
  <2>2. Served(j) = Served(i) \union {k}
    BY <2>1 DEF Served
  <2>3. {h \in TaskIds : j.tasks[h].status = "completed"}
          = {h \in TaskIds : i.tasks[h].status = "completed"} \union {k}
    BY <1>0 DEF Image, Task
  <2>4. k \notin Served(i)
    BY DEF ImageInv, LogIsExact, Open
  <2>5. \A m \in 1 .. n : i.log[m].task # k
    BY <2>1, <2>4 DEF Served
  <2>6. \A m \in 1 .. n : i.log[m].key = key => key = NoKey
    BY <2>1 DEF KeysUsed
  <2>7. ASSUME NEW a \in 1 .. n + 1, NEW b \in 1 .. n + 1, a # b
        PROVE  /\ j.log[a].task # j.log[b].task
               /\ j.log[a].key = j.log[b].key => j.log[a].key = NoKey
    <3>1. CASE a \in 1 .. n /\ b \in 1 .. n
      BY <2>1, <2>7, <3>1 DEF ImageInv, LogIsExact
    <3>2. CASE a = n + 1 /\ b \in 1 .. n
      BY <2>1, <2>5, <2>6, <3>2
    <3>3. CASE b = n + 1 /\ a \in 1 .. n
      BY <2>1, <2>5, <2>6, <3>3
    <3>4. QED
      BY <2>1, <2>7, <3>1, <3>2, <3>3
  <2>8. QED
    BY <2>1, <2>2, <2>3, <2>7 DEF LogIsExact, ImageInv
<1>6. QED
  BY <1>0, <1>3, <1>4, <1>5 DEF ImageInv, j

\* The graph never changes, so the invariant may be shown of the next images.
LEMMA PrimeInv ==
  ASSUME graph' = graph, ImageInv(db'), ImageInv(img')
  PROVE  ImageInv(db)' /\ ImageInv(img)'
  BY DEF ImageInv, TokensOfOpenTasks, OneTaskAtEachNode, LogIsExact, OpenTasks, Open,
         Served, ActiveTokens

LEMMA RefreshInv ==
  ASSUME TypeOK, NEW i \in Image, TokensOfOpenTasks(i), OneTaskAtEachNode(i), LogIsExact(i)
  PROVE  ImageInv(Refresh(i))
<1>1. /\ Refresh(i).tokens = i.tokens
      /\ Refresh(i).tasks = i.tasks
      /\ Refresh(i).log = i.log
      /\ Refresh(i).status = "completed" <=> ActiveTokens(i) = {}
  BY RefreshFacts
<1>2. QED
  BY <1>1 DEF ImageInv, TokensOfOpenTasks, OneTaskAtEachNode, LogIsExact, OpenTasks, Open,
              Served, ActiveTokens

\* Every step keeps the invariant of both images.
LEMMA InvStep == IInv /\ [Next]_vars => IInv'
<1> SUFFICES ASSUME IInv, [Next]_vars
             PROVE  IInv'
  OBVIOUS
<1>t. TypeOK /\ TypeOK'
  BY TypeStep DEF IInv
<1>i. /\ db \in Image /\ img \in Image /\ db' \in Image /\ img' \in Image
      /\ ImageInv(db) /\ ImageInv(img)
  BY <1>t DEF TypeOK, IInv
<1> SUFFICES graph' = graph /\ ImageInv(db') /\ ImageInv(img')
  BY <1>t, PrimeInv DEF IInv
<1> HIDE DEF IInv
\* Activations that create no task and whose image is Here up to tokens that
\* wait at no human task.
<1>k. ASSUME tx.stack # <<>>, img'.tasks = img.tasks, img'.log = img.log,
             img'.status # "completed",
             \A t \in TokenIds : /\ img.tokens[t] \in Nodes
                                 /\ graph.type[img.tokens[t]] = "HUMAN_TASK"
                                 => img'.tokens[t] = img.tokens[t]
      PROVE  ImageInv(img')
  <2>1. TokensOfOpenTasks(img') /\ OneTaskAtEachNode(img') /\ LogIsExact(img')
    BY <1>i, <1>k, SameTasks
  <2>2. QED
    BY <1>k, <2>1 DEF ImageInv
<1>1. CASE StartInstance
  <2>1. /\ img'.tasks = db.tasks /\ img'.log = db.log /\ img'.tokens = db.tokens
        /\ img'.status = "running"
    BY <1>1, <1>i DEF StartInstance, Image
  <2>2. TokensOfOpenTasks(img') /\ OneTaskAtEachNode(img') /\ LogIsExact(img')
    BY <1>i, <2>1, SameTasks
  <2>3. QED
    BY <1>1, <1>i, <2>1, <2>2 DEF StartInstance, ImageInv
<1>2. ASSUME NEW c \in Clients, NEW r \in Requests, SendRequest(c, r)
      PROVE  graph' = graph /\ ImageInv(db') /\ ImageInv(img')
  BY <1>2, <1>i DEF SendRequest
<1>3. ASSUME NEW c \in Clients, PerformAction(c)
      PROVE  graph' = graph /\ ImageInv(db') /\ ImageInv(img')
  <2> DEFINE r == pending[c]
  <2>1. r.key \in Keys \union {NoKey}
    BY <1>3, <1>t, RequestAssumption DEF PerformAction, TypeOK, Request
  <2>2. PICK k \in Chosen(r) : img' = ActedOn(db, k, r.key)
    BY <1>3 DEF PerformAction
  <2>3. k \in TaskIds /\ Open(db, k)
    BY <2>2 DEF Chosen, Eligible, OpenTasks
  <2>4. r.key \notin KeysUsed(db) /\ db.status # "completed"
    BY <1>3 DEF PerformAction
  <2>5. ImageInv(img')
    BY <1>i, <2>1, <2>2, <2>3, <2>4, ActedOnInv
  <2>6. QED
    BY <1>3, <1>i, <2>5 DEF PerformAction
<1>4. ASSUME NEW c \in Clients, RefuseRequest(c)
      PROVE  graph' = graph /\ ImageInv(db') /\ ImageInv(img')
  BY <1>4, <1>i DEF RefuseRequest
<1>5. ASSUME NEW who \in SUBSET Users, CreateHumanTask(who)
      PROVE  graph' = graph /\ ImageInv(db') /\ ImageInv(img')
  <2> DEFINE n == Head1.node
             new == [status |-> IF who = {} THEN "blocked" ELSE "pending",
                     node |-> n, token |-> FreeToken, who |-> who,
                     since |-> Len(img.log)]
  <2>1. /\ tx.stack # <<>>
        /\ graph' = graph /\ db' = db
        /\ graph.type[n] = "HUMAN_TASK"
        /\ ~HasOpenTask(img, n)
        /\ HasFreeToken /\ HasFreeTask
    BY <1>5 DEF CreateHumanTask, Arrives
  <2>2. /\ img'.tokens = [img.tokens EXCEPT ![FreeToken] = n]
        /\ img'.tasks = [img.tasks EXCEPT ![FreeTask] = new]
        /\ img'.log = img.log
        /\ img'.status # "completed"
    BY <1>t, <1>5, <2>1, HeadType DEF CreateHumanTask, Image
  <2>3. /\ new.status \in {"pending", "blocked"}
        /\ new.node = n /\ new.token = FreeToken
    OBVIOUS
  <2> HIDE DEF new
  <2>4. OpenTasks(img') = OpenTasks(img) \union {FreeTask}
    BY <1>t, <1>i, <2>1, <2>2, <2>3, FreeTaskFacts DEF OpenTasks, Open, Image
  <2>5. \A k \in OpenTasks(img) : k # FreeTask /\ img'.tasks[k] = img.tasks[k]
    BY <1>t, <1>i, <2>1, <2>2, FreeTaskFacts DEF OpenTasks, Open, Image
  <2>6. img'.tasks[FreeTask] = new
    BY <1>t, <1>i, <2>1, <2>2, FreeTaskFacts DEF Image
  <2>7. TokensOfOpenTasks(img')
    <3> SUFFICES ASSUME NEW k \in OpenTasks(img')
                 PROVE  /\ img'.tokens[img'.tasks[k].token] = img'.tasks[k].node
                        /\ graph.type[img'.tasks[k].node] = "HUMAN_TASK"
      BY DEF TokensOfOpenTasks
    <3>1. CASE k = FreeTask
      BY <1>t, <1>i, <2>1, <2>2, <2>3, <2>6, <3>1, FreeTokenFacts DEF Image
    <3>2. CASE k \in OpenTasks(img)
      <4>1. /\ img.tasks[k].token \in TokenIds
            /\ img.tasks[k].node \in Nodes
        BY <1>i, <3>2 DEF Image, Task, OpenTasks, Open
      <4>2. /\ img.tokens[img.tasks[k].token] = img.tasks[k].node
            /\ graph.type[img.tasks[k].node] = "HUMAN_TASK"
        BY <1>i, <3>2 DEF ImageInv, TokensOfOpenTasks
      <4>3. img.tasks[k].token # FreeToken
        BY <1>t, <2>1, <4>1, <4>2, FreeTokenFacts
      <4>4. QED
        BY <1>i, <2>2, <2>5, <3>2, <4>1, <4>2, <4>3 DEF Image
    <3>3. QED
      BY <2>4, <3>1, <3>2
  <2>8. OneTaskAtEachNode(img')
    <3>1. \A k \in OpenTasks(img) : img.tasks[k].node # n
      BY <2>1 DEF HasOpenTask
    <3>2. QED
      BY <1>i, <2>3, <2>4, <2>5, <2>6, <3>1 DEF OneTaskAtEachNode, ImageInv
  <2>9. LogIsExact(img')
    <3>1. Served(img') = Served(img)
      BY <2>2 DEF Served
    <3>2. \A k \in TaskIds :
            img'.tasks[k].status = "completed" <=> img.tasks[k].status = "completed"
      BY <1>t, <1>i, <2>1, <2>2, <2>3, FreeTaskFacts DEF Image
    <3>3. QED
      BY <1>i, <2>2, <3>1, <3>2 DEF LogIsExact, ImageInv
  <2>10. QED
    BY <1>i, <2>1, <2>2, <2>7, <2>8, <2>9 DEF ImageInv
<1>6. CASE JoinOpenTask
  <2>1. /\ tx.stack # <<>> /\ HasFreeToken
        /\ graph' = graph /\ db' = db
    BY <1>6 DEF JoinOpenTask, Arrives
  <2>2. img' = [Here EXCEPT !.tokens[FreeToken] = Head1.node]
    BY <1>6 DEF JoinOpenTask
  <2>3. QED
    BY <1>t, <1>i, <1>k, <2>1, <2>2, HeadType, FreeTokenFacts DEF Image
<1>7. CASE ReachEnd
  <2>1. /\ tx.stack # <<>>
        /\ graph' = graph /\ db' = db
        /\ img' = Refresh(Here)
    BY <1>7 DEF ReachEnd, Arrives
  <2>2. TokensOfOpenTasks(Here) /\ OneTaskAtEachNode(Here) /\ LogIsExact(Here)
    BY <1>t, <1>i, <2>1, HeadType, SameTasks
  <2>3. QED
    BY <1>t, <1>i, <2>1, <2>2, HeadType, RefreshInv
<1>8. CASE PassOn
  <2>1. /\ tx.stack # <<>>
        /\ graph' = graph /\ db' = db /\ img' = Here
    BY <1>8 DEF PassOn, Arrives
  <2>2. QED
    BY <1>t, <1>i, <1>k, <2>1, HeadType
<1>9. CASE DeadEnd
  <2>1. /\ tx.stack # <<>> /\ HasFreeToken
        /\ graph' = graph /\ db' = db
    BY <1>9 DEF DeadEnd, Arrives
  <2>2. img' = [Here EXCEPT !.status = "blocked", !.tokens[FreeToken] = Head1.node]
    BY <1>9 DEF DeadEnd
  <2>3. QED
    BY <1>t, <1>i, <1>k, <2>1, <2>2, HeadType, FreeTokenFacts DEF Image
<1>10. CASE Split
  <2>1. /\ tx.stack # <<>>
        /\ graph' = graph /\ db' = db /\ img' = Here
    BY <1>10 DEF Split, Arrives
  <2>2. QED
    BY <1>t, <1>i, <1>k, <2>1, HeadType
<1>11. CASE NextBranch
  BY <1>11, <1>i DEF NextBranch
<1>12. CASE WaitAtJoin
  <2>1. /\ tx.stack # <<>> /\ HasFreeToken
        /\ graph' = graph /\ db' = db
    BY <1>12 DEF WaitAtJoin, Arrives
  <2>2. img' = [Here EXCEPT !.tokens[FreeToken] = Head1.node]
    BY <1>12 DEF WaitAtJoin
  <2>3. QED
    BY <1>t, <1>i, <1>k, <2>1, <2>2, HeadType, FreeTokenFacts DEF Image
<1>13. CASE PassJoin
  <2> DEFINE n == Head1.node
             left == [t \in TokenIds |->
                        IF t \in TokensAt(img, n) THEN Consumed ELSE img.tokens[t]]
             joined == [Here EXCEPT !.tokens = left]
  <2>1. /\ tx.stack # <<>>
        /\ graph' = graph /\ db' = db
        /\ graph.type[n] = "PARALLEL_JOIN"
    BY <1>13 DEF PassJoin, Arrives
  <2>2. img' = joined \/ img' = [joined EXCEPT !.status = "blocked"]
    BY <1>t, <1>13, <2>1, HeadType DEF PassJoin
  <2>3. /\ joined.tasks = img.tasks
        /\ joined.log = img.log
        /\ joined.tokens = left
        /\ joined.status = "running"
        /\ joined \in Image
    BY <1>t, <1>i, <2>1, HeadType DEF Image
  <2> HIDE DEF joined
  <2>4. /\ img'.tasks = img.tasks
        /\ img'.log = img.log
        /\ img'.tokens = left
        /\ img'.status # "completed"
    BY <2>2, <2>3 DEF Image
  <2>5. \A t \in TokenIds : /\ img.tokens[t] \in Nodes
                            /\ graph.type[img.tokens[t]] = "HUMAN_TASK"
                            => img'.tokens[t] = img.tokens[t]
    BY <2>1, <2>4 DEF TokensAt
  <2>6. QED
    BY <1>i, <1>k, <2>1, <2>4, <2>5
<1>14. CASE Commit
  <2>1. ImageInv(img')
    BY <1>t, <1>i, <1>14, RefreshInv DEF Commit, ImageInv
  <2>2. QED
    BY <1>14, <2>1 DEF Commit
<1>15. CASE TooDeep
  BY <1>15, <1>i DEF TooDeep, Rollback
<1>16. CASE Crash
  BY <1>16, <1>i DEF Crash, Rollback
<1>17. CASE UNCHANGED vars
  BY <1>17, <1>i DEF vars
<1>18. QED
  BY <1>1, <1>2, <1>3, <1>4, <1>5, <1>6, <1>7, <1>8, <1>9, <1>10, <1>11, <1>12,
     <1>13, <1>14, <1>15, <1>16, <1>17 DEF Next, Activation

LEMMA InvAlways == Spec => []IInv
<1>1. Init => IInv
  BY AbsentIsImage, AbsentInv DEF Init, IInv, TypeOK, Idle
<1>2. QED
  BY <1>1, InvStep, PTL DEF Spec

\* No step of the engine, and no interleaving of requests, consumes the token
\* an open task waits with (the conflict of lines 718-720 is unreachable).
THEOREM OpenTasksKeepTheirTokens == Spec => []OpenTaskHasItsToken
<1>1. IInv => OpenTaskHasItsToken
  BY DEF IInv, ImageInv, OpenTaskHasItsToken
<1>2. QED
  BY <1>1, InvAlways, PTL

\* A node never has two open tasks.
THEOREM NodesHaveOneOpenTask == Spec => []OneOpenTaskPerNode
<1>1. IInv => OneOpenTaskPerNode
  BY DEF IInv, ImageInv, OneOpenTaskPerNode
<1>2. QED
  BY <1>1, InvAlways, PTL

\* A completed instance has no active token and no open task.
THEOREM ClosedInstancesAreQuiet == Spec => []ClosedMeansQuiet
<1>1. ASSUME IInv, db.status = "completed"
      PROVE  ActiveTokens(db) = {} /\ OpenTasks(db) = {}
  <2>1. ActiveTokens(db) = {}
    BY <1>1 DEF IInv, ImageInv
  <2>2. ASSUME NEW k \in OpenTasks(db)
        PROVE  FALSE
    <3>1. /\ db.tasks[k].token \in TokenIds
          /\ db.tasks[k].node \in Nodes
      BY <1>1, <2>2 DEF IInv, TypeOK, Image, Task, OpenTasks, Open
    <3>2. db.tokens[db.tasks[k].token] = db.tasks[k].node
      BY <1>1, <2>2 DEF IInv, ImageInv, TokensOfOpenTasks
    <3>3. QED
      BY <2>1, <3>1, <3>2 DEF ActiveTokens
  <2>3. QED
    BY <2>1, <2>2
<1>2. IInv => ClosedMeansQuiet
  BY <1>1 DEF ClosedMeansQuiet
<1>3. QED
  BY <1>2, InvAlways, PTL

\* Tasks and action rows correspond one to one, and an idempotency key is on
\* one row at most.
THEOREM TasksAreActedOnOnce == Spec => []EachTaskActedOnOnce
<1>1. IInv => EachTaskActedOnOnce
  BY DEF IInv, ImageInv, EachTaskActedOnOnce
<1>2. QED
  BY <1>1, InvAlways, PTL

-----------------------------------------------------------------------------
(* Refinement: the engine implements the life cycle *)

\* What the open transaction has made of the committed instance: a start, or
\* one served task, and otherwise only new open tasks.
StartedFrom(old, new) ==
  /\ old.status = "none"
  /\ new.status # "none"
  /\ new.log = <<>>

ServedFrom(old, new) ==
  /\ old.status \in {"running", "blocked"}
  /\ new.status # "none"
  /\ \E k \in OpenTasks(old) : /\ Served(new) = Served(old) \union {k}
                               /\ OpenTasks(old) \ {k} \subseteq OpenTasks(new)

TxInv ==
  /\ db.status = "none" => db.log = <<>>
  /\ tx.owner = Starter => StartedFrom(db, img)
  /\ tx.owner \in Clients => ServedFrom(db, img)

\* An activation adds open tasks and writes no action row of a person.
LEMMA ActivationFacts ==
  ASSUME TypeOK, Activation
  PROVE  /\ db' = db
         /\ tx'.owner = tx.owner
         /\ img'.log = img.log
         /\ OpenTasks(img) \subseteq OpenTasks(img')
         /\ tx.stack # <<>>
         /\ img'.status # "none" \/ img' = img
<1>0. tx.stack # <<>> /\ db' = db /\ tx'.owner = tx.owner
  BY DEF Activation, CreateHumanTask, JoinOpenTask, ReachEnd, PassOn, DeadEnd, Split,
         NextBranch, WaitAtJoin, PassJoin, Arrives, Continue, TypeOK
<1>h. /\ Here \in Image /\ Here.tokens = img.tokens /\ Here.tasks = img.tasks
      /\ Here.log = img.log /\ Here.status = "running" /\ img \in Image
  BY <1>0, HeadType DEF TypeOK
<1>k. ASSUME img'.tasks = img.tasks
      PROVE  OpenTasks(img) \subseteq OpenTasks(img')
  BY <1>k DEF OpenTasks, Open
<1>1. ASSUME NEW who \in SUBSET Users, CreateHumanTask(who)
      PROVE  /\ img'.log = img.log /\ img'.status # "none"
             /\ OpenTasks(img) \subseteq OpenTasks(img')
  <2> DEFINE new == [status |-> IF who = {} THEN "blocked" ELSE "pending",
                     node |-> Head1.node, token |-> FreeToken, who |-> who,
                     since |-> Len(img.log)]
  <2>1. /\ img'.log = img.log /\ img'.status # "none"
        /\ img'.tasks = [img.tasks EXCEPT ![FreeTask] = new]
    BY <1>1, <1>h DEF CreateHumanTask, Image
  <2>2. HasFreeTask
    BY <1>1 DEF CreateHumanTask
  <2> HIDE DEF new
  <2>3. QED
    BY <1>h, <2>1, <2>2, FreeTaskFacts DEF OpenTasks, Open, Image
<1>2. CASE JoinOpenTask
  BY <1>2, <1>0, <1>h, <1>k DEF JoinOpenTask, Image
<1>3. CASE ReachEnd
  BY <1>3, <1>0, <1>h, <1>k, RefreshFacts DEF ReachEnd
<1>4. CASE PassOn
  BY <1>4, <1>0, <1>h, <1>k DEF PassOn
<1>5. CASE DeadEnd
  BY <1>5, <1>0, <1>h, <1>k DEF DeadEnd, Image
<1>6. CASE Split
  BY <1>6, <1>0, <1>h, <1>k DEF Split
<1>7. CASE NextBranch
  BY <1>7, <1>0, <1>k DEF NextBranch
<1>8. CASE WaitAtJoin
  BY <1>8, <1>0, <1>h, <1>k DEF WaitAtJoin, Image
<1>9. CASE PassJoin
  <2>1. /\ img'.tasks = img.tasks /\ img'.log = img.log /\ img'.status # "none"
    BY <1>9, <1>h DEF PassJoin, Image
  <2>2. QED
    BY <1>0, <1>k, <2>1
<1>10. QED
  BY <1>0, <1>1, <1>2, <1>3, <1>4, <1>5, <1>6, <1>7, <1>8, <1>9 DEF Activation

LEMMA TxInvStep == IInv /\ TxInv /\ [Next]_vars => TxInv'
<1> SUFFICES ASSUME IInv, TxInv, [Next]_vars
             PROVE  TxInv'
  OBVIOUS
<1>t. TypeOK /\ db \in Image /\ img \in Image
  BY DEF IInv, TypeOK
<1>a. Starter \notin Clients /\ Nobody \notin Clients /\ Starter # Nobody
  BY NullAssumption
<1>b. ASSUME tx'.owner = Nobody, db'.status = "none" => db'.log = <<>>
      PROVE  TxInv'
  BY <1>a, <1>b DEF TxInv
<1>c. ASSUME db' = db, img' = img, tx' = tx
      PROVE  TxInv'
  <2>1. StartedFrom(db, img)' <=> StartedFrom(db, img)
    BY <1>c DEF StartedFrom
  <2>2. /\ OpenTasks(db)' = OpenTasks(db) /\ OpenTasks(img)' = OpenTasks(img)
        /\ Served(db)' = Served(db) /\ Served(img)' = Served(img)
    BY <1>c DEF OpenTasks, Open, Served
  <2>3. ServedFrom(db, img)' <=> ServedFrom(db, img)
    BY <1>c, <2>2 DEF ServedFrom
  <2>4. QED
    BY <1>c, <2>1, <2>3 DEF TxInv
<1>1. CASE StartInstance
  <2>1. img'.status = "running" /\ img'.log = db.log /\ tx'.owner = Starter
        /\ db' = db /\ db.status = "none"
    BY <1>1, <1>t DEF StartInstance, Image
  <2>2. QED
    BY <1>a, <2>1 DEF TxInv, StartedFrom
<1>2. ASSUME NEW c \in Clients, NEW r \in Requests, SendRequest(c, r)
      PROVE  TxInv'
  BY <1>2, <1>c DEF SendRequest
<1>3. ASSUME NEW c \in Clients, PerformAction(c)
      PROVE  TxInv'
  <2> DEFINE r == pending[c]
  <2>1. r.key \in Keys \union {NoKey}
    BY <1>3, <1>t, RequestAssumption DEF PerformAction, TypeOK, Request
  <2>2. PICK k \in Chosen(r) : img' = ActedOn(db, k, r.key)
    BY <1>3 DEF PerformAction
  <2>3. k \in TaskIds /\ Open(db, k)
    BY <2>2 DEF Chosen, Eligible, OpenTasks
  <2>4. /\ img'.status = db.status
        /\ img'.tasks = [db.tasks EXCEPT ![k] = [db.tasks[k] EXCEPT !.status = "completed"]]
        /\ img'.log = Append(db.log, [task |-> k, key |-> r.key])
    <3> DEFINE key == r.key
               j == ActedOn(db, k, key)
    <3>1. key \in Keys \union {NoKey} /\ img' = j
      BY <2>1, <2>2
    <3> HIDE DEF key
    <3>2. /\ j.status = db.status
          /\ j.tasks = [db.tasks EXCEPT ![k] = [db.tasks[k] EXCEPT !.status = "completed"]]
          /\ j.log = Append(db.log, [task |-> k, key |-> key])
      <4>1. db \in Image /\ k \in TaskIds /\ Open(db, k)
        BY <1>t, <2>3
      <4>2. QED
        BY <3>1, <4>1, ActedOnFacts, ZenonT(60)
    <3> HIDE DEF j
    <3>3. QED
      BY <3>1, <3>2 DEF key
  <2>5. Served(img') = Served(db) \union {k}
    <3> DEFINE row == [task |-> k, key |-> r.key]
               Row == [task : TaskIds, key : Keys \union {NoKey}]
    <3>1. row \in Row /\ row.task = k
      BY <2>1, <2>3
    <3>2. db.log \in Seq(Row) /\ img'.log = Append(db.log, row)
      BY <1>t, <2>4 DEF Image
    <3> HIDE DEF row, Row
    <3>3. Append(db.log, row) \in Seq(Row)
      BY <3>1, <3>2, AppendProperties
    <3>4. /\ Len(db.log) \in Nat /\ DOMAIN db.log = 1 .. Len(db.log)
          /\ DOMAIN img'.log = 1 .. Len(db.log) + 1
      BY <3>1, <3>2, <3>3, ElementType, AppendProperties
    <3>5. /\ \A m \in 1 .. Len(db.log) : img'.log[m] = db.log[m]
          /\ img'.log[Len(db.log) + 1] = row
      BY <3>1, <3>2, <3>4, AppendProperties
    <3>6. ASSUME NEW m \in 1 .. Len(db.log)
          PROVE  m \in DOMAIN img'.log /\ img'.log[m].task = db.log[m].task
      BY <3>4, <3>5
    <3>7. /\ Len(db.log) + 1 \in DOMAIN img'.log
          /\ img'.log[Len(db.log) + 1].task = k
      BY <3>1, <3>4, <3>5
    <3>8. \A m \in DOMAIN img'.log : m \in 1 .. Len(db.log) \/ m = Len(db.log) + 1
      BY <3>4
    <3>9. QED
      BY <3>4, <3>6, <3>7, <3>8 DEF Served
  <2>6. OpenTasks(db) \ {k} \subseteq OpenTasks(img')
    BY <1>t, <2>4 DEF OpenTasks, Open, Image
  <2>7. ServedFrom(db, img')
    BY <1>3, <2>3, <2>4, <2>5, <2>6 DEF PerformAction, ServedFrom, OpenTasks
  <2>8. ServedFrom(db, img)'
    <3>1. db' = db
      BY <1>3 DEF PerformAction
    <3>2. /\ OpenTasks(db)' = OpenTasks(db) /\ OpenTasks(img)' = OpenTasks(img')
          /\ Served(db)' = Served(db) /\ Served(img)' = Served(img')
      BY <3>1 DEF OpenTasks, Open, Served
    <3>3. QED
      BY <2>7, <3>1, <3>2 DEF ServedFrom
  <2>9. QED
    BY <1>3, <1>a, <2>8 DEF PerformAction, TxInv
<1>4. ASSUME NEW c \in Clients, RefuseRequest(c)
      PROVE  TxInv'
  BY <1>4, <1>c DEF RefuseRequest
<1>5. CASE Activation
  <2>1. /\ db' = db /\ tx'.owner = tx.owner /\ img'.log = img.log
        /\ OpenTasks(img) \subseteq OpenTasks(img')
        /\ img'.status # "none" \/ img' = img
    BY <1>t, <1>5, ActivationFacts
  <2>2. Served(img') = Served(img)
    BY <2>1 DEF Served
  <2>3. ASSUME tx.owner = Starter
        PROVE  StartedFrom(db, img)'
    BY <2>1, <2>3 DEF TxInv, StartedFrom
  <2>4. ASSUME tx.owner \in Clients
        PROVE  ServedFrom(db, img)'
    <3>1. ServedFrom(db, img')
      BY <2>1, <2>2, <2>4 DEF TxInv, ServedFrom
    <3>2. QED
      BY <2>1, <3>1 DEF ServedFrom, OpenTasks, Open, Served
  <2>5. QED
    BY <2>1, <2>3, <2>4 DEF TxInv
<1>6. CASE Commit
  <2>1. tx'.owner = Nobody /\ db'.status # "none"
    <3>1. CASE tx.owner = Starter
      BY <1>6, <1>t, <3>1 DEF Commit, Release, Idle, TxInv, StartedFrom
    <3>2. CASE tx.owner # Starter
      BY <1>6, <1>t, <3>2, RefreshFacts DEF Commit, Release, Idle
    <3>3. QED
      BY <3>1, <3>2
  <2>2. QED
    BY <1>b, <2>1
<1>7. CASE TooDeep
  BY <1>7, <1>b DEF TooDeep, Rollback, Release, Idle, TxInv
<1>8. CASE Crash
  BY <1>8, <1>b DEF Crash, Rollback, Release, Idle, TxInv
<1>9. CASE UNCHANGED vars
  BY <1>9, <1>c DEF vars
<1>10. QED
  BY <1>1, <1>2, <1>3, <1>4, <1>5, <1>6, <1>7, <1>8, <1>9 DEF Next

LEMMA TxInvAlways == Spec => []TxInv
<1>1. Init => TxInv
  BY NullAssumption DEF Init, TxInv, Absent, Idle
<1>2. QED
  BY <1>1, TxInvStep, InvAlways, PTL DEF Spec

\* Initial states map to initial states.
LEMMA LifecycleInit == Init => Lifecycle!Init
  BY DEF Init, Lifecycle!Init, Absent, OpenTasks, Open, Served

\* A commit of startInstance is a start, a commit of performAction serves one
\* task, every other step is a stutter.
LEMMA LifecycleStep ==
  IInv /\ IInv' /\ TxInv /\ [Next]_vars => [Lifecycle!Next]_(Lifecycle!vars)
<1> SUFFICES ASSUME IInv, IInv', TxInv, [Next]_vars
             PROVE  [Lifecycle!Next]_(Lifecycle!vars)
  OBVIOUS
<1> DEFINE phase(i) == CASE i.status = "none" -> "none"
                         [] i.status = "completed" -> "closed"
                         [] OTHER -> "open"
<1>t. TypeOK /\ TypeOK' /\ db \in Image /\ img \in Image /\ db' \in Image
  BY DEF IInv, TypeOK
<1>s. ASSUME db' = db
      PROVE  UNCHANGED Lifecycle!vars
  BY <1>s DEF Lifecycle!vars, OpenTasks, Open, Served
<1>1. CASE db' = db
  BY <1>1, <1>s
<1>2. CASE Commit
  <2>1. phase(db') = "closed" => OpenTasks(db') = {}
    <3>1. ASSUME db'.status = "completed", NEW k \in OpenTasks(db')
          PROVE  FALSE
      <4>1. /\ db'.tasks[k].token \in TokenIds
            /\ db'.tasks[k].node \in Nodes
        BY <1>t, <3>1 DEF Image, Task, OpenTasks, Open
      <4>2. /\ db'.tokens[db'.tasks[k].token] = db'.tasks[k].node
            /\ ActiveTokens(db') = {}
        BY <3>1 DEF IInv, ImageInv, TokensOfOpenTasks, ActiveTokens, OpenTasks, Open
      <4>3. QED
        BY <4>1, <4>2 DEF ActiveTokens
    <3>2. QED
      BY <3>1
  <2>2. OpenTasks(db') \intersect Served(db') = {}
    BY DEF IInv, ImageInv, LogIsExact, OpenTasks, Open, Served
  <2>3. /\ OpenTasks(db') \subseteq TaskIds
        /\ OpenTasks(db)' = OpenTasks(db')
        /\ Served(db)' = Served(db')
    BY DEF OpenTasks, Open, Served
  <2>4. CASE tx.owner = Starter
    <3>1. db' = img
      BY <1>2, <2>4 DEF Commit
    <3>2. db.status = "none" /\ db'.status # "none" /\ Served(db') = {}
      BY <2>4, <3>1 DEF TxInv, StartedFrom, Served
    <3>3. Lifecycle!Start
      BY <2>1, <2>3, <3>2 DEF Lifecycle!Start, Lifecycle!Settle
    <3>4. QED
      BY <3>3 DEF Lifecycle!Next
  <2>5. CASE tx.owner \in Clients
    <3>1. db' = Refresh(img)
      BY <1>2, <2>5, NullAssumption DEF Commit
    <3>2. /\ db'.status # "none"
          /\ OpenTasks(db') = OpenTasks(img)
          /\ Served(db') = Served(img)
      BY <1>t, <3>1, RefreshFacts DEF OpenTasks, Open, Served
    <3>3. PICK k \in OpenTasks(db) : /\ Served(db') = Served(db) \union {k}
                                    /\ OpenTasks(db) \ {k} \subseteq OpenTasks(db')
      BY <2>5, <3>2 DEF TxInv, ServedFrom
    <3>4. db.status \in {"running", "blocked"}
      BY <2>5 DEF TxInv, ServedFrom
    <3>5. k \in TaskIds
      BY DEF OpenTasks
    <3>6. Lifecycle!Serve(k)
      BY <2>1, <2>2, <2>3, <3>2, <3>3, <3>4, <3>5 DEF Lifecycle!Serve, Lifecycle!Settle
    <3>7. QED
      BY <3>5, <3>6 DEF Lifecycle!Next
  <2>6. QED
    BY <1>2, <1>t, <2>4, <2>5 DEF Commit, TypeOK
<1>3. CASE ~Commit /\ db' # db
  BY <1>3 DEF Next, vars, StartInstance, SendRequest, PerformAction, RefuseRequest,
              Activation, CreateHumanTask, JoinOpenTask, ReachEnd, PassOn, DeadEnd, Split,
              NextBranch, WaitAtJoin, PassJoin, Arrives, TooDeep, Crash, Rollback
<1>4. QED
  BY <1>1, <1>2, <1>3

\* What other parts of the backend see of an instance is a run of the life
\* cycle: started once, one task served at a time and each once, no change
\* after the end, and no trace of a transaction that was rolled back.
THEOREM EngineImplementsLifecycle == Spec => ImplementsLifecycle
  BY TxInvAlways, LifecycleInit, LifecycleStep, InvAlways, PTL
  DEF Spec, ImplementsLifecycle, Lifecycle!Spec

-----------------------------------------------------------------------------
(* The current node of the instance row *)

\* Between the start and its commit the row may be wrong while an activation
\* is still to begin.  Each one that ends sets it right, or ends at a split or
\* a join.
StartInv ==
  tx.owner = Starter /\ (tx.stack = <<>> \/ Head1.next > 0) =>
    CurrentIsTheTokens(img) \/ LastBranchVanished(img)

CurrentInv == CurrentNodeIsTheTokens /\ StartInv

\* With its status an instance gets the place of its only token.
LEMMA RefreshCurrent ==
  ASSUME NEW i \in Image
  PROVE  CurrentIsTheTokens(Refresh(i))
<1> SUFFICES ASSUME NEW t \in TokenIds, ActiveTokens(Refresh(i)) = {t}
             PROVE  Refresh(i).current = Refresh(i).tokens[t]
  BY DEF CurrentIsTheTokens
<1>1. Refresh(i).tokens = i.tokens /\ ActiveTokens(i) = {t}
  BY RefreshFacts DEF ActiveTokens
<1>2. (CHOOSE u \in TokenIds : ActiveTokens(i) = {u}) = t
  BY <1>1
<1>3. ActiveTokens(i) # {} /\ \E u \in TokenIds : ActiveTokens(i) = {u}
  BY <1>1
<1>4. Refresh(i).current = i.tokens[CHOOSE u \in TokenIds : ActiveTokens(i) = {u}]
  BY <1>3 DEF Refresh, Image
<1>5. QED
  BY <1>1, <1>2, <1>4

\* A token put where the row points is the only one or one of many.
LEMMA NewTokenCurrent ==
  ASSUME TypeOK, HasFreeToken, NEW n \in Nodes, NEW j \in Image,
         j.tokens = [img.tokens EXCEPT ![FreeToken] = n], j.current = n
  PROVE  CurrentIsTheTokens(j)
<1>1. FreeToken \in TokenIds /\ img.tokens \in [TokenIds -> Nodes \union {Unused, Consumed}]
  BY FreeTokenFacts DEF TypeOK, Image
<1>2. j.tokens[FreeToken] = n /\ FreeToken \in ActiveTokens(j)
  BY <1>1 DEF ActiveTokens
<1>3. QED
  BY <1>2 DEF CurrentIsTheTokens

LEMMA CurrentStep ==
  IInv /\ IInv' /\ TxInv /\ CurrentInv /\ [Next]_vars => CurrentInv'
<1> SUFFICES ASSUME IInv, IInv', TxInv, CurrentInv, [Next]_vars
             PROVE  CurrentInv'
  OBVIOUS
<1>t. TypeOK /\ db \in Image /\ img \in Image /\ img' \in Image
  BY DEF IInv, TypeOK
<1>a. Starter \notin Clients /\ Nobody \notin Clients /\ Starter # Nobody
  BY NullAssumption
<1>g. graph' = graph
  BY DEF Next, vars, StartInstance, SendRequest, PerformAction, RefuseRequest, Activation,
         CreateHumanTask, JoinOpenTask, ReachEnd, PassOn, DeadEnd, Split, NextBranch,
         WaitAtJoin, PassJoin, Arrives, Commit, TooDeep, Crash, Rollback
<1>d. ASSUME db' = db, StartInv'
      PROVE  CurrentInv'
  BY <1>d, <1>g DEF CurrentInv, CurrentNodeIsTheTokens, CurrentIsTheTokens,
                    LastBranchVanished, ActiveTokens
<1>s. ASSUME img' = img, tx' = tx
      PROVE  StartInv'
  BY <1>s, <1>g DEF CurrentInv, StartInv, CurrentIsTheTokens, LastBranchVanished,
                    ActiveTokens, Head1
<1>w. ASSUME tx'.owner # Starter
      PROVE  StartInv'
  BY <1>w DEF StartInv
<1>c. ASSUME CurrentIsTheTokens(img')
      PROVE  StartInv'
  BY <1>c DEF StartInv, CurrentIsTheTokens, ActiveTokens
<1>1. CASE StartInstance
  <2>1. db' = db /\ tx' = [owner |-> Starter, stack |-> <<Arrival(graph.start, 0)>>]
    BY <1>1 DEF StartInstance
  <2>2. tx'.stack # <<>> /\ ~(Head1' .next > 0)
    BY <2>1 DEF Arrival, Head1
  <2>3. QED
    BY <1>d, <2>1, <2>2 DEF StartInv
<1>2. ASSUME NEW c \in Clients, NEW r \in Requests, SendRequest(c, r)
      PROVE  CurrentInv'
  BY <1>2, <1>d, <1>s DEF SendRequest
<1>3. ASSUME NEW c \in Clients, PerformAction(c)
      PROVE  CurrentInv'
  BY <1>3, <1>a, <1>d, <1>w DEF PerformAction
<1>4. ASSUME NEW c \in Clients, RefuseRequest(c)
      PROVE  CurrentInv'
  BY <1>4, <1>d, <1>s DEF RefuseRequest
<1>5. CASE Activation
  <2>0. db' = db /\ tx'.owner = tx.owner /\ tx.stack # <<>>
    BY <1>5, <1>t, ActivationFacts
  <2> SUFFICES StartInv'
    BY <1>d, <2>0
  <2>h. /\ Head1.node \in Nodes /\ Here \in Image /\ Here.tokens = img.tokens
        /\ Here.current = Head1.node
    BY <1>t, <2>0, HeadType DEF Here, Image
  <2>p. ASSUME NEW arrival \in Entry, arrival.next = 0, Continue(<<arrival>>)
        PROVE  StartInv'
    <3>1. Rest \in Seq(Entry) /\ tx'.stack = <<arrival>> \o Rest
      BY <1>t, <2>0, <2>p, ElementType DEF TypeOK, Continue, Rest
    <3>2. tx'.stack # <<>> /\ tx'.stack[1] = arrival
      BY <3>1
    <3>3. QED
      BY <2>p, <3>2 DEF StartInv, Head1
  <2>v. ASSUME NEW types, types \subseteq {"PARALLEL_SPLIT", "PARALLEL_JOIN"},
               Arrives(types), img'.current = Head1.node
        PROVE  StartInv'
    <3>1. graph.type[Head1.node] \in {"PARALLEL_SPLIT", "PARALLEL_JOIN"}
      BY <2>v DEF Arrives
    <3>2. LastBranchVanished(img)'
      BY <1>g, <2>h, <2>v, <3>1 DEF LastBranchVanished
    <3>3. QED
      BY <3>2 DEF StartInv
  <2>1. ASSUME NEW who \in SUBSET Users, CreateHumanTask(who)
        PROVE  StartInv'
    <3>1. /\ HasFreeToken /\ img'.current = Head1.node
          /\ img'.tokens = [img.tokens EXCEPT ![FreeToken] = Head1.node]
      BY <2>1, <2>h DEF CreateHumanTask, Image
    <3>2. CurrentIsTheTokens(img')
      BY <1>t, <2>h, <3>1, NewTokenCurrent
    <3>3. QED
      BY <1>c, <3>2
  <2>2. ASSUME JoinOpenTask \/ DeadEnd \/ WaitAtJoin
        PROVE  StartInv'
    <3>1. /\ HasFreeToken /\ img'.current = Head1.node
          /\ img'.tokens = [img.tokens EXCEPT ![FreeToken] = Head1.node]
      BY <2>2, <2>h DEF JoinOpenTask, DeadEnd, WaitAtJoin, Image
    <3>2. CurrentIsTheTokens(img')
      BY <1>t, <2>h, <3>1, NewTokenCurrent
    <3>3. QED
      BY <1>c, <3>2
  <2>3. CASE ReachEnd
    BY <1>c, <2>3, <2>h, RefreshCurrent DEF ReachEnd
  <2>4. CASE PassOn
    <3>1. PICK tr \in Selected(Head1.node, context) :
            Continue(<<Arrival(tr.to, Head1.depth + 2)>>)
      BY <2>4 DEF PassOn
    <3>2. Arrival(tr.to, Head1.depth + 2) \in Entry
      BY <1>t, <2>0, <2>h, HeadType, SelectedType DEF Arrival, Entry
    <3>3. Arrival(tr.to, Head1.depth + 2).next = 0
      BY DEF Arrival
    <3>4. QED
      BY <2>p, <3>1, <3>2, <3>3
  <2>5. CASE Split
    BY <2>5, <2>h, <2>v DEF Split
  <2>6. CASE NextBranch
    <3>1. Head1.next > 0 /\ img' = img
      BY <2>6 DEF NextBranch
    <3>2. tx.owner = Starter => CurrentIsTheTokens(img) \/ LastBranchVanished(img)
      BY <3>1 DEF CurrentInv, StartInv
    <3>3. tx.owner = Starter => (CurrentIsTheTokens(img) \/ LastBranchVanished(img))'
      BY <1>g, <3>1, <3>2 DEF CurrentIsTheTokens, LastBranchVanished, ActiveTokens
    <3>4. QED
      BY <2>0, <3>3 DEF StartInv
  <2>7. CASE PassJoin
    <3>1. Arrives({"PARALLEL_JOIN"}) /\ img'.current = Head1.node
      BY <2>7, <2>h DEF PassJoin, Image
    <3>2. QED
      BY <2>v, <3>1
  <2>8. QED
    BY <1>5, <2>1, <2>2, <2>3, <2>4, <2>5, <2>6, <2>7 DEF Activation
<1>6. CASE Commit
  <2>0. tx'.owner = Nobody
    BY <1>6 DEF Commit, Release, Idle
  <2>1. CASE tx.owner = Starter
    <3>1. tx.stack = <<>> /\ db' = img /\ img.log = <<>>
      BY <1>6, <2>1 DEF Commit, TxInv, StartedFrom
    <3>2. CurrentIsTheTokens(img) \/ LastBranchVanished(img)
      BY <2>1, <3>1 DEF CurrentInv, StartInv
    <3>3. CurrentNodeIsTheTokens'
      BY <1>g, <3>1, <3>2 DEF CurrentNodeIsTheTokens, CurrentIsTheTokens, LastBranchVanished,
                             ActiveTokens
    <3>4. QED
      BY <1>a, <1>w, <2>0, <3>3 DEF CurrentInv
  <2>2. CASE tx.owner # Starter
    <3>1. db' = Refresh(img)
      BY <1>6, <2>2 DEF Commit
    <3>2. CurrentIsTheTokens(db')
      BY <1>t, <3>1, RefreshCurrent
    <3>3. CurrentNodeIsTheTokens'
      BY <3>2 DEF CurrentNodeIsTheTokens, CurrentIsTheTokens, ActiveTokens
    <3>4. QED
      BY <1>a, <1>w, <2>0, <3>3 DEF CurrentInv
  <2>3. QED
    BY <2>1, <2>2
<1>7. CASE TooDeep \/ Crash
  BY <1>7, <1>a, <1>d, <1>w DEF TooDeep, Crash, Rollback, Release, Idle
<1>8. CASE UNCHANGED vars
  BY <1>8, <1>d, <1>s DEF vars
<1>9. QED
  BY <1>1, <1>2, <1>3, <1>4, <1>5, <1>6, <1>7, <1>8 DEF Next

\* For every graph the validation accepts: after each committed action the row
\* of an instance with one active token points to that token, and after the
\* start it does, or points to the split or the join where the last branch
\* ended.
THEOREM CurrentNodeIsKept == Spec => []CurrentNodeIsTheTokens
<1>1. Init => CurrentInv
  BY NullAssumption DEF Init, CurrentInv, CurrentNodeIsTheTokens, CurrentIsTheTokens, StartInv,
                        Absent, ActiveTokens, Idle
<1>2. CurrentInv => CurrentNodeIsTheTokens
  BY DEF CurrentInv
<1>3. QED
  BY <1>1, <1>2, CurrentStep, InvAlways, TxInvAlways, PTL DEF Spec

-----------------------------------------------------------------------------
(* Splitting and joining *)

\* The branches whose task was acted on.
Done(s, i) ==
  {n \in Branches(s) : \E k \in TaskIds : /\ i.tasks[k].status = "completed"
                                         /\ i.tasks[k].node = n}

OneTaskPerBranch(s, i) ==
  \A h, k \in TaskIds :
    /\ i.tasks[h].status # "none" /\ i.tasks[k].status # "none"
    /\ i.tasks[h].node = i.tasks[k].node /\ i.tasks[h].node \in Branches(s)
    => h = k

\* Before the split an instance has one token, or an activation carries it.
Early(s, i, stack) ==
  /\ \A k \in TaskIds : i.tasks[k].status # "none" => i.tasks[k].node \in s.before
  /\ \A t \in ActiveTokens(i) : i.tokens[t] \in s.before
  /\ \A t, u \in ActiveTokens(i) : t = u
  /\ \/ stack = <<>>
     \/ /\ ActiveTokens(i) = {}
        /\ Len(stack) = 1
        /\ stack[1].node \in s.before \union {s.split}
        /\ stack[1].next = 0

\* The branches the split has activated so far have at most a task each, and
\* nobody else has a token.
Fanned(s, i, next) ==
  /\ next > 0
  /\ \A k \in TaskIds :
       i.tasks[k].status # "none" =>
         \/ i.tasks[k].node \in s.before
         \/ \E h \in DOMAIN graph.out[s.split] :
              h < next /\ i.tasks[k].node = graph.out[s.split][h].to
  /\ \A t \in ActiveTokens(i) : i.tokens[t] \in Branches(s)
  /\ OneTaskPerBranch(s, i)

Fanning(s, i, stack) ==
  \/ /\ Len(stack) = 1
     /\ stack[1].node = s.split
     /\ Fanned(s, i, stack[1].next)
  \/ /\ Len(stack) = 2
     /\ stack[1].next = 0
     /\ stack[1].node \in Branches(s)
     /\ stack[2].node = s.split
     /\ Fanned(s, i, stack[2].next)
     /\ stack[2].next - 1 \in DOMAIN graph.out[s.split]
     /\ stack[1].node = graph.out[s.split][stack[2].next - 1].to
     /\ \A k \in TaskIds : i.tasks[k].status # "none" => i.tasks[k].node # stack[1].node

\* After it, the tokens that wait at the join or are on their way come from
\* branches that are done, one from each, and whoever is behind the join got
\* there when all were.
Late(s, i, stack) ==
  /\ \A t \in ActiveTokens(i) : i.tokens[t] \notin s.before
  /\ OneTaskPerBranch(s, i)
  /\ IsFiniteSet(TokensAt(i, s.join))
  /\ Cardinality(TokensAt(i, s.join)) <= Cardinality(Done(s, i))
  /\ \A k \in TaskIds :
       i.tasks[k].status # "none" /\ i.tasks[k].node \in After(s) => Done(s, i) = Branches(s)
  /\ \/ \A n \in 1 .. Len(stack) : stack[n].node \in After(s) /\ Done(s, i) = Branches(s)
     \/ /\ Len(stack) = 1
        /\ stack[1].node = s.join
        /\ stack[1].next = 0
        /\ Cardinality(TokensAt(i, s.join)) + 1 <= Cardinality(Done(s, i))

FlowInv ==
  /\ db.status = "none" => db = Absent
  /\ \A s \in Sections : ForkJoin(s) =>
       /\ Early(s, db, <<>>) \/ Late(s, db, <<>>)
       /\ Early(s, img, tx.stack) \/ Fanning(s, img, tx.stack) \/ Late(s, img, tx.stack)

\* The regions of a section are apart, and its branches finitely many.
LEMMA SectionFacts ==
  ASSUME TypeOK, NEW s \in Sections, ForkJoin(s)
  PROVE  /\ s.before \subseteq Nodes /\ s.split \in Nodes /\ s.join \in Nodes
         /\ Branches(s) \subseteq Nodes /\ IsFiniteSet(Branches(s))
         /\ s.split \notin s.before /\ s.join \notin s.before
         /\ s.split \notin Branches(s) /\ s.join \notin Branches(s)
         /\ s.split # s.join
         /\ DOMAIN graph.out[s.split] = 1 .. Len(graph.out[s.split])
         /\ Len(graph.out[s.split]) \in Nat
<1>1. s.before \subseteq Nodes /\ s.split \in Nodes /\ s.join \in Nodes
  BY SectionAssumption
<1>2. graph \in Graphs /\ graph \in Graph
  BY GraphAssumption DEF TypeOK
<1>3. graph.out[s.split] \in Seq(Transition)
  BY <1>1, <1>2 DEF Graph
<1>4. /\ DOMAIN graph.out[s.split] = 1 .. Len(graph.out[s.split])
      /\ Len(graph.out[s.split]) \in Nat
  BY <1>3, ElementType
<1>5. Branches(s) \subseteq Nodes
  BY <1>1, <1>2, GraphFacts DEF Branches, Targets
<1>6. IsFiniteSet(Branches(s))
  <2> DEFINE D == 1 .. Len(graph.out[s.split])
             f == [i \in D |-> graph.out[s.split][i].to]
  <2>1. IsFiniteSet(D)
    BY <1>4, FS_Interval
  <2>2. Branches(s) = {graph.out[s.split][i].to : i \in D}
    BY <1>4 DEF Branches, Targets
  <2>3. f \in Surjection(D, Branches(s))
    BY <2>2 DEF Surjection
  <2>4. QED
    BY <2>1, <2>3, FS_Surjection
<1>7. /\ s.split \notin s.before /\ s.join \notin s.before
      /\ s.split \notin Branches(s) /\ s.join \notin Branches(s)
      /\ s.split # s.join
  BY DEF ForkJoin
<1>8. QED
  BY <1>1, <1>4, <1>5, <1>6, <1>7

\* Only the branches lead to the join of a section, so that its threshold is
\* at least their number.
LEMMA ThresholdIsHigh ==
  ASSUME TypeOK, NEW s \in Sections, ForkJoin(s)
  PROVE  Threshold(s.join) \in Nat /\ Threshold(s.join) >= Cardinality(Branches(s))
<1> DEFINE B == Branches(s)
           At(m) == {j \in DOMAIN graph.out[m] : graph.out[m][j].to = s.join}
           In(m) == {<<m, i>> : i \in At(m)}
           I == UNION {In(m) : m \in Nodes}
<1>1. B \subseteq Nodes /\ IsFiniteSet(B) /\ s.join \in Nodes
  BY SectionFacts
<1>2. graph \in Graph
  BY GraphAssumption DEF TypeOK
<1>3. ASSUME NEW m \in Nodes, NEW j \in At(m)
      PROVE  m \in B
  <2>1. s.join \in Targets(m)
    BY DEF Targets
  <2>2. m \notin s.before /\ m # s.split /\ m \notin After(s) \union {s.join}
    BY <2>1, SectionFacts DEF ForkJoin, Branches, After
  <2>3. QED
    BY <2>2 DEF After
<1>4. ASSUME NEW m \in B
      PROVE  IsFiniteSet(In(m)) /\ At(m) # {}
  <2>1. graph.out[m] \in Seq(Transition)
    BY <1>1, <1>2 DEF Graph
  <2>2. At(m) \subseteq 1 .. Len(graph.out[m]) /\ Len(graph.out[m]) \in Nat
    BY <2>1, ElementType
  <2>3. IsFiniteSet(At(m))
    BY <2>2, FS_Interval, FS_Subset
  <2>4. [i \in At(m) |-> <<m, i>>] \in Surjection(At(m), In(m))
    BY DEF Surjection
  <2>5. IsFiniteSet(In(m))
    BY <2>3, <2>4, FS_Surjection
  <2>6. At(m) # {}
    BY DEF ForkJoin, Targets
  <2>7. QED
    BY <2>5, <2>6
<1>5. IsFiniteSet(I)
  <2> DEFINE F == {In(m) : m \in B}
  <2>1. [m \in B |-> In(m)] \in Surjection(B, F)
    BY DEF Surjection
  <2>2. IsFiniteSet(F)
    BY <1>1, <2>1, FS_Surjection
  <2>3. \A T \in F : IsFiniteSet(T)
    BY <1>4
  <2>4. IsFiniteSet(UNION F)
    BY <2>2, <2>3, FS_UNION
  <2>5. I \subseteq UNION F
    <3> SUFFICES ASSUME NEW m \in Nodes, NEW e \in In(m)
                 PROVE  e \in UNION F
      OBVIOUS
    <3>1. m \in B
      BY <1>3
    <3>2. QED
      BY <3>1
  <2>6. QED
    BY <2>4, <2>5, FS_Subset
<1>6. Cardinality(I) \in Nat /\ Cardinality(B) \in Nat
  BY <1>1, <1>5, FS_CardinalityType
<1>7. Cardinality(B) <= Cardinality(I)
  <2> DEFINE f == [m \in B |-> <<m, CHOOSE i \in At(m) : TRUE>>]
  <2>1. \A m \in B : f[m] \in In(m)
    BY <1>4
  <2>2. \A m \in B : f[m] \in I
    BY <1>1, <2>1
  <2>3. \A m, n \in B : f[m] = f[n] => m = n
    OBVIOUS
  <2> HIDE DEF I
  <2>4. f \in Injection(B, I)
    BY <2>2, <2>3 DEF Injection, IsInjective
  <2>5. QED
    BY <1>5, <2>4, FS_Injection
<1>8. Incoming(s.join) = Cardinality(I)
  BY DEF Incoming
<1>9. graph.strategy[s.join] \in {"ALL", "ANY", "QUORUM"}
      /\ graph.quorum[s.join] \in Nat \union {NoQuorum}
  BY <1>1, <1>2 DEF Graph
<1> HIDE DEF I, B
<1>10. WaitsForAll(s) /\ B = Branches(s)
  BY DEF ForkJoin, B
<1>11. CASE graph.strategy[s.join] = "ALL"
  <2>1. Threshold(s.join) = Cardinality(I)
    BY <1>8, <1>11 DEF Threshold
  <2>2. QED
    BY <1>6, <1>7, <1>10, <2>1
<1>12. CASE graph.strategy[s.join] = "QUORUM" /\ graph.quorum[s.join] = NoQuorum
  <2>1. Threshold(s.join) = Cardinality(I)
    BY <1>8, <1>12 DEF Threshold
  <2>2. QED
    BY <1>6, <1>7, <1>10, <2>1
<1>13. CASE graph.strategy[s.join] = "QUORUM" /\ graph.quorum[s.join] # NoQuorum
  <2>1. /\ graph.quorum[s.join] \in Nat
        /\ graph.quorum[s.join] >= Cardinality(B)
    BY <1>9, <1>10, <1>13 DEF WaitsForAll
  <2>2. Threshold(s.join) = IF graph.quorum[s.join] > 1 THEN graph.quorum[s.join] ELSE 1
    BY <1>13 DEF Threshold
  <2>3. QED
    BY <1>6, <1>10, <2>1, <2>2
<1>14. QED
  BY <1>10, <1>11, <1>12, <1>13 DEF WaitsForAll

\* The stack after an activation.
LEMMA ContinueStack ==
  ASSUME TypeOK, tx.stack # <<>>, NEW a \in Seq(Entry), Continue(a)
  PROVE  /\ tx'.stack \in Seq(Entry)
         /\ Len(tx.stack) \in Nat \ {0}
         /\ Len(tx'.stack) = Len(a) + Len(tx.stack) - 1
         /\ \A n \in 1 .. Len(a) : tx'.stack[n] = a[n]
         /\ \A n \in Len(a) + 1 .. Len(tx'.stack) :
              /\ n - Len(a) + 1 \in 2 .. Len(tx.stack)
              /\ tx'.stack[n] = tx.stack[n - Len(a) + 1]
<1>1. tx.stack \in Seq(Entry)
  BY DEF TypeOK
<1>2. /\ Tail(tx.stack) \in Seq(Entry)
      /\ Len(tx.stack) \in Nat \ {0} /\ Len(a) \in Nat
      /\ Len(Tail(tx.stack)) = Len(tx.stack) - 1
      /\ \A i \in 1 .. Len(Tail(tx.stack)) : Tail(tx.stack)[i] = tx.stack[i + 1]
  BY <1>1, HeadTailProperties, LenProperties, EmptySeq
<1>3. tx'.stack = a \o Tail(tx.stack)
  BY DEF Continue, Rest, TypeOK
<1>4. /\ tx'.stack \in Seq(Entry)
      /\ Len(tx'.stack) = Len(a) + Len(tx.stack) - 1
      /\ \A n \in 1 .. Len(tx'.stack) :
           tx'.stack[n] = IF n <= Len(a) THEN a[n] ELSE Tail(tx.stack)[n - Len(a)]
  BY <1>2, <1>3, ConcatProperties
<1>5. QED
  BY <1>2, <1>4

\* The same, for no, one or two arrivals.
LEMMA ContinueFacts ==
  ASSUME TypeOK, tx.stack # <<>>
  PROVE  /\ Len(tx.stack) \in Nat \ {0}
         /\ Continue(<<>>) =>
              /\ Len(tx'.stack) = Len(tx.stack) - 1
              /\ \A n \in 1 .. Len(tx'.stack) : n + 1 \in 2 .. Len(tx.stack)
                                                /\ tx'.stack[n] = tx.stack[n + 1]
         /\ \A e \in Entry : Continue(<<e>>) =>
              /\ Len(tx'.stack) = Len(tx.stack)
              /\ tx'.stack[1] = e
              /\ \A n \in 2 .. Len(tx'.stack) : tx'.stack[n] = tx.stack[n]
         /\ \A e, f \in Entry : Continue(<<e, f>>) =>
              /\ Len(tx'.stack) = Len(tx.stack) + 1
              /\ tx'.stack[1] = e
              /\ tx'.stack[2] = f
              /\ \A n \in 3 .. Len(tx'.stack) : n - 1 \in 2 .. Len(tx.stack)
                                                /\ tx'.stack[n] = tx.stack[n - 1]
<1>1. Len(tx.stack) \in Nat \ {0}
  BY LenProperties, EmptySeq DEF TypeOK
<1>2. ASSUME Continue(<<>>)
      PROVE  /\ Len(tx'.stack) = Len(tx.stack) - 1
             /\ \A n \in 1 .. Len(tx'.stack) : n + 1 \in 2 .. Len(tx.stack)
                                               /\ tx'.stack[n] = tx.stack[n + 1]
  <2> DEFINE a == <<>>
  <2>1. a \in Seq(Entry) /\ Len(a) = 0 /\ Continue(a)
    BY <1>2
  <2> HIDE DEF a
  <2>2. /\ tx'.stack \in Seq(Entry)
        /\ Len(tx'.stack) = Len(a) + Len(tx.stack) - 1
        /\ \A n \in 1 .. Len(a) : tx'.stack[n] = a[n]
        /\ \A n \in Len(a) + 1 .. Len(tx'.stack) :
             /\ n - Len(a) + 1 \in 2 .. Len(tx.stack)
             /\ tx'.stack[n] = tx.stack[n - Len(a) + 1]
    BY <2>1, ContinueStack
  <2>3. Len(tx'.stack) = Len(tx.stack) - 1
    BY <1>1, <2>1, <2>2
  <2>4. ASSUME NEW n \in 1 .. Len(tx'.stack)
        PROVE  n + 1 \in 2 .. Len(tx.stack) /\ tx'.stack[n] = tx.stack[n + 1]
    <3>1. n \in Len(a) + 1 .. Len(tx'.stack) /\ n - Len(a) + 1 = n + 1
      BY <1>1, <2>1, <2>3
    <3>2. n - Len(a) + 1 \in 2 .. Len(tx.stack) /\ tx'.stack[n] = tx.stack[n - Len(a) + 1]
      BY <2>2, <3>1
    <3>3. QED
      BY <3>1, <3>2
  <2>5. QED
    BY <2>3, <2>4
<1>3. ASSUME NEW e \in Entry, Continue(<<e>>)
      PROVE  /\ Len(tx'.stack) = Len(tx.stack)
             /\ tx'.stack[1] = e
             /\ \A n \in 2 .. Len(tx'.stack) : tx'.stack[n] = tx.stack[n]
  <2> DEFINE a == <<e>>
  <2>1. a \in Seq(Entry) /\ Len(a) = 1 /\ a[1] = e /\ Continue(a)
    BY <1>3
  <2> HIDE DEF a
  <2>2. /\ tx'.stack \in Seq(Entry)
        /\ Len(tx'.stack) = Len(a) + Len(tx.stack) - 1
        /\ \A n \in 1 .. Len(a) : tx'.stack[n] = a[n]
        /\ \A n \in Len(a) + 1 .. Len(tx'.stack) :
             /\ n - Len(a) + 1 \in 2 .. Len(tx.stack)
             /\ tx'.stack[n] = tx.stack[n - Len(a) + 1]
    BY <2>1, ContinueStack
  <2>3. Len(tx'.stack) = Len(tx.stack) /\ tx'.stack[1] = e
    BY <1>1, <2>1, <2>2
  <2>4. ASSUME NEW n \in 2 .. Len(tx'.stack)
        PROVE  tx'.stack[n] = tx.stack[n]
    <3>1. n \in Len(a) + 1 .. Len(tx'.stack) /\ n - Len(a) + 1 = n
      BY <1>1, <2>1, <2>3
    <3>2. tx'.stack[n] = tx.stack[n - Len(a) + 1]
      BY <2>2, <3>1
    <3>3. QED
      BY <3>1, <3>2
  <2>5. QED
    BY <2>3, <2>4
<1>4. ASSUME NEW e \in Entry, NEW f \in Entry, Continue(<<e, f>>)
      PROVE  /\ Len(tx'.stack) = Len(tx.stack) + 1
             /\ tx'.stack[1] = e
             /\ tx'.stack[2] = f
             /\ \A n \in 3 .. Len(tx'.stack) : n - 1 \in 2 .. Len(tx.stack)
                                               /\ tx'.stack[n] = tx.stack[n - 1]
  <2> DEFINE a == <<e, f>>
  <2>1. a \in Seq(Entry) /\ Len(a) = 2 /\ a[1] = e /\ a[2] = f /\ Continue(a)
    BY <1>4
  <2> HIDE DEF a
  <2>2. /\ tx'.stack \in Seq(Entry)
        /\ Len(tx'.stack) = Len(a) + Len(tx.stack) - 1
        /\ \A n \in 1 .. Len(a) : tx'.stack[n] = a[n]
        /\ \A n \in Len(a) + 1 .. Len(tx'.stack) :
             /\ n - Len(a) + 1 \in 2 .. Len(tx.stack)
             /\ tx'.stack[n] = tx.stack[n - Len(a) + 1]
    BY <2>1, ContinueStack
  <2>3. Len(tx'.stack) = Len(tx.stack) + 1 /\ tx'.stack[1] = e /\ tx'.stack[2] = f
    BY <1>1, <2>1, <2>2
  <2>4. ASSUME NEW n \in 3 .. Len(tx'.stack)
        PROVE  n - 1 \in 2 .. Len(tx.stack) /\ tx'.stack[n] = tx.stack[n - 1]
    <3>1. n \in Len(a) + 1 .. Len(tx'.stack) /\ n - Len(a) + 1 = n - 1
      BY <1>1, <2>1, <2>3
    <3>2. n - Len(a) + 1 \in 2 .. Len(tx.stack) /\ tx'.stack[n] = tx.stack[n - Len(a) + 1]
      BY <2>2, <3>1
    <3>3. QED
      BY <3>1, <3>2
  <2>5. QED
    BY <2>3, <2>4
<1>5. QED
  BY <1>1, <1>2, <1>3, <1>4

\* A token that is placed at a node changes these.
LEMMA TokenPlaced ==
  ASSUME TypeOK, HasFreeToken, NEW n \in Nodes,
         img'.tokens = [img.tokens EXCEPT ![FreeToken] = n]
  PROVE  \E f \in TokenIds :
           /\ f \notin ActiveTokens(img)
           /\ ActiveTokens(img') = ActiveTokens(img) \union {f}
           /\ img'.tokens[f] = n
           /\ \A t \in ActiveTokens(img) : img'.tokens[t] = img.tokens[t]
           /\ TokensAt(img', n) = TokensAt(img, n) \union {f}
           /\ f \notin TokensAt(img, n)
           /\ \A m \in Nodes \ {n} : TokensAt(img', m) = TokensAt(img, m)
<1>1. /\ FreeToken \in TokenIds /\ img.tokens[FreeToken] \notin Nodes
      /\ img.tokens \in [TokenIds -> Nodes \union {Unused, Consumed}]
  BY FreeTokenFacts DEF TypeOK, Image
<1>2. /\ img'.tokens[FreeToken] = n
      /\ \A t \in TokenIds \ {FreeToken} : img'.tokens[t] = img.tokens[t]
  BY <1>1
<1>3. ActiveTokens(img') = ActiveTokens(img) \union {FreeToken}
      /\ FreeToken \notin ActiveTokens(img)
  BY <1>1, <1>2 DEF ActiveTokens
<1>4. \A t \in ActiveTokens(img) : img'.tokens[t] = img.tokens[t]
  BY <1>2, <1>3 DEF ActiveTokens
<1>5. TokensAt(img', n) = TokensAt(img, n) \union {FreeToken} /\ FreeToken \notin TokensAt(img, n)
  BY <1>1, <1>2 DEF TokensAt
<1>6. \A m \in Nodes \ {n} : TokensAt(img', m) = TokensAt(img, m)
  BY <1>1, <1>2 DEF TokensAt
<1>7. QED
  BY <1>1, <1>2, <1>3, <1>4, <1>5, <1>6

\* A task that is made at a node is open.
LEMMA TaskMade ==
  ASSUME TypeOK, NEW who, CreateHumanTask(who)
  PROVE  \E f \in TaskIds :
           /\ img.tasks[f].status = "none"
           /\ img'.tasks[f].status \in {"pending", "blocked"}
           /\ img'.tasks[f].node = Head1.node
           /\ img'.tasks[f].token = FreeToken
           /\ \A k \in TaskIds \ {f} : img'.tasks[k] = img.tasks[k]
<1> DEFINE new == [status |-> IF who = {} THEN "blocked" ELSE "pending",
                   node |-> Head1.node, token |-> FreeToken, who |-> who,
                   since |-> Len(img.log)]
<1>1. /\ HasFreeTask /\ tx.stack # <<>>
      /\ img'.tasks = [img.tasks EXCEPT ![FreeTask] = new]
  BY HeadType DEF CreateHumanTask, Arrives, Image, TypeOK, Here
<1>2. new.status \in {"pending", "blocked"} /\ new.node = Head1.node /\ new.token = FreeToken
  OBVIOUS
<1> HIDE DEF new
<1>3. FreeTask \in TaskIds /\ img.tasks[FreeTask].status = "none"
  BY <1>1, FreeTaskFacts
<1>4. img.tasks \in [TaskIds -> Task]
  BY DEF TypeOK, Image
<1>5. QED
  BY <1>1, <1>2, <1>3, <1>4

\* Tokens and tasks are all that the flow is about.
LEMMA FlowOfRows ==
  ASSUME NEW s, NEW i, NEW j, NEW stack, j.tokens = i.tokens, j.tasks = i.tasks
  PROVE  /\ Early(s, i, stack) => Early(s, j, stack)
         /\ Late(s, i, stack) => Late(s, j, stack)
<1>1. ActiveTokens(j) = ActiveTokens(i)
  BY DEF ActiveTokens
<1>2. \A n : TokensAt(j, n) = TokensAt(i, n)
  BY DEF TokensAt
<1>3. Done(s, j) = Done(s, i) /\ (OneTaskPerBranch(s, i) => OneTaskPerBranch(s, j))
  BY DEF Done, OneTaskPerBranch
<1>4. QED
  BY <1>1, <1>2, <1>3 DEF Early, Late

\* Where an activation is that is about to begin.
LEMMA HeadFacts ==
  ASSUME TypeOK, tx.stack # <<>>
  PROVE  /\ Head1 = tx.stack[1] /\ Head1 \in Entry
         /\ Head1.node \in Nodes /\ Head1.depth \in Nat /\ Head1.next \in Nat
         /\ Here.tokens = img.tokens /\ Here.tasks = img.tasks /\ Here \in Image
         /\ <<>> \in Seq(Entry)
         /\ \A n \in Nodes, d \in Nat : /\ Arrival(n, d) \in Entry
                                        /\ <<Arrival(n, d)>> \in Seq(Entry)
                                        /\ Arrival(n, d).node = n /\ Arrival(n, d).next = 0
  BY HeadType, ArrivalType DEF Head1, Entry, Arrival

\* The transition a node selects leads to one of its targets.
LEMMA SelectedTarget ==
  ASSUME NEW n, NEW tr \in Selected(n, context)
  PROVE  tr.to \in Targets(n)
  BY DEF Selected, Targets

\* Before the split a token moves on, stays, or reaches the split.
LEMMA EarlyStep ==
  ASSUME TypeOK, NEW s \in Sections, ForkJoin(s), Early(s, img, tx.stack), Activation
  PROVE  Early(s, img', tx'.stack) \/ Fanning(s, img', tx'.stack)
<1>1. tx.stack # <<>>
  BY ActivationFacts
<1>2. /\ ActiveTokens(img) = {} /\ Len(tx.stack) = 1
      /\ Head1.node \in s.before \union {s.split} /\ Head1.next = 0
      /\ Head1.node \in Nodes /\ Head1.depth \in Nat
      /\ \A k \in TaskIds : img.tasks[k].status # "none" => img.tasks[k].node \in s.before
  BY <1>1, HeadFacts DEF Early
<1>3. /\ s.before \subseteq Nodes /\ s.split \in Nodes /\ s.split \notin s.before
      /\ graph.type[s.split] = "PARALLEL_SPLIT"
      /\ \A n \in s.before : graph.type[n] \notin {"PARALLEL_SPLIT", "PARALLEL_JOIN"}
  BY SectionFacts DEF ForkJoin
<1>4. ASSUME NEW e \in Entry, Continue(<<e>>)
      PROVE  Len(tx'.stack) = 1 /\ tx'.stack[1] = e
  BY <1>1, <1>2, <1>4, ContinueFacts
<1>5. ASSUME Continue(<<>>)
      PROVE  tx'.stack = <<>>
  <2>1. Len(tx'.stack) = 0
    BY <1>1, <1>2, <1>5, ContinueFacts
  <2>2. tx'.stack \in Seq(Entry)
    BY <1>1, <1>5, HeadFacts, ContinueStack
  <2>3. QED
    BY <2>1, <2>2, EmptySeq
<1>t. ASSUME HasFreeToken, Head1.node \in s.before,
             img'.tokens = [img.tokens EXCEPT ![FreeToken] = Head1.node]
      PROVE  /\ \A t \in ActiveTokens(img') : img'.tokens[t] \in s.before
             /\ \A t, u \in ActiveTokens(img') : t = u
  <2>1. PICK f \in TokenIds : ActiveTokens(img') = {f} /\ img'.tokens[f] = Head1.node
    BY <1>2, <1>t, TokenPlaced
  <2>2. QED
    BY <1>t, <2>1
<1>6. ASSUME NEW who \in SUBSET Users, CreateHumanTask(who)
      PROVE  Early(s, img', tx'.stack)
  <2>1. /\ Head1.node \in s.before /\ HasFreeToken /\ tx'.stack = <<>>
        /\ img'.tokens = [img.tokens EXCEPT ![FreeToken] = Head1.node]
    BY <1>1, <1>2, <1>3, <1>5, <1>6, HeadFacts DEF CreateHumanTask, Arrives, Image
  <2>2. PICK f \in TaskIds : /\ img'.tasks[f].node = Head1.node
                             /\ \A k \in TaskIds \ {f} : img'.tasks[k] = img.tasks[k]
    BY <1>6, TaskMade
  <2>3. \A k \in TaskIds : img'.tasks[k].status # "none" => img'.tasks[k].node \in s.before
    BY <1>2, <2>1, <2>2
  <2>4. QED
    BY <1>t, <2>1, <2>3 DEF Early
<1>7. CASE JoinOpenTask \/ DeadEnd
  <2>1. Head1.node \in s.before /\ HasFreeToken /\ tx'.stack = <<>>
    BY <1>1, <1>2, <1>3, <1>5, <1>7 DEF JoinOpenTask, DeadEnd, Arrives
  <2>2. /\ img'.tokens = [img.tokens EXCEPT ![FreeToken] = Head1.node]
        /\ img'.tasks = img.tasks
    BY <1>1, <1>7, HeadFacts DEF JoinOpenTask, DeadEnd, Image
  <2>3. QED
    BY <1>2, <1>t, <2>1, <2>2 DEF Early
<1>8. CASE ReachEnd
  <2>1. img'.tokens = img.tokens /\ img'.tasks = img.tasks /\ tx'.stack = <<>>
    BY <1>1, <1>5, <1>8, HeadFacts, RefreshFacts DEF ReachEnd
  <2>2. Early(s, img, <<>>)
    BY <1>2 DEF Early
  <2>3. QED
    BY <2>1, <2>2, FlowOfRows
<1>9. CASE PassOn
  <2>1. PICK tr \in Selected(Head1.node, context) :
          img' = Here /\ Continue(<<Arrival(tr.to, Head1.depth + 2)>>)
    BY <1>9 DEF PassOn
  <2>2. Head1.node \in s.before
    BY <1>2, <1>3, <1>9 DEF PassOn, Arrives
  <2>3. tr.to \in s.before \union {s.split} /\ tr.to \in Nodes
    BY <1>3, <2>2, SelectedTarget DEF ForkJoin
  <2>4. /\ Arrival(tr.to, Head1.depth + 2).node = tr.to
        /\ Arrival(tr.to, Head1.depth + 2).next = 0
        /\ <<Arrival(tr.to, Head1.depth + 2)>> \in Seq(Entry)
    BY <1>1, <1>2, <2>3, HeadFacts
  <2>5. Len(tx'.stack) = 1 /\ tx'.stack[1] = Arrival(tr.to, Head1.depth + 2)
    BY <1>4, <2>1, <2>4
  <2>6. img'.tokens = img.tokens /\ img'.tasks = img.tasks
    BY <1>1, <2>1, HeadFacts
  <2>7. ActiveTokens(img') = {}
    BY <1>2, <2>6 DEF ActiveTokens
  <2>8. QED
    BY <1>2, <2>3, <2>4, <2>5, <2>6, <2>7 DEF Early
<1>10. CASE Split
  <2> DEFINE e == [Head1 EXCEPT !.next = 1]
  <2>1. Head1.node = s.split
    BY <1>2, <1>3, <1>10 DEF Split, Arrives
  <2>2. e \in Entry /\ e.node = s.split /\ e.next = 1
    BY <1>1, <2>1, HeadFacts DEF Entry
  <2>3. Continue(<<e>>) /\ img' = Here
    BY <1>10 DEF Split
  <2> HIDE DEF e
  <2>4. Len(tx'.stack) = 1 /\ tx'.stack[1] = e
    BY <1>4, <2>2, <2>3
  <2>5. img'.tokens = img.tokens /\ img'.tasks = img.tasks
    BY <1>1, <2>3, HeadFacts
  <2>6. ActiveTokens(img') = {}
    BY <1>2, <2>5 DEF ActiveTokens
  <2>7. OneTaskPerBranch(s, img')
    BY <1>2, <2>5 DEF OneTaskPerBranch, ForkJoin
  <2>8. Fanned(s, img', 1)
    BY <1>2, <2>5, <2>6, <2>7 DEF Fanned
  <2>9. QED
    BY <2>2, <2>4, <2>8 DEF Fanning
<1>11. CASE NextBranch
  BY <1>2, <1>11 DEF NextBranch
<1>12. CASE WaitAtJoin \/ PassJoin
  BY <1>2, <1>3, <1>12 DEF WaitAtJoin, PassJoin, Arrives
<1>13. QED
  BY <1>6, <1>7, <1>8, <1>9, <1>10, <1>11, <1>12 DEF Activation

\* Two entries put together.
LEMMA PairOfEntries ==
  ASSUME NEW e \in Entry, NEW f \in Entry
  PROVE  <<e>> \o <<f>> = <<e, f>>
<1>1. <<e>> \in Seq(Entry) /\ <<f>> \in Seq(Entry) /\ <<e, f>> \in Seq(Entry)
  OBVIOUS
<1>2. /\ <<e>> \o <<f>> \in Seq(Entry)
      /\ Len(<<e>> \o <<f>>) = 2
      /\ (<<e>> \o <<f>>)[1] = e /\ (<<e>> \o <<f>>)[2] = f
  BY <1>1, ConcatProperties
<1>3. <<e, f>>[1] = e /\ <<e, f>>[2] = f /\ Len(<<e, f>>) = 2 /\ 1 .. 2 = {1, 2}
  OBVIOUS
<1> DEFINE a == <<e>> \o <<f>>
           b == <<e, f>>
<1>4. a \in Seq(Entry) /\ b \in Seq(Entry) /\ Len(a) = Len(b) /\ Len(a) = 2
      /\ a[1] = b[1] /\ a[2] = b[2]
  BY <1>1, <1>2, <1>3
<1> HIDE DEF a, b
<1>5. \A i \in 1 .. Len(a) : a[i] = b[i]
  BY <1>3, <1>4
<1>6. a = b
  BY <1>4, <1>5, SeqEqual
<1>7. QED
  BY <1>6 DEF a, b

\* The split opens one task after the other, each at a node of its own.
LEMMA FanStep ==
  ASSUME TypeOK, NEW s \in Sections, ForkJoin(s), Fanning(s, img, tx.stack), Activation
  PROVE  Fanning(s, img', tx'.stack) \/ Late(s, img', tx'.stack)
<1>1. tx.stack # <<>>
  BY ActivationFacts
<1>2. /\ s.split \in Nodes /\ s.join \in Nodes /\ Branches(s) \subseteq Nodes
      /\ s.split \notin Branches(s) /\ s.join \notin Branches(s) /\ s.split \notin s.before
      /\ DOMAIN graph.out[s.split] = 1 .. Len(graph.out[s.split])
      /\ Len(graph.out[s.split]) \in Nat
      /\ \A n \in Branches(s) : n \notin s.before /\ graph.type[n] = "HUMAN_TASK"
  BY SectionFacts DEF ForkJoin
<1>3. CASE Len(tx.stack) = 1
  <2> DEFINE m == Head1.next
             next == [Head1 EXCEPT !.next = m + 1]
             to == graph.out[s.split][m].to
             arrival == Arrival(to, Head1.depth + 1)
  <2>1. Head1.node = s.split /\ m > 0 /\ m \in Nat /\ Fanned(s, img, m)
    BY <1>1, <1>3, HeadFacts DEF Fanning, Fanned
  <2>0. \A types : ~Arrives(types)
    BY <2>1 DEF Arrives
  <2>2. NextBranch
    BY <2>0 DEF Activation, CreateHumanTask, JoinOpenTask, ReachEnd, PassOn, DeadEnd, Split,
                WaitAtJoin, PassJoin
  <2>3. img' = img
    BY <2>2 DEF NextBranch
  <2>4. next \in Entry /\ next.node = s.split /\ next.next = m + 1
    BY <1>1, <2>1, HeadFacts DEF Entry
  <2>5. ASSUME m \in DOMAIN graph.out[s.split]
        PROVE  Fanned(s, img', m + 1)
    BY <1>2, <2>1, <2>3, <2>5 DEF Fanned
  <2>6. CASE m \in DOMAIN graph.out[s.split] /\ Holds(graph.out[s.split][m], context)
    <3>1. to \in Branches(s) /\ to \in Nodes
      BY <1>2, <2>6 DEF Branches, Targets
    <3>2. arrival \in Entry /\ arrival.node = to /\ arrival.next = 0
      BY <1>1, <3>1, HeadFacts
    <3>3. Continue(<<arrival>> \o <<next>>)
      BY <2>1, <2>2, <2>6 DEF NextBranch
    <3>m. m \in Nat /\ (m + 1) - 1 = m
      BY <2>1
    <3>6. ASSUME NEW k \in TaskIds, img.tasks[k].status # "none"
          PROVE  img.tasks[k].node # to
      <4>1. to = graph.out[s.split][m].to /\ to \notin s.before
        BY <1>2, <3>1
      <4>2. \A h \in DOMAIN graph.out[s.split] : h < m => graph.out[s.split][h].to # to
        BY <1>2, <2>1, <2>6, <4>1 DEF ForkJoin
      <4>3. QED
        BY <2>1, <3>6, <4>1, <4>2 DEF Fanned
    <3>4. <<arrival>> \o <<next>> = <<arrival, next>>
      BY <2>4, <3>2, PairOfEntries
    <3> HIDE DEF arrival, next, to, m
    <3>e. Continue(<<arrival, next>>)
      BY <3>3, <3>4
    <3>5. Len(tx'.stack) = 2 /\ tx'.stack[1] = arrival /\ tx'.stack[2] = next
      BY <1>1, <1>3, <2>4, <3>2, <3>e, ContinueFacts
    <3>n. to = graph.out[s.split][m].to
      BY DEF to
    <3>7. QED
      BY <2>3, <2>4, <2>5, <2>6, <3>1, <3>2, <3>m, <3>n, <3>5, <3>6 DEF Fanning
  <2>7. CASE m \in DOMAIN graph.out[s.split] /\ ~Holds(graph.out[s.split][m], context)
    <3>1. Continue(<<>> \o <<next>>)
      BY <2>1, <2>2, <2>7 DEF NextBranch
    <3> HIDE DEF next
    <3>2. <<>> \o <<next>> = <<next>>
      OBVIOUS
    <3>e. Continue(<<next>>)
      BY <3>1, <3>2
    <3>3. Len(tx'.stack) = 1 /\ tx'.stack[1] = next
      BY <1>1, <1>3, <2>4, <3>e, ContinueFacts
    <3>4. QED
      BY <2>4, <2>5, <2>7, <3>3 DEF Fanning
  <2>8. CASE m \notin DOMAIN graph.out[s.split]
    <3>1. Continue(<<>>)
      BY <2>1, <2>2, <2>8 DEF NextBranch
    <3>2. Len(tx'.stack) = 0
      BY <1>1, <1>3, <3>1, ContinueFacts
    <3>3. /\ \A t \in ActiveTokens(img) : img.tokens[t] \in Branches(s)
          /\ OneTaskPerBranch(s, img)
      BY <2>1 DEF Fanned
    <3>4. TokensAt(img, s.join) = {}
      BY <1>2, <3>3 DEF TokensAt, ActiveTokens
    <3>5. IsFiniteSet(Done(s, img)) /\ Cardinality(Done(s, img)) \in Nat
      BY SectionFacts, FS_Subset, FS_CardinalityType DEF Done
    <3>6. \A k \in TaskIds : img.tasks[k].status # "none" => img.tasks[k].node \notin After(s)
      BY <2>1 DEF Fanned, After, Branches, Targets
    <3>7. \A t \in ActiveTokens(img) : img.tokens[t] \notin s.before
      BY <1>2, <3>3
    <3>8. IsFiniteSet({}) /\ Cardinality({}) = 0
      BY FS_EmptySet
    <3>9. Late(s, img, tx'.stack)
      BY <3>2, <3>3, <3>4, <3>5, <3>6, <3>7, <3>8 DEF Late
    <3>10. QED
      BY <2>3, <3>9
  <2>9. QED
    BY <2>6, <2>7, <2>8
<1>4. CASE Len(tx.stack) = 2
  <2> DEFINE m == tx.stack[2].next
             n == Head1.node
  <2>1. /\ Head1.next = 0 /\ n \in Branches(s) /\ tx.stack[2].node = s.split
        /\ Fanned(s, img, m) /\ m - 1 \in DOMAIN graph.out[s.split]
        /\ n = graph.out[s.split][m - 1].to
        /\ \A k \in TaskIds : img.tasks[k].status # "none" => img.tasks[k].node # n
    BY <1>1, <1>4, HeadFacts DEF Fanning
  <2>2. graph.type[n] = "HUMAN_TASK"
    BY <1>2, <2>1
  <2>3. ~HasOpenTask(img, n)
    BY <2>1 DEF HasOpenTask, OpenTasks, Open
  <2>a. ASSUME NEW types, "HUMAN_TASK" \notin types
        PROVE  ~Arrives(types)
    BY <2>2, <2>a DEF Arrives
  <2>b. ~ReachEnd /\ ~PassOn /\ ~DeadEnd /\ ~Split /\ ~WaitAtJoin /\ ~PassJoin
    BY <2>a DEF ReachEnd, PassOn, DeadEnd, Split, WaitAtJoin, PassJoin
  <2>c. ~NextBranch
    BY <2>1 DEF NextBranch
  <2>d. ~JoinOpenTask
    BY <2>3 DEF JoinOpenTask
  <2>4. PICK who \in SUBSET Users : CreateHumanTask(who)
    BY <2>b, <2>c, <2>d DEF Activation
  <2>5. /\ HasFreeToken /\ Continue(<<>>)
        /\ img'.tokens = [img.tokens EXCEPT ![FreeToken] = n]
    BY <1>1, <2>4, HeadFacts DEF CreateHumanTask, Image
  <2>6. Len(tx'.stack) = 1 /\ tx'.stack[1] = tx.stack[2]
    BY <1>1, <1>4, <2>5, ContinueFacts
  <2>7. PICK f \in TokenIds :
          /\ ActiveTokens(img') = ActiveTokens(img) \union {f}
          /\ img'.tokens[f] = n
          /\ \A t \in ActiveTokens(img) : img'.tokens[t] = img.tokens[t]
    <3>1. n \in Nodes
      BY <1>2, <2>1
    <3>2. QED
      BY <2>5, <3>1, TokenPlaced
  <2>8. PICK k \in TaskIds : /\ img.tasks[k].status = "none"
                             /\ img'.tasks[k].node = n
                             /\ \A h \in TaskIds \ {k} : img'.tasks[h] = img.tasks[h]
    BY <2>4, TaskMade
  <2>9. m > 0 /\ m \in Int
    <3>1. tx.stack \in Seq(Entry)
      BY DEF TypeOK
    <3>2. tx.stack[2] \in Entry
      BY <1>4, <3>1, ElementOfSeq
    <3>3. m \in Nat
      BY <3>2 DEF Entry
    <3>4. m > 0
      BY <2>1 DEF Fanned
    <3>5. QED
      BY <3>3, <3>4
  <2>10. \A h \in TaskIds :
           img'.tasks[h].status # "none" =>
             \/ img'.tasks[h].node \in s.before
             \/ \E i \in DOMAIN graph.out[s.split] :
                  i < m /\ img'.tasks[h].node = graph.out[s.split][i].to
    <3> SUFFICES ASSUME NEW h \in TaskIds, img'.tasks[h].status # "none"
                 PROVE  \/ img'.tasks[h].node \in s.before
                        \/ \E i \in DOMAIN graph.out[s.split] :
                             i < m /\ img'.tasks[h].node = graph.out[s.split][i].to
      OBVIOUS
    <3>1. CASE h = k
      <4>1. m - 1 < m
        BY <2>9
      <4>2. QED
        BY <2>1, <2>8, <3>1, <4>1
    <3>2. CASE h # k
      BY <2>1, <2>8, <3>2 DEF Fanned
    <3>3. QED
      BY <3>1, <3>2
  <2>11. OneTaskPerBranch(s, img')
    <3> SUFFICES ASSUME NEW g \in TaskIds, NEW h \in TaskIds,
                        img'.tasks[g].status # "none", img'.tasks[h].status # "none",
                        img'.tasks[g].node = img'.tasks[h].node,
                        img'.tasks[g].node \in Branches(s)
                 PROVE  g = h
      BY DEF OneTaskPerBranch
    <3>1. OneTaskPerBranch(s, img)
      BY <2>1 DEF Fanned
    <3>2. CASE g # k /\ h # k
      BY <2>8, <3>1, <3>2 DEF OneTaskPerBranch
    <3>3. CASE g = k \/ h = k
      BY <2>1, <2>8, <3>3
    <3>4. QED
      BY <3>2, <3>3
  <2>12. \A t \in ActiveTokens(img') : img'.tokens[t] \in Branches(s)
    BY <2>1, <2>7 DEF Fanned
  <2>13. Fanned(s, img', m)
    BY <2>9, <2>10, <2>11, <2>12 DEF Fanned
  <2>14. QED
    BY <2>1, <2>6, <2>13 DEF Fanning
<1>5. QED
  BY <1>3, <1>4 DEF Fanning

\* The flow after the split survives a step that makes no task, takes no token
\* before the split and counts at the join no more tokens than branches done.
LEMMA LateKept ==
  ASSUME NEW s, NEW stack, NEW rest,
         Late(s, img, stack), img'.tasks = img.tasks,
         \A t \in ActiveTokens(img') : img'.tokens[t] \notin s.before,
         IsFiniteSet(TokensAt(img', s.join)),
         Cardinality(TokensAt(img', s.join)) <= Cardinality(Done(s, img)),
         \A n \in 1 .. Len(rest) : rest[n].node \in After(s) /\ Done(s, img) = Branches(s)
  PROVE  Late(s, img', rest)
<1>1. Done(s, img') = Done(s, img)
  BY DEF Done
<1>2. OneTaskPerBranch(s, img')
  BY DEF Late, OneTaskPerBranch
<1>3. QED
  BY <1>1, <1>2 DEF Late

\* A join that fires consumes the tokens at it and leaves the others alone.
LEMMA JoinConsumes ==
  ASSUME TypeOK, PassJoin
  PROVE  /\ img'.tasks = img.tasks
         /\ \A t \in TokenIds :
              img'.tokens[t] = IF t \in TokensAt(img, Head1.node) THEN Consumed
                               ELSE img.tokens[t]
<1> DEFINE left == [t \in TokenIds |->
                      IF t \in TokensAt(img, Head1.node) THEN Consumed ELSE img.tokens[t]]
           joined == [Here EXCEPT !.tokens = left]
<1>1. tx.stack # <<>>
  BY DEF PassJoin, Arrives
<1>2. img' = joined \/ img' = [joined EXCEPT !.status = "blocked"]
  BY <1>1, HeadType DEF PassJoin
<1>3. joined.tasks = img.tasks /\ joined.tokens = left /\ joined \in Image
  BY <1>1, HeadType DEF Image, TypeOK
<1> HIDE DEF joined
<1>4. img'.tasks = img.tasks /\ img'.tokens = left
  BY <1>2, <1>3 DEF Image
<1>5. QED
  BY <1>4

\* At the join a token waits for the branches that are not done, or goes on
\* because all of them are.
LEMMA JoinStep ==
  ASSUME TypeOK, NEW s \in Sections, ForkJoin(s), Late(s, img, tx.stack), Activation,
         Len(tx.stack) = 1, tx.stack[1].node = s.join, tx.stack[1].next = 0,
         Cardinality(TokensAt(img, s.join)) + 1 <= Cardinality(Done(s, img))
  PROVE  Late(s, img', tx'.stack)
<1>1. tx.stack # <<>>
  BY ActivationFacts
<1>2. /\ Head1.node = s.join /\ Head1.next = 0 /\ Head1.depth \in Nat
      /\ s.join \in Nodes /\ s.join \notin s.before
      /\ graph.type[s.join] = "PARALLEL_JOIN" /\ Targets(s.join) \subseteq After(s)
  BY <1>1, HeadFacts, SectionFacts DEF ForkJoin
<1>3. /\ Done(s, img) \subseteq Branches(s) /\ IsFiniteSet(Branches(s))
      /\ IsFiniteSet(Done(s, img))
      /\ Cardinality(Done(s, img)) \in Nat /\ Cardinality(Branches(s)) \in Nat
      /\ Cardinality(Done(s, img)) <= Cardinality(Branches(s))
      /\ Cardinality(Done(s, img)) = Cardinality(Branches(s)) => Done(s, img) = Branches(s)
  <2>1. Done(s, img) \subseteq Branches(s) /\ IsFiniteSet(Branches(s))
    BY SectionFacts DEF Done
  <2>2. QED
    BY <2>1, FS_Subset, FS_CardinalityType
<1>4. /\ IsFiniteSet(TokensAt(img, s.join)) /\ Cardinality(TokensAt(img, s.join)) \in Nat
      /\ \A t \in ActiveTokens(img) : img.tokens[t] \notin s.before
  BY FS_CardinalityType DEF Late
<1>a. ASSUME NEW types, "PARALLEL_JOIN" \notin types
      PROVE  ~Arrives(types)
  BY <1>2, <1>a DEF Arrives
<1>b. /\ ~(\E who \in SUBSET Users : CreateHumanTask(who))
      /\ ~JoinOpenTask /\ ~ReachEnd /\ ~PassOn /\ ~DeadEnd /\ ~Split
  BY <1>a DEF CreateHumanTask, JoinOpenTask, ReachEnd, PassOn, DeadEnd, Split
<1>c. ~NextBranch
  BY <1>2 DEF NextBranch
<1>5. CASE WaitAtJoin
  <2>1. /\ HasFreeToken /\ Continue(<<>>) /\ img'.tasks = img.tasks
        /\ img'.tokens = [img.tokens EXCEPT ![FreeToken] = s.join]
    BY <1>1, <1>2, <1>5, HeadFacts DEF WaitAtJoin, Image
  <2>2. PICK f \in TokenIds :
          /\ ActiveTokens(img') = ActiveTokens(img) \union {f}
          /\ img'.tokens[f] = s.join
          /\ \A t \in ActiveTokens(img) : img'.tokens[t] = img.tokens[t]
          /\ TokensAt(img', s.join) = TokensAt(img, s.join) \union {f}
          /\ f \notin TokensAt(img, s.join)
    BY <1>2, <2>1, TokenPlaced
  <2>3. \A t \in ActiveTokens(img') : img'.tokens[t] \notin s.before
    BY <1>2, <1>4, <2>2
  <2>4. /\ IsFiniteSet(TokensAt(img', s.join))
        /\ Cardinality(TokensAt(img', s.join)) = Cardinality(TokensAt(img, s.join)) + 1
    BY <1>4, <2>2, FS_AddElement
  <2>5. Len(tx'.stack) = 0
    BY <1>1, <2>1, ContinueFacts
  <2>6. QED
    BY <2>1, <2>3, <2>4, <2>5, LateKept
<1>6. CASE PassJoin
  <2>1. Done(s, img) = Branches(s)
    <3>1. Cardinality(TokensAt(img, s.join)) + 1 >= Threshold(s.join)
      BY <1>2, <1>6 DEF PassJoin
    <3>2. Threshold(s.join) \in Nat /\ Threshold(s.join) >= Cardinality(Branches(s))
      BY ThresholdIsHigh
    <3>3. Cardinality(Done(s, img)) = Cardinality(Branches(s))
      BY <1>3, <1>4, <3>1, <3>2
    <3>4. QED
      BY <1>3, <3>3
  <2>2. \/ Continue(<<>>)
        \/ \E tr \in Selected(s.join, context) :
             Continue(<<Arrival(tr.to, Head1.depth + 1)>>)
    BY <1>2, <1>6 DEF PassJoin
  <2>8. /\ img'.tasks = img.tasks
        /\ \A t \in TokenIds :
             img'.tokens[t] = IF t \in TokensAt(img, s.join) THEN Consumed ELSE img.tokens[t]
    BY <1>2, <1>6, JoinConsumes
  <2>3. TokensAt(img', s.join) = {}
    BY <1>2, <2>8, NullAssumption DEF TokensAt
  <2>4. \A t \in ActiveTokens(img') : img'.tokens[t] \notin s.before
    BY <1>4, <2>8, NullAssumption DEF ActiveTokens
  <2>5. IsFiniteSet({}) /\ Cardinality({}) = 0
    BY FS_EmptySet
  <2>6. \A n \in 1 .. Len(tx'.stack) : tx'.stack[n].node \in After(s)
    <3>1. CASE Continue(<<>>)
      <4>1. Len(tx'.stack) = 0
        BY <1>1, <3>1, ContinueFacts
      <4>2. QED
        BY <4>1
    <3>2. ASSUME NEW tr \in Selected(s.join, context),
                 Continue(<<Arrival(tr.to, Head1.depth + 1)>>)
          PROVE  \A n \in 1 .. Len(tx'.stack) : tx'.stack[n].node \in After(s)
      <4>1. tr.to \in After(s) /\ tr.to \in Nodes
        BY <1>2, SelectedTarget DEF After
      <4>2. Arrival(tr.to, Head1.depth + 1) \in Entry
            /\ Arrival(tr.to, Head1.depth + 1).node = tr.to
        BY <1>1, <1>2, <4>1, HeadFacts
      <4>3. Len(tx'.stack) = 1 /\ tx'.stack[1] = Arrival(tr.to, Head1.depth + 1)
        BY <1>1, <3>2, <4>2, ContinueFacts
      <4>4. QED
        BY <4>1, <4>2, <4>3
    <3>3. QED
      BY <2>2, <3>1, <3>2
  <2>7. /\ IsFiniteSet(TokensAt(img', s.join))
        /\ Cardinality(TokensAt(img', s.join)) <= Cardinality(Done(s, img))
    BY <1>3, <2>3, <2>5
  <2>9. QED
    BY <2>1, <2>4, <2>6, <2>7, <2>8, LateKept
<1>7. QED
  BY <1>b, <1>c, <1>5, <1>6 DEF Activation

\* Behind the join every activation stays behind it.
LEMMA AfterStack ==
  ASSUME TypeOK, NEW s \in Sections, ForkJoin(s), tx.stack # <<>>, Activation,
         \A n \in 1 .. Len(tx.stack) : tx.stack[n].node \in After(s)
  PROVE  \A n \in 1 .. Len(tx'.stack) : tx'.stack[n].node \in After(s)
<1> DEFINE Behind == \A n \in 1 .. Len(tx'.stack) : tx'.stack[n].node \in After(s)
<1>1. /\ Len(tx.stack) \in Nat \ {0}
      /\ Head1.node \in After(s) /\ Head1.node \in Nodes /\ Head1.depth \in Nat
      /\ Head1 \in Entry /\ Head1.next \in Nat /\ Head1 = tx.stack[1]
  BY HeadFacts, ContinueFacts
<1>2. Targets(Head1.node) \subseteq After(s) /\ After(s) \subseteq Nodes
  BY <1>1 DEF ForkJoin, After
<1>3. Continue(<<>>) => Behind
  <2> SUFFICES ASSUME Continue(<<>>), NEW n \in 1 .. Len(tx'.stack)
               PROVE  tx'.stack[n].node \in After(s)
    OBVIOUS
  <2>1. n + 1 \in 1 .. Len(tx.stack) /\ tx'.stack[n] = tx.stack[n + 1]
    BY <1>1, ContinueFacts
  <2>2. QED
    BY <2>1
<1>4. ASSUME NEW e \in Entry, e.node \in After(s), Continue(<<e>>)
      PROVE  Behind
  <2> SUFFICES ASSUME NEW n \in 1 .. Len(tx'.stack)
               PROVE  tx'.stack[n].node \in After(s)
    OBVIOUS
  <2>1. /\ Len(tx'.stack) = Len(tx.stack) /\ tx'.stack[1] = e
        /\ \A m \in 2 .. Len(tx'.stack) : tx'.stack[m] = tx.stack[m]
    BY <1>4, ContinueFacts
  <2>2. CASE n = 1
    BY <1>4, <2>1, <2>2
  <2>3. CASE n # 1
    <3>1. n \in 2 .. Len(tx'.stack) /\ n \in 1 .. Len(tx.stack)
      BY <1>1, <2>1, <2>3
    <3>2. QED
      BY <2>1, <3>1
  <2>4. QED
    BY <2>2, <2>3
<1>5. ASSUME NEW e \in Entry, NEW f \in Entry, e.node \in After(s), f.node \in After(s),
             Continue(<<e, f>>)
      PROVE  Behind
  <2> SUFFICES ASSUME NEW n \in 1 .. Len(tx'.stack)
               PROVE  tx'.stack[n].node \in After(s)
    OBVIOUS
  <2>1. /\ Len(tx'.stack) = Len(tx.stack) + 1 /\ tx'.stack[1] = e /\ tx'.stack[2] = f
        /\ \A m \in 3 .. Len(tx'.stack) : m - 1 \in 2 .. Len(tx.stack)
                                          /\ tx'.stack[m] = tx.stack[m - 1]
    BY <1>5, ContinueFacts
  <2>2. CASE n = 1 \/ n = 2
    BY <1>5, <2>1, <2>2
  <2>3. CASE n # 1 /\ n # 2
    <3>1. n \in 3 .. Len(tx'.stack)
      BY <1>1, <2>1, <2>3
    <3>2. n - 1 \in 1 .. Len(tx.stack) /\ tx'.stack[n] = tx.stack[n - 1]
      BY <1>1, <2>1, <3>1
    <3>3. QED
      BY <3>2
  <2>4. QED
    BY <2>2, <2>3
<1>6. ASSUME NEW n \in After(s), NEW d \in Nat, Continue(<<Arrival(n, d)>>)
      PROVE  Behind
  <2>1. Arrival(n, d) \in Entry /\ Arrival(n, d).node = n
    BY <1>2, HeadFacts
  <2>2. QED
    BY <1>4, <1>6, <2>1
<1>7. ASSUME NEW d \in Nat, NEW tr \in Selected(Head1.node, context),
             Continue(<<Arrival(tr.to, d)>>)
      PROVE  Behind
  BY <1>2, <1>6, <1>7, SelectedTarget
<1>8. CASE PassOn
  <2>1. PICK tr \in Selected(Head1.node, context) :
          Continue(<<Arrival(tr.to, Head1.depth + 2)>>)
    BY <1>8 DEF PassOn
  <2>2. Head1.depth + 2 \in Nat
    BY <1>1
  <2>3. QED
    BY <1>7, <2>1, <2>2
<1>9. CASE PassJoin
  <2>1. \/ Continue(<<>>)
        \/ \E tr \in Selected(Head1.node, context) :
             Continue(<<Arrival(tr.to, Head1.depth + 1)>>)
    BY <1>9 DEF PassJoin
  <2>2. Head1.depth + 1 \in Nat
    BY <1>1
  <2>3. QED
    BY <1>3, <1>7, <2>1, <2>2
<1>10. CASE Split
  <2> DEFINE e == [Head1 EXCEPT !.next = 1]
  <2>1. e \in Entry /\ e.node = Head1.node /\ Continue(<<e>>)
    BY <1>1, <1>10 DEF Split, Entry
  <2> HIDE DEF e
  <2>2. QED
    BY <1>1, <1>4, <2>1
<1>11. CASE NextBranch
  <2> DEFINE i == Head1.next
             next == [Head1 EXCEPT !.next = i + 1]
             tr == graph.out[Head1.node][i]
             arrival == Arrival(tr.to, Head1.depth + 1)
  <2>1. next \in Entry /\ next.node = Head1.node
    BY <1>1 DEF Entry
  <2>2. CASE i \notin DOMAIN graph.out[Head1.node]
    BY <1>3, <1>11, <2>2 DEF NextBranch
  <2>3. CASE i \in DOMAIN graph.out[Head1.node] /\ Holds(tr, context)
    <3>1. tr.to \in After(s) /\ tr.to \in Nodes
      BY <1>2, <2>3 DEF Targets
    <3>2. arrival \in Entry /\ arrival.node = tr.to
      <4>1. Head1.depth + 1 \in Nat
        BY <1>1
      <4>2. QED
        BY <3>1, <4>1, HeadFacts
    <3>3. Continue(<<arrival>> \o <<next>>)
      BY <1>11, <2>3 DEF NextBranch
    <3>4. <<arrival>> \o <<next>> = <<arrival, next>>
      BY <2>1, <3>2, PairOfEntries
    <3> HIDE DEF arrival, next
    <3>5. Continue(<<arrival, next>>)
      BY <3>3, <3>4
    <3>6. QED
      BY <1>1, <1>5, <2>1, <3>1, <3>2, <3>5
  <2>4. CASE i \in DOMAIN graph.out[Head1.node] /\ ~Holds(tr, context)
    <3>1. Continue(<<>> \o <<next>>)
      BY <1>11, <2>4 DEF NextBranch
    <3> HIDE DEF next
    <3>2. <<>> \o <<next>> = <<next>>
      OBVIOUS
    <3>3. Continue(<<next>>)
      BY <3>1, <3>2
    <3>4. QED
      BY <1>1, <1>4, <2>1, <3>3
  <2>5. QED
    BY <2>2, <2>3, <2>4
<1>12. CASE \E who \in SUBSET Users : CreateHumanTask(who)
  BY <1>3, <1>12 DEF CreateHumanTask
<1>13. CASE JoinOpenTask \/ ReachEnd \/ DeadEnd \/ WaitAtJoin
  BY <1>3, <1>13 DEF JoinOpenTask, ReachEnd, DeadEnd, WaitAtJoin
<1>14. QED
  BY <1>8, <1>9, <1>10, <1>11, <1>12, <1>13 DEF Activation

\* Once all branches are done and one token is behind the join, whatever it
\* activates leaves the branches and the join as they are.
LEMMA AfterStep ==
  ASSUME TypeOK, NEW s \in Sections, ForkJoin(s), Late(s, img, tx.stack), Activation,
         \A n \in 1 .. Len(tx.stack) : tx.stack[n].node \in After(s) /\ Done(s, img) = Branches(s)
  PROVE  Late(s, img', tx'.stack)
<1>1. tx.stack # <<>>
  BY ActivationFacts
<1>2. /\ \A n \in 1 .. Len(tx.stack) : tx.stack[n].node \in After(s)
      /\ Done(s, img) = Branches(s)
      /\ Head1.node \in After(s) /\ Head1.node \in Nodes
      /\ Head1.node # s.join /\ Head1.node \notin s.before /\ Head1.node \notin Branches(s)
  BY <1>1, HeadFacts, ContinueFacts DEF After
<1>3. \A n \in 1 .. Len(tx'.stack) : tx'.stack[n].node \in After(s)
  BY <1>1, <1>2, AfterStack
<1>4. /\ IsFiniteSet(TokensAt(img, s.join))
      /\ Cardinality(TokensAt(img, s.join)) <= Cardinality(Done(s, img))
      /\ \A t \in ActiveTokens(img) : img.tokens[t] \notin s.before
      /\ s.join \in Nodes
  BY SectionFacts DEF Late
<1>r. ASSUME img'.tasks = img.tasks,
             \A t \in ActiveTokens(img') : img'.tokens[t] \notin s.before,
             TokensAt(img', s.join) = TokensAt(img, s.join)
      PROVE  Late(s, img', tx'.stack)
  BY <1>2, <1>3, <1>4, <1>r, LateKept
<1>t. ASSUME HasFreeToken, img'.tokens = [img.tokens EXCEPT ![FreeToken] = Head1.node]
      PROVE  /\ \A t \in ActiveTokens(img') : img'.tokens[t] \notin s.before
             /\ TokensAt(img', s.join) = TokensAt(img, s.join)
  <2>1. PICK f \in TokenIds :
          /\ ActiveTokens(img') = ActiveTokens(img) \union {f}
          /\ img'.tokens[f] = Head1.node
          /\ \A t \in ActiveTokens(img) : img'.tokens[t] = img.tokens[t]
          /\ \A m \in Nodes \ {Head1.node} : TokensAt(img', m) = TokensAt(img, m)
    BY <1>2, <1>t, TokenPlaced
  <2>2. QED
    BY <1>2, <1>4, <2>1
<1>u. ASSUME img'.tokens = img.tokens, img'.tasks = img.tasks
      PROVE  Late(s, img', tx'.stack)
  <2>1. ActiveTokens(img') = ActiveTokens(img) /\ TokensAt(img', s.join) = TokensAt(img, s.join)
    BY <1>u DEF ActiveTokens, TokensAt
  <2>2. QED
    BY <1>4, <1>r, <1>u, <2>1
<1>5. ASSUME NEW who \in SUBSET Users, CreateHumanTask(who)
      PROVE  Late(s, img', tx'.stack)
  <2>1. HasFreeToken /\ img'.tokens = [img.tokens EXCEPT ![FreeToken] = Head1.node]
    BY <1>1, <1>5, HeadFacts DEF CreateHumanTask, Image
  <2>2. PICK f \in TaskIds :
          /\ img.tasks[f].status = "none"
          /\ img'.tasks[f].status \in {"pending", "blocked"}
          /\ img'.tasks[f].node = Head1.node
          /\ \A k \in TaskIds \ {f} : img'.tasks[k] = img.tasks[k]
    BY <1>5, TaskMade
  <2>3. \A k \in TaskIds : img'.tasks[k].status = "completed" <=> img.tasks[k].status = "completed"
    BY <2>2
  <2>4. \A k \in TaskIds : img.tasks[k].status = "completed" => img'.tasks[k] = img.tasks[k]
    BY <2>2
  <2>5. Done(s, img') = Done(s, img)
    BY <2>3, <2>4 DEF Done
  <2>6. OneTaskPerBranch(s, img')
    <3> SUFFICES ASSUME NEW g \in TaskIds, NEW h \in TaskIds,
                        img'.tasks[g].status # "none", img'.tasks[h].status # "none",
                        img'.tasks[g].node = img'.tasks[h].node,
                        img'.tasks[g].node \in Branches(s)
                 PROVE  g = h
      BY DEF OneTaskPerBranch
    <3>1. g # f /\ h # f
      BY <1>2, <2>2
    <3>2. QED
      BY <2>2, <3>1 DEF Late, OneTaskPerBranch
  <2>7. QED
    BY <1>2, <1>3, <1>4, <1>t, <2>1, <2>5, <2>6 DEF Late
<1>6. CASE JoinOpenTask \/ DeadEnd \/ WaitAtJoin
  <2>1. /\ HasFreeToken /\ img'.tasks = img.tasks
        /\ img'.tokens = [img.tokens EXCEPT ![FreeToken] = Head1.node]
    BY <1>1, <1>6, HeadFacts DEF JoinOpenTask, DeadEnd, WaitAtJoin, Image
  <2>2. QED
    BY <1>r, <1>t, <2>1
<1>7. CASE ReachEnd \/ PassOn \/ Split \/ NextBranch
  <2>1. img'.tokens = img.tokens /\ img'.tasks = img.tasks
    BY <1>1, <1>7, HeadFacts, RefreshFacts DEF ReachEnd, PassOn, Split, NextBranch
  <2>2. QED
    BY <1>u, <2>1
<1>8. CASE PassJoin
  <2>1. /\ img'.tasks = img.tasks
        /\ \A t \in TokenIds :
             img'.tokens[t] = IF t \in TokensAt(img, Head1.node) THEN Consumed
                              ELSE img.tokens[t]
    BY <1>8, JoinConsumes
  <2>2. \A t \in ActiveTokens(img') : img'.tokens[t] \notin s.before
    BY <1>4, <2>1, NullAssumption DEF ActiveTokens
  <2>3. TokensAt(img', s.join) = TokensAt(img, s.join)
    BY <1>2, <1>4, <2>1, NullAssumption DEF TokensAt
  <2>4. QED
    BY <1>r, <2>1, <2>2, <2>3
<1>9. QED
  BY <1>5, <1>6, <1>7, <1>8 DEF Activation

\* After the split every activation keeps the count.
LEMMA LateStep ==
  ASSUME TypeOK, NEW s \in Sections, ForkJoin(s), Late(s, img, tx.stack), Activation
  PROVE  Late(s, img', tx'.stack)
  BY JoinStep, AfterStep DEF Late

\* What an action of a person does to tasks and tokens.
LEMMA ActionFacts ==
  ASSUME IInv, NEW c \in Clients, PerformAction(c)
  PROVE  \E k \in TaskIds : \E t \in TokenIds : \E n \in Nodes :
           /\ Open(db, k) /\ db.tasks[k].node = n /\ graph.type[n] = "HUMAN_TASK"
           /\ db.tasks[k].token = t
           /\ img'.tasks[k].status = "completed" /\ img'.tasks[k].node = n
           /\ \A h \in TaskIds \ {k} : img'.tasks[h] = db.tasks[h]
           /\ t \in ActiveTokens(db) /\ db.tokens[t] = n
           /\ ActiveTokens(img') = ActiveTokens(db) \ {t}
           /\ \A u \in ActiveTokens(img') : img'.tokens[u] = db.tokens[u]
           /\ \A m \in Nodes \ {n} : TokensAt(img', m) = TokensAt(db, m)
           /\ Len(tx'.stack) = 1
           /\ tx'.stack[1].node \in Targets(n)
           /\ tx'.stack[1].next = 0
<1> DEFINE r == pending[c]
<1>t. TypeOK /\ db \in Image
  BY DEF IInv, TypeOK
<1>1. r.key \in Keys \union {NoKey}
  BY <1>t, RequestAssumption DEF PerformAction, TypeOK, Request
<1>2. PICK k \in Chosen(r) : \E i \in DOMAIN graph.out[db.tasks[k].node] :
        /\ img' = ActedOn(db, k, r.key)
        /\ tx' = [owner |-> c,
                  stack |-> <<Arrival(graph.out[db.tasks[k].node][i].to, 1)>>]
  BY DEF PerformAction
<1>3. k \in TaskIds /\ Open(db, k) /\ k \in OpenTasks(db)
  BY <1>2 DEF Chosen, Eligible, OpenTasks
<1> DEFINE n == db.tasks[k].node
           t == db.tasks[k].token
           done == [db.tasks[k] EXCEPT !.status = "completed"]
<1>4. n \in Nodes /\ t \in TokenIds /\ db.tokens[t] = n /\ graph.type[n] = "HUMAN_TASK"
  BY <1>t, <1>3 DEF IInv, ImageInv, TokensOfOpenTasks, Image, Task, Open
<1>5. /\ img'.tasks = [db.tasks EXCEPT ![k] = done]
      /\ img'.tokens = [db.tokens EXCEPT ![t] = Consumed]
  <2> DEFINE key == r.key
             j == ActedOn(db, k, key)
  <2>1. key \in Keys \union {NoKey} /\ img' = j
    BY <1>1, <1>2
  <2> HIDE DEF key
  <2>2. /\ j.tasks = [db.tasks EXCEPT ![k] = done]
        /\ j.tokens = [db.tokens EXCEPT ![t] = Consumed]
    BY <1>t, <1>3, <2>1, ActedOnFacts, ZenonT(60)
  <2> HIDE DEF j
  <2>3. QED
    BY <2>1, <2>2
<1>6. /\ db.tasks \in [TaskIds -> Task]
      /\ db.tokens \in [TokenIds -> Nodes \union {Unused, Consumed}]
  BY <1>t DEF Image
<1>7. done.status = "completed" /\ done.node = n
  BY <1>3, <1>6 DEF Task
<1> HIDE DEF done, n, t
<1>8. /\ img'.tasks[k] = done
      /\ \A h \in TaskIds \ {k} : img'.tasks[h] = db.tasks[h]
  BY <1>3, <1>5, <1>6
<1>9. /\ img'.tokens[t] = Consumed
      /\ \A u \in TokenIds \ {t} : img'.tokens[u] = db.tokens[u]
  BY <1>4, <1>5, <1>6
<1>10. /\ t \in ActiveTokens(db) /\ ActiveTokens(img') = ActiveTokens(db) \ {t}
       /\ \A u \in ActiveTokens(img') : img'.tokens[u] = db.tokens[u]
  BY <1>4, <1>9, NullAssumption DEF ActiveTokens
<1>11. \A m \in Nodes \ {n} : TokensAt(img', m) = TokensAt(db, m)
  BY <1>4, <1>9, NullAssumption DEF TokensAt
<1>12. /\ Len(tx'.stack) = 1
       /\ tx'.stack[1].node \in Targets(n)
       /\ tx'.stack[1].next = 0
  BY <1>2 DEF n, Targets, Arrival
<1>13. Open(db, k) /\ db.tasks[k].node = n /\ db.tasks[k].token = t
  BY <1>3 DEF n, t
<1>14. QED
  BY <1>3, <1>4, <1>7, <1>8, <1>10, <1>11, <1>12, <1>13

\* A person acts before the split, on a branch or behind the join.
LEMMA ActStep ==
  ASSUME IInv, NEW s \in Sections, ForkJoin(s), NEW c \in Clients, PerformAction(c),
         Early(s, db, <<>>) \/ Late(s, db, <<>>)
  PROVE  Early(s, img', tx'.stack) \/ Late(s, img', tx'.stack)
<1>t. TypeOK
  BY DEF IInv
<1>1. PICK k \in TaskIds, t \in TokenIds, n \in Nodes :
        /\ Open(db, k) /\ db.tasks[k].node = n /\ graph.type[n] = "HUMAN_TASK"
        /\ img'.tasks[k].status = "completed" /\ img'.tasks[k].node = n
        /\ \A h \in TaskIds \ {k} : img'.tasks[h] = db.tasks[h]
        /\ t \in ActiveTokens(db) /\ db.tokens[t] = n
        /\ ActiveTokens(img') = ActiveTokens(db) \ {t}
        /\ \A u \in ActiveTokens(img') : img'.tokens[u] = db.tokens[u]
        /\ \A m \in Nodes \ {n} : TokensAt(img', m) = TokensAt(db, m)
        /\ Len(tx'.stack) = 1
        /\ tx'.stack[1].node \in Targets(n)
        /\ tx'.stack[1].next = 0
  BY ActionFacts
<1>2. /\ db.tasks[k].status # "none" /\ db.tasks[k].status # "completed"
      /\ \A h \in TaskIds : /\ img'.tasks[h].node = db.tasks[h].node
                            /\ img'.tasks[h].status # "none" => db.tasks[h].status # "none"
                            /\ db.tasks[h].status = "completed" => img'.tasks[h].status = "completed"
                            /\ img'.tasks[h].status = "completed" =>
                                 h = k \/ db.tasks[h].status = "completed"
  BY <1>1 DEF Open
<1>3. CASE Early(s, db, <<>>)
  <2>1. n \in s.before
    BY <1>1, <1>2, <1>3 DEF Early
  <2>2. tx'.stack[1].node \in s.before \union {s.split}
    BY <1>1, <2>1 DEF ForkJoin
  <2>3. ActiveTokens(img') = {}
    BY <1>1, <1>3 DEF Early
  <2>4. \A h \in TaskIds : img'.tasks[h].status # "none" => img'.tasks[h].node \in s.before
    BY <1>2, <1>3 DEF Early
  <2>5. QED
    BY <1>1, <2>2, <2>3, <2>4 DEF Early
<1>4. CASE Late(s, db, <<>>)
  <2>0. /\ s.join \in Nodes /\ s.join \notin Branches(s)
        /\ IsFiniteSet(Branches(s)) /\ IsFiniteSet(Done(s, db))
    BY <1>t, SectionFacts, FS_Subset DEF Done
  <2>1. n \in Branches(s) \/ n \in After(s)
    <3>1. n \notin s.before
      BY <1>1, <1>4 DEF Late
    <3>2. n # s.split /\ n # s.join
      BY <1>1 DEF ForkJoin
    <3>3. QED
      BY <1>1, <3>1, <3>2 DEF After
  <2>2. /\ n # s.join /\ TokensAt(img', s.join) = TokensAt(db, s.join)
        /\ IsFiniteSet(TokensAt(db, s.join))
        /\ Cardinality(TokensAt(db, s.join)) <= Cardinality(Done(s, db))
        /\ \A u \in ActiveTokens(img') : img'.tokens[u] \notin s.before
    BY <1>1, <1>4, <2>0 DEF Late, ForkJoin
  <2>3. OneTaskPerBranch(s, img')
    BY <1>2, <1>4 DEF Late, OneTaskPerBranch
  <2>4. Done(s, db) \subseteq Done(s, img') /\ Done(s, img') \subseteq Branches(s)
    BY <1>2 DEF Done
  <2>5. CASE n \in Branches(s)
    <3>1. tx'.stack[1].node = s.join
      BY <1>1, <2>5 DEF ForkJoin
    <3>2. Done(s, img') = Done(s, db) \union {n}
      BY <1>1, <1>2, <2>5 DEF Done
    <3>3. n \notin Done(s, db)
      BY <1>1, <1>2, <1>4, <2>5 DEF Done, Late, OneTaskPerBranch
    <3>4. Cardinality(Done(s, img')) = Cardinality(Done(s, db)) + 1
      BY <2>0, <3>2, <3>3, FS_AddElement
    <3>5. /\ Cardinality(TokensAt(db, s.join)) \in Nat
          /\ Cardinality(Done(s, db)) \in Nat
      BY <2>0, <2>2, FS_CardinalityType
    <3>6. /\ Cardinality(TokensAt(img', s.join)) + 1 <= Cardinality(Done(s, img'))
          /\ Cardinality(TokensAt(img', s.join)) <= Cardinality(Done(s, img'))
      BY <2>2, <3>4, <3>5
    <3>7. \A h \in TaskIds :
            img'.tasks[h].status # "none" /\ img'.tasks[h].node \in After(s) =>
              Done(s, img') = Branches(s)
      BY <1>2, <1>4, <2>4 DEF Late
    <3>8. QED
      BY <1>1, <2>2, <2>3, <3>1, <3>6, <3>7 DEF Late
  <2>6. CASE n \in After(s)
    <3>1. Done(s, db) = Branches(s) /\ Done(s, img') = Done(s, db)
      BY <1>1, <1>2, <1>4, <2>4, <2>6 DEF Late
    <3>2. tx'.stack[1].node \in After(s)
      BY <1>1, <2>6 DEF ForkJoin
    <3>3. \A m \in 1 .. Len(tx'.stack) : tx'.stack[m].node \in After(s)
      BY <1>1, <3>2
    <3>4. QED
      BY <2>2, <2>3, <3>1, <3>3 DEF Late
  <2>7. QED
    BY <2>1, <2>5, <2>6
<1>5. QED
  BY <1>3, <1>4

\* An instance that was not started is before every split.
LEMMA AbsentFlow ==
  ASSUME NEW s, NEW i, i.tokens = Absent.tokens, i.tasks = Absent.tasks,
         NEW stack, \/ stack = <<>>
                    \/ /\ Len(stack) = 1 /\ stack[1].next = 0
                       /\ stack[1].node \in s.before \union {s.split}
  PROVE  Early(s, i, stack)
<1>1. ActiveTokens(i) = {}
  BY NullAssumption DEF Absent, ActiveTokens
<1>2. \A k \in TaskIds : i.tasks[k].status = "none"
  BY DEF Absent
<1>3. QED
  BY <1>1, <1>2 DEF Early

\* The graph never changes, so the flow may be shown of the next images.
LEMMA PrimeFlow ==
  ASSUME graph' = graph, NEW s
  PROVE  /\ ForkJoin(s)' <=> ForkJoin(s)
         /\ Early(s, db', <<>>) => Early(s, db, <<>>)'
         /\ Late(s, db', <<>>) => Late(s, db, <<>>)'
         /\ Early(s, img', tx'.stack) => Early(s, img, tx.stack)'
         /\ Fanning(s, img', tx'.stack) => Fanning(s, img, tx.stack)'
         /\ Late(s, img', tx'.stack) => Late(s, img, tx.stack)'
<1>1. ForkJoin(s)' <=> ForkJoin(s)
  BY DEF ForkJoin, WaitsForAll, Branches, Targets, After
<1>2. /\ Early(s, db', <<>>) => Early(s, db, <<>>)'
      /\ Early(s, img', tx'.stack) => Early(s, img, tx.stack)'
  BY DEF Early, ActiveTokens
<1>3. /\ Branches(s)' = Branches(s) /\ After(s)' = After(s)
      /\ ActiveTokens(db)' = ActiveTokens(db') /\ ActiveTokens(img)' = ActiveTokens(img')
      /\ \A n : TokensAt(db, n)' = TokensAt(db', n) /\ TokensAt(img, n)' = TokensAt(img', n)
  BY DEF Branches, Targets, After, ActiveTokens, TokensAt
<1>4. /\ OneTaskPerBranch(s, db') => OneTaskPerBranch(s, db)'
      /\ OneTaskPerBranch(s, img') => OneTaskPerBranch(s, img)'
      /\ Done(s, db)' = Done(s, db') /\ Done(s, img)' = Done(s, img')
  BY <1>3 DEF OneTaskPerBranch, Done
<1>5. \A next : Fanned(s, img', next) => Fanned(s, img, next)'
  BY <1>3, <1>4 DEF Fanned
<1>6. Fanning(s, img', tx'.stack) => Fanning(s, img, tx.stack)'
  BY <1>3, <1>5 DEF Fanning
<1>7. /\ Late(s, db', <<>>) => Late(s, db, <<>>)'
      /\ Late(s, img', tx'.stack) => Late(s, img, tx.stack)'
  BY <1>3, <1>4 DEF Late
<1>8. QED
  BY <1>1, <1>2, <1>6, <1>7

\* Every step keeps the flow of every section.
LEMMA FlowStep == IInv /\ TxInv /\ FlowInv /\ [Next]_vars => FlowInv'
<1> SUFFICES ASSUME IInv, TxInv, FlowInv, [Next]_vars
             PROVE  FlowInv'
  OBVIOUS
<1>t. TypeOK /\ db \in Image /\ img \in Image
  BY DEF IInv, TypeOK
<1>a. Starter \notin Clients /\ Nobody \notin Clients /\ Starter # Nobody
  BY NullAssumption
<1>g. graph' = graph
  BY DEF Next, vars, StartInstance, SendRequest, PerformAction, RefuseRequest, Activation,
         CreateHumanTask, JoinOpenTask, ReachEnd, PassOn, DeadEnd, Split, NextBranch,
         WaitAtJoin, PassJoin, Arrives, Commit, TooDeep, Crash, Rollback
<1> DEFINE Flow(s, i, stack) == Early(s, i, stack) \/ Fanning(s, i, stack) \/ Late(s, i, stack)
           Flat(s, i) == Early(s, i, <<>>) \/ Late(s, i, <<>>)
<1>f. \A s \in Sections : ForkJoin(s) => Flat(s, db) /\ Flow(s, img, tx.stack)
  BY DEF FlowInv
<1>p. ASSUME db'.status = "none" => db' = Absent,
             \A s \in Sections : ForkJoin(s) => Flat(s, db') /\ Flow(s, img', tx'.stack)
      PROVE  FlowInv'
  <2>1. ASSUME NEW s \in Sections, ForkJoin(s)'
        PROVE  /\ (Early(s, db, <<>>) \/ Late(s, db, <<>>))'
               /\ (\/ Early(s, img, tx.stack) \/ Fanning(s, img, tx.stack)
                   \/ Late(s, img, tx.stack))'
    BY <1>g, <1>p, <2>1, PrimeFlow
  <2>2. (db.status = "none" => db = Absent)'
    BY <1>p DEF Absent
  <2>3. QED
    BY <2>1, <2>2 DEF FlowInv
<1>s. ASSUME db' = db,
             \A s \in Sections : ForkJoin(s) => Flow(s, img', tx'.stack)
      PROVE  FlowInv'
  BY <1>f, <1>p, <1>s DEF FlowInv
<1>u. ASSUME db' = db, img' = img, tx' = tx
      PROVE  FlowInv'
  BY <1>f, <1>s, <1>u
<1>1. CASE StartInstance
  <2>1. /\ db' = db /\ db = Absent /\ db.status = "none"
        /\ img'.tokens = Absent.tokens /\ img'.tasks = Absent.tasks
    BY <1>t, <1>1 DEF StartInstance, FlowInv, Image
  <2>2. Len(tx'.stack) = 1 /\ tx'.stack[1].next = 0 /\ tx'.stack[1].node = graph.start
    BY <1>1 DEF StartInstance, Arrival
  <2>3. ASSUME NEW s \in Sections, ForkJoin(s)
        PROVE  Early(s, img', tx'.stack)
    <3>1. graph.start \in s.before
      BY <2>3 DEF ForkJoin
    <3>2. QED
      BY <2>1, <2>2, <3>1, AbsentFlow
  <2>4. QED
    BY <1>s, <2>1, <2>3
<1>2. ASSUME NEW c \in Clients, NEW r \in Requests, SendRequest(c, r)
      PROVE  FlowInv'
  BY <1>2, <1>u DEF SendRequest
<1>3. ASSUME NEW c \in Clients, PerformAction(c)
      PROVE  FlowInv'
  <2>1. db' = db
    BY <1>3 DEF PerformAction
  <2>2. ASSUME NEW s \in Sections, ForkJoin(s)
        PROVE  Flow(s, img', tx'.stack)
    BY <1>3, <1>f, <2>2, ActStep
  <2>3. QED
    BY <1>s, <2>1, <2>2
<1>4. ASSUME NEW c \in Clients, RefuseRequest(c)
      PROVE  FlowInv'
  BY <1>4, <1>u DEF RefuseRequest
<1>5. CASE Activation
  <2>1. db' = db
    BY <1>t, <1>5, ActivationFacts
  <2>2. ASSUME NEW s \in Sections, ForkJoin(s)
        PROVE  Flow(s, img', tx'.stack)
    <3>1. CASE Early(s, img, tx.stack)
      BY <1>t, <1>5, <2>2, <3>1, EarlyStep
    <3>2. CASE Fanning(s, img, tx.stack)
      BY <1>t, <1>5, <2>2, <3>2, FanStep
    <3>3. CASE Late(s, img, tx.stack)
      BY <1>t, <1>5, <2>2, <3>3, LateStep
    <3>4. QED
      BY <1>f, <2>2, <3>1, <3>2, <3>3
  <2>3. QED
    BY <1>s, <2>1, <2>2
<1>6. CASE Commit
  <2>1. /\ tx.stack = <<>> /\ tx'.stack = <<>> /\ db' = img'
        /\ img' = img \/ img' = Refresh(img)
        /\ tx.owner # Nobody
    BY <1>6 DEF Commit, Release, Idle
  <2>2. img'.tokens = img.tokens /\ img'.tasks = img.tasks
    BY <1>t, <2>1, RefreshFacts
  <2>3. ASSUME NEW s \in Sections, ForkJoin(s)
        PROVE  Flat(s, img')
    <3>1. ~Fanning(s, img, tx.stack)
      BY <2>1 DEF Fanning
    <3>2. Flat(s, img)
      BY <1>f, <2>1, <2>3, <3>1
    <3>3. QED
      BY <2>2, <3>2, FlowOfRows
  <2>4. db'.status # "none"
    <3>1. tx.owner = Starter \/ tx.owner \in Clients
      BY <1>t, <2>1 DEF TypeOK
    <3>2. img.status # "none"
      BY <3>1 DEF TxInv, StartedFrom, ServedFrom
    <3>3. QED
      BY <1>t, <2>1, <3>2, RefreshFacts
  <2>5. QED
    BY <1>p, <2>1, <2>3, <2>4
<1>7. CASE TooDeep \/ Crash
  <2>1. db' = db /\ img' = db /\ tx'.stack = <<>>
    BY <1>7 DEF TooDeep, Crash, Rollback, Release, Idle
  <2>2. QED
    BY <1>f, <1>s, <2>1
<1>8. CASE UNCHANGED vars
  BY <1>8, <1>u DEF vars
<1>9. QED
  BY <1>1, <1>2, <1>3, <1>4, <1>5, <1>6, <1>7, <1>8 DEF Next

\* Before the start nothing is early, on its way or late.
LEMMA FlowInit == Init => FlowInv
<1> SUFFICES ASSUME Init, NEW s \in Sections
             PROVE  Early(s, db, <<>>) /\ Early(s, img, tx.stack)
  BY DEF Init, FlowInv
<1>1. db = Absent /\ img = Absent /\ tx.stack = <<>>
  BY DEF Init, Idle
<1>2. QED
  BY <1>1, AbsentFlow

\* For every graph and every section of it between a split and a join for all
\* its branches: a task behind the join was opened when each branch had been
\* acted on, and the committed action rows say so.
THEOREM JoinsWaitForTheirBranches == Spec => []JoinWaitsForItsBranches
<1>1. IInv /\ FlowInv => JoinWaitsForItsBranches
  <2> SUFFICES ASSUME IInv, FlowInv, NEW s \in Sections, ForkJoin(s), NEW k \in TaskIds,
                      db.tasks[k].status # "none", db.tasks[k].node \in After(s)
               PROVE  Branches(s) \subseteq {db.tasks[h].node : h \in Served(db)}
    BY DEF JoinWaitsForItsBranches
  <2>1. ~Early(s, db, <<>>)
    BY DEF Early, After
  <2>2. Done(s, db) = Branches(s)
    BY <2>1 DEF FlowInv, Late
  <2>3. Served(db) = {h \in TaskIds : db.tasks[h].status = "completed"}
    BY DEF IInv, ImageInv, LogIsExact
  <2>4. QED
    BY <2>2, <2>3 DEF Done
<1>2. QED
  BY <1>1, FlowInit, FlowStep, InvAlways, TxInvAlways, PTL DEF Spec

-----------------------------------------------------------------------------
(* Nobody is stuck *)

NotStuck(i) == i.status \in {"running", "blocked"} => OpenTasks(i) # {}

\* One token in region R, or an activation that carries it, maybe out to X.
Alone(R, X, i, stack) ==
  /\ \A t \in ActiveTokens(i) : i.tokens[t] \in R
  /\ \A t, u \in ActiveTokens(i) : t = u
  /\ \/ stack = <<>> /\ NotStuck(i)
     \/ /\ ActiveTokens(i) = {}
        /\ Len(stack) = 1
        /\ stack[1].node \in R \union X
        /\ stack[1].next = 0

\* The first branches of the split have an open task each, nobody else has.
Filled(s, i, last) ==
  /\ Done(s, i) = {}
  /\ \A t \in ActiveTokens(i) : \E k \in OpenTasks(i) : i.tasks[k].token = t
  /\ \A k \in OpenTasks(i) :
       \E h \in DOMAIN graph.out[s.split] :
         h <= last /\ i.tasks[k].node = graph.out[s.split][h].to
  /\ \A h \in DOMAIN graph.out[s.split] :
       h <= last => \E k \in OpenTasks(i) : i.tasks[k].node = graph.out[s.split][h].to

Filling(s, i, stack) ==
  \/ /\ Len(stack) = 1
     /\ stack[1].node = s.split
     /\ stack[1].next > 0
     /\ Filled(s, i, stack[1].next - 1)
  \/ /\ Len(stack) = 2
     /\ stack[1].next = 0
     /\ stack[2].node = s.split
     /\ stack[2].next - 1 \in DOMAIN graph.out[s.split]
     /\ stack[1].node = graph.out[s.split][stack[2].next - 1].to
     /\ Filled(s, i, stack[2].next - 2)

\* Each branch has had a task, and as many tokens wait at the join as branches
\* are done, but never all of them.
Waiting(s, i, stack) ==
  /\ \A t \in ActiveTokens(i) :
       i.tokens[t] = s.join \/ \E k \in OpenTasks(i) : i.tasks[k].token = t
  /\ \A k \in OpenTasks(i) : i.tasks[k].node \in Branches(s) \ Done(s, i)
  /\ \A n \in Branches(s) : \E k \in TaskIds : i.tasks[k].status # "none" /\ i.tasks[k].node = n
  /\ IsFiniteSet(TokensAt(i, s.join))
  /\ \/ /\ stack = <<>>
        /\ Done(s, i) # Branches(s)
        /\ Cardinality(Done(s, i)) = Cardinality(TokensAt(i, s.join))
     \/ /\ Len(stack) = 1
        /\ stack[1].node = s.join
        /\ stack[1].next = 0
        /\ Cardinality(Done(s, i)) = Cardinality(TokensAt(i, s.join)) + 1

Steady(s, i, stack) ==
  \/ Alone(s.before, {s.split}, i, stack)
  \/ Filling(s, i, stack)
  \/ Waiting(s, i, stack)
  \/ Alone(After(s), {}, i, stack)

BalanceInv ==
  /\ OneAtATime(Nodes) => Alone(Nodes, {}, db, <<>>) /\ Alone(Nodes, {}, img, tx.stack)
  /\ \A s \in Sections : TakesAll(s) => Steady(s, db, <<>>) /\ Steady(s, img, tx.stack)

\* A transition without condition is enough for one to be selected.
LEMMA SelectedExists ==
  ASSUME TypeOK, NEW n \in Nodes, AlwaysGoesOn(n)
  PROVE  Selected(n, context) # {}
<1> DEFINE D == DOMAIN graph.out[n]
           T == {j \in D : Holds(graph.out[n][j], context)}
<1>1. graph \in Graph
  BY GraphAssumption DEF TypeOK
<1>2. graph.out[n] \in Seq(Transition)
  BY <1>1 DEF Graph
<1>3. D = 1 .. Len(graph.out[n]) /\ Len(graph.out[n]) \in Nat
  BY <1>2, ElementType
<1>4. T # {} /\ T \subseteq Nat
  BY <1>3 DEF AlwaysGoesOn, Holds
<1> HIDE DEF T
<1>5. PICK x \in T : \A y \in T : ~ (<<y, x>> \in OpToRel(<, Nat))
  BY <1>4, NatLessThanWellFounded, WFMin
<1>6. \A y \in T : ~ (y < x)
  BY <1>4, <1>5 DEF OpToRel
<1>7. x \in D /\ Holds(graph.out[n][x], context)
  BY DEF T
<1>8. \A h \in 1 .. x - 1 : h \in D /\ h < x
  BY <1>3, <1>7
<1>9. \A h \in 1 .. x - 1 : ~Holds(graph.out[n][h], context)
  BY <1>6, <1>8 DEF T
<1>10. graph.out[n][x] \in Selected(n, context)
  BY <1>7, <1>9 DEF Selected
<1>11. QED
  BY <1>10

\* The join of a section that takes all its branches waits for no more tokens
\* than there are branches.
LEMMA ThresholdIsLow ==
  ASSUME TypeOK, NEW s \in Sections, TakesAll(s)
  PROVE  Threshold(s.join) <= Cardinality(Branches(s))
<1> DEFINE B == Branches(s)
           At(m) == {j \in DOMAIN graph.out[m] : graph.out[m][j].to = s.join}
           In(m) == {<<m, i>> : i \in At(m)}
           I == UNION {In(m) : m \in Nodes}
<1>0. ForkJoin(s)
  BY DEF TakesAll
<1>1. B \subseteq Nodes /\ IsFiniteSet(B) /\ s.join \in Nodes
  BY <1>0, SectionFacts
<1>2. graph \in Graph
  BY GraphAssumption DEF TypeOK
<1>3. ASSUME NEW m \in Nodes, NEW j \in At(m)
      PROVE  m \in B
  <2>1. s.join \in Targets(m)
    BY DEF Targets
  <2>2. m \notin s.before /\ m # s.split /\ m \notin After(s) \union {s.join}
    BY <1>0, <2>1, SectionFacts DEF ForkJoin, Branches, After
  <2>3. QED
    BY <2>2 DEF After
<1>4. Incoming(s.join) = Cardinality(I)
  BY DEF Incoming
<1>5. /\ graph.strategy[s.join] \in {"ALL", "ANY", "QUORUM"}
      /\ graph.quorum[s.join] \in Nat \union {NoQuorum}
      /\ graph.strategy[s.join] # "ANY"
  BY <1>0, <1>1, <1>2 DEF Graph, ForkJoin, WaitsForAll
<1>6. Cardinality(B) \in Nat /\ Cardinality(B) >= 1
  BY <1>1, FS_CardinalityType, FS_EmptySet DEF TakesAll
<1>7. ASSUME \A m \in B : Len(graph.out[m]) = 1
      PROVE  Cardinality(I) <= Cardinality(B)
  <2> DEFINE f == [e \in I |-> e[1]]
  <2>1. ASSUME NEW e \in I
        PROVE  e[1] \in B /\ e = <<e[1], 1>>
    <3>1. PICK m \in Nodes : e \in In(m)
      OBVIOUS
    <3>2. PICK j \in At(m) : e = <<m, j>>
      BY <3>1
    <3>3. m \in B
      BY <1>3
    <3>4. graph.out[m] \in Seq(Transition)
      BY <1>2 DEF Graph
    <3>5. DOMAIN graph.out[m] = 1 .. Len(graph.out[m])
      BY <3>4, ElementType
    <3>6. j = 1
      BY <1>7, <3>3, <3>5
    <3>7. QED
      BY <3>2, <3>3, <3>6
  <2>2. \A e \in I : f[e] \in B
    BY <2>1
  <2>3. ASSUME NEW d \in I, NEW e \in I, f[d] = f[e]
        PROVE  d = e
    <3>1. d[1] = e[1]
      BY <2>3
    <3>2. d = <<d[1], 1>> /\ e = <<e[1], 1>>
      BY <2>1
    <3>3. QED
      BY <3>1, <3>2
  <2> HIDE DEF I
  <2>4. f \in Injection(I, B)
    BY <2>2, <2>3 DEF Injection, IsInjective
  <2>5. QED
    BY <1>1, <2>4, FS_Injection
<1> HIDE DEF I
<1>8. CASE graph.strategy[s.join] = "ALL" \/ graph.quorum[s.join] = NoQuorum
  <2>1. Threshold(s.join) = Cardinality(I)
    BY <1>4, <1>5, <1>8 DEF Threshold
  <2>2. \A m \in B : Len(graph.out[m]) = 1
    BY <1>8 DEF TakesAll
  <2>3. QED
    BY <1>7, <2>1, <2>2
<1>9. CASE graph.strategy[s.join] = "QUORUM" /\ graph.quorum[s.join] # NoQuorum
  <2>1. Threshold(s.join) = IF graph.quorum[s.join] > 1 THEN graph.quorum[s.join] ELSE 1
    BY <1>9 DEF Threshold
  <2>2. graph.quorum[s.join] <= Cardinality(B) /\ graph.quorum[s.join] \in Nat
    BY <1>5, <1>9 DEF TakesAll
  <2>3. QED
    BY <1>6, <2>1, <2>2
<1>10. QED
  BY <1>5, <1>8, <1>9

\* Without a token there is no open task.
LEMMA NoTokenNoTask ==
  ASSUME IInv, ActiveTokens(img) = {}
  PROVE  OpenTasks(img) = {}
<1> SUFFICES ASSUME NEW k \in OpenTasks(img)
             PROVE  FALSE
  OBVIOUS
<1>1. /\ img.tasks[k].token \in TokenIds /\ img.tasks[k].node \in Nodes
      /\ img.tokens[img.tasks[k].token] = img.tasks[k].node
  BY DEF IInv, TypeOK, ImageInv, TokensOfOpenTasks, Image, Task, OpenTasks, Open
<1>2. QED
  BY <1>1 DEF ActiveTokens

\* The last activation ends.
LEMMA LastContinue ==
  ASSUME TypeOK, tx.stack # <<>>, Len(tx.stack) = 1, Continue(<<>>)
  PROVE  tx'.stack = <<>>
<1>1. Len(tx'.stack) = 0
  BY ContinueFacts
<1>2. tx'.stack \in Seq(Entry)
  BY HeadFacts, ContinueStack
<1>3. QED
  BY <1>1, <1>2, EmptySeq

\* A region that is left only for X and where one token stays one token.
LEMMA AloneStep ==
  ASSUME IInv, NEW R \in SUBSET Nodes, NEW X \in SUBSET Nodes, OneAtATime(R),
         \A n \in R : Targets(n) \subseteq R \union X,
         Alone(R, X, img, tx.stack), Activation, Head1.node \in R
  PROVE  Alone(R, X, img', tx'.stack)
<1>t. TypeOK /\ img \in Image
  BY DEF IInv, TypeOK
<1>1. tx.stack # <<>>
  BY <1>t, ActivationFacts
<1>2. /\ ActiveTokens(img) = {} /\ Len(tx.stack) = 1 /\ Head1.next = 0
      /\ Head1.node \in Nodes /\ Head1.depth \in Nat
  BY <1>t, <1>1, HeadFacts DEF Alone
<1>3. OpenTasks(img) = {}
  BY <1>2, NoTokenNoTask
<1>4. /\ graph.type[Head1.node] \notin {"PARALLEL_SPLIT", "PARALLEL_JOIN"}
      /\ graph.type[Head1.node] \in {"START", "SERVICE_TASK", "CONDITION"} =>
           AlwaysGoesOn(Head1.node)
  BY DEF OneAtATime
<1>5. ~JoinOpenTask
  BY <1>3 DEF JoinOpenTask, HasOpenTask
<1>6. ~DeadEnd
  <2> SUFFICES ASSUME DeadEnd
               PROVE  FALSE
    OBVIOUS
  <2>1. Selected(Head1.node, context) = {} /\ AlwaysGoesOn(Head1.node)
    BY <1>4 DEF DeadEnd, Arrives
  <2>2. QED
    BY <1>t, <1>2, <2>1, SelectedExists
<1>7. ~Split /\ ~WaitAtJoin /\ ~PassJoin
  BY <1>4 DEF Split, WaitAtJoin, PassJoin, Arrives
<1>8. ~NextBranch
  BY <1>2 DEF NextBranch
<1>9. ASSUME Continue(<<>>)
      PROVE  tx'.stack = <<>>
  BY <1>t, <1>1, <1>2, <1>9, LastContinue
<1>10. ASSUME NEW who \in SUBSET Users, CreateHumanTask(who)
       PROVE  Alone(R, X, img', tx'.stack)
  <2>1. /\ HasFreeToken /\ tx'.stack = <<>>
        /\ img'.tokens = [img.tokens EXCEPT ![FreeToken] = Head1.node]
    BY <1>t, <1>1, <1>9, <1>10, HeadFacts DEF CreateHumanTask, Image
  <2>2. PICK f \in TokenIds : ActiveTokens(img') = {f} /\ img'.tokens[f] = Head1.node
    BY <1>t, <1>2, <2>1, TokenPlaced
  <2>3. OpenTasks(img') # {}
    BY <1>t, <1>10, TaskMade DEF OpenTasks, Open
  <2>4. QED
    BY <2>1, <2>2, <2>3 DEF Alone, NotStuck
<1>11. CASE ReachEnd
  <2>1. img' = Refresh(Here) /\ tx'.stack = <<>>
    BY <1>9, <1>11 DEF ReachEnd
  <2>2. ActiveTokens(Here) = {}
    BY <1>t, <1>1, <1>2, HeadFacts DEF ActiveTokens
  <2>3. img'.tokens = img.tokens /\ img'.status = "completed"
    BY <1>t, <1>1, <2>1, <2>2, HeadFacts, RefreshFacts
  <2>4. ActiveTokens(img') = {}
    BY <1>2, <2>3 DEF ActiveTokens
  <2>5. QED
    BY <2>1, <2>3, <2>4 DEF Alone, NotStuck
<1>12. CASE PassOn
  <2>1. PICK tr \in Selected(Head1.node, context) :
          img' = Here /\ Continue(<<Arrival(tr.to, Head1.depth + 2)>>)
    BY <1>12 DEF PassOn
  <2>2. tr.to \in R \union X /\ tr.to \in Nodes
    BY SelectedTarget
  <2>3. /\ Arrival(tr.to, Head1.depth + 2) \in Entry
        /\ Arrival(tr.to, Head1.depth + 2).node = tr.to
        /\ Arrival(tr.to, Head1.depth + 2).next = 0
    BY <1>t, <1>1, <1>2, <2>2, HeadFacts
  <2>4. Len(tx'.stack) = 1 /\ tx'.stack[1] = Arrival(tr.to, Head1.depth + 2)
    BY <1>t, <1>1, <1>2, <2>1, <2>3, ContinueFacts
  <2>5. ActiveTokens(img') = {}
    BY <1>t, <1>1, <1>2, <2>1, HeadFacts DEF ActiveTokens
  <2>6. QED
    BY <2>2, <2>3, <2>4, <2>5 DEF Alone
<1>13. QED
  BY <1>5, <1>6, <1>7, <1>8, <1>10, <1>11, <1>12 DEF Activation

\* The split opens its first branch.
LEMMA SplitStep ==
  ASSUME IInv, NEW s \in Sections, TakesAll(s),
         Early(s, img, tx.stack) \/ Fanning(s, img, tx.stack) \/ Late(s, img, tx.stack),
         Alone(s.before, {s.split}, img, tx.stack), Activation, Head1.node = s.split
  PROVE  Filling(s, img', tx'.stack)
<1>t. TypeOK /\ img \in Image /\ ForkJoin(s)
  BY DEF IInv, TypeOK, TakesAll
<1>1. tx.stack # <<>>
  BY <1>t, ActivationFacts
<1>2. /\ ActiveTokens(img) = {} /\ Len(tx.stack) = 1 /\ Head1 = tx.stack[1]
      /\ Head1.next = 0 /\ Head1 \in Entry
  BY <1>t, <1>1, HeadFacts DEF Alone
<1>3. /\ graph.type[s.split] = "PARALLEL_SPLIT" /\ s.split # s.join
      /\ \A n \in Branches(s) : n \notin s.before
      /\ DOMAIN graph.out[s.split] = 1 .. Len(graph.out[s.split])
      /\ Len(graph.out[s.split]) \in Nat
  BY <1>t, SectionFacts DEF ForkJoin
<1>4. ~Fanning(s, img, tx.stack)
  BY <1>2 DEF Fanning, Fanned
<1>5. ~Late(s, img, tx.stack)
  BY <1>2, <1>3 DEF Late, After
<1>6. Done(s, img) = {}
  BY <1>3, <1>4, <1>5 DEF Early, Done
<1>7. \A types : "PARALLEL_SPLIT" \notin types => ~Arrives(types)
  BY <1>3 DEF Arrives
<1>8. /\ ~ReachEnd /\ ~PassOn /\ ~DeadEnd /\ ~WaitAtJoin /\ ~PassJoin /\ ~JoinOpenTask
      /\ \A who \in SUBSET Users : ~CreateHumanTask(who)
  BY <1>7 DEF ReachEnd, PassOn, DeadEnd, WaitAtJoin, PassJoin, JoinOpenTask, CreateHumanTask
<1>9. ~NextBranch
  BY <1>2 DEF NextBranch
<1>10. Split
  BY <1>8, <1>9 DEF Activation
<1> DEFINE e == [Head1 EXCEPT !.next = 1]
<1>11. e \in Entry /\ e.node = s.split /\ e.next = 1
  BY <1>2 DEF Entry
<1>12. Continue(<<e>>) /\ img' = Here
  BY <1>10 DEF Split
<1> HIDE DEF e
<1>13. Len(tx'.stack) = 1 /\ tx'.stack[1] = e
  BY <1>t, <1>1, <1>2, <1>11, <1>12, ContinueFacts
<1>14. img'.tokens = img.tokens /\ img'.tasks = img.tasks
  BY <1>t, <1>1, <1>12, HeadFacts
<1>15. Done(s, img') = {} /\ ActiveTokens(img') = {} /\ OpenTasks(img') = OpenTasks(img)
  BY <1>2, <1>6, <1>14 DEF Done, ActiveTokens, OpenTasks, Open
<1>16. OpenTasks(img) = {}
  BY <1>t, <1>2, NoTokenNoTask
<1>17. Filled(s, img', 0)
  BY <1>3, <1>15, <1>16 DEF Filled
<1>18. QED
  BY <1>11, <1>13, <1>17 DEF Filling

\* Every branch gets its task; then the transaction waits for people.
LEMMA FillStep ==
  ASSUME IInv, NEW s \in Sections, TakesAll(s), Filling(s, img, tx.stack), Activation
  PROVE  Filling(s, img', tx'.stack) \/ Waiting(s, img', tx'.stack)
<1>t. TypeOK /\ img \in Image /\ ForkJoin(s)
  BY DEF IInv, TypeOK, TakesAll
<1>1. tx.stack # <<>> /\ tx.stack \in Seq(Entry)
  BY <1>t, ActivationFacts DEF TypeOK
<1>2. /\ s.split \in Nodes /\ s.join \in Nodes /\ Branches(s) \subseteq Nodes
      /\ s.join \notin Branches(s) /\ Branches(s) # {}
      /\ DOMAIN graph.out[s.split] = 1 .. Len(graph.out[s.split])
      /\ Len(graph.out[s.split]) \in Nat
      /\ \A n \in Branches(s) : graph.type[n] = "HUMAN_TASK"
      /\ \A h \in DOMAIN graph.out[s.split] : graph.out[s.split][h].to \in Branches(s)
  BY <1>t, SectionFacts DEF ForkJoin, TakesAll, Branches, Targets
<1>3. CASE Len(tx.stack) = 1
  <2>1. PICK m \in Nat : /\ m = Head1.next /\ m = tx.stack[1].next /\ m > 0
                         /\ Head1.node = s.split /\ Filled(s, img, m - 1)
    BY <1>t, <1>1, <1>3, HeadFacts DEF Filling
  <2>2. \A types : ~Arrives(types)
    BY <2>1 DEF Arrives
  <2>3. NextBranch
    BY <2>2 DEF Activation, CreateHumanTask, JoinOpenTask, ReachEnd, PassOn, DeadEnd, Split,
                WaitAtJoin, PassJoin
  <2>4. img' = img
    BY <2>3 DEF NextBranch
  <2>5. CASE m \in DOMAIN graph.out[s.split]
    <3> DEFINE next == [Head1 EXCEPT !.next = m + 1]
               to == graph.out[s.split][m].to
               arrival == Arrival(to, Head1.depth + 1)
    <3>1. next \in Entry /\ next.node = s.split /\ next.next = m + 1
      BY <1>t, <1>1, <2>1, HeadFacts DEF Entry
    <3>2. to \in Nodes /\ Head1.depth + 1 \in Nat
      BY <1>t, <1>1, <1>2, <2>5, HeadFacts
    <3>3. arrival \in Entry /\ arrival.node = to /\ arrival.next = 0
      BY <1>t, <1>1, <3>2, HeadFacts
    <3>4. Holds(graph.out[s.split][m], context)
      BY <2>5 DEF TakesAll, Holds
    <3>5. Continue(<<arrival>> \o <<next>>)
      BY <2>1, <2>3, <2>5, <3>4 DEF NextBranch
    <3>6. <<arrival>> \o <<next>> = <<arrival, next>>
      BY <3>1, <3>3, PairOfEntries
    <3> HIDE DEF arrival, next
    <3>7. Continue(<<arrival, next>>)
      BY <3>5, <3>6
    <3>8. Len(tx'.stack) = 2 /\ tx'.stack[1] = arrival /\ tx'.stack[2] = next
      BY <1>t, <1>1, <1>3, <3>1, <3>3, <3>7, ContinueFacts
    <3>9. (m + 1) - 1 = m /\ (m + 1) - 2 = m - 1
      OBVIOUS
    <3>10. QED
      BY <2>1, <2>4, <2>5, <3>1, <3>3, <3>8, <3>9 DEF Filling
  <2>6. CASE m \notin DOMAIN graph.out[s.split]
    <3>1. Continue(<<>>)
      BY <2>1, <2>3, <2>6 DEF NextBranch
    <3>2. tx'.stack = <<>>
      BY <1>t, <1>1, <1>3, <3>1, LastContinue
    <3>3. \A h \in DOMAIN graph.out[s.split] : h <= m - 1
      BY <1>2, <2>1, <2>6
    <3>4. /\ Done(s, img) = {}
          /\ \A t \in ActiveTokens(img) : \E k \in OpenTasks(img) : img.tasks[k].token = t
          /\ \A k \in OpenTasks(img) : img.tasks[k].node \in Branches(s)
      BY <1>2, <2>1 DEF Filled
    <3>5. \A n \in Branches(s) : \E k \in OpenTasks(img) : img.tasks[k].node = n
      BY <2>1, <3>3 DEF Filled, Branches, Targets
    <3>6. \A n \in Branches(s) :
            \E k \in TaskIds : img.tasks[k].status # "none" /\ img.tasks[k].node = n
      BY <3>5 DEF OpenTasks, Open
    <3>7. TokensAt(img, s.join) = {}
      <4>1. \A k \in OpenTasks(img) : img.tokens[img.tasks[k].token] = img.tasks[k].node
        BY DEF IInv, ImageInv, TokensOfOpenTasks
      <4>2. \A t \in ActiveTokens(img) : img.tokens[t] \in Branches(s)
        BY <3>4, <4>1
      <4>3. QED
        BY <1>2, <4>2 DEF TokensAt, ActiveTokens
    <3>8. IsFiniteSet({}) /\ Cardinality({}) = 0
      BY FS_EmptySet
    <3>9. Waiting(s, img, <<>>)
      BY <1>2, <3>4, <3>6, <3>7, <3>8 DEF Waiting
    <3>10. QED
      BY <2>4, <3>2, <3>9
  <2>7. QED
    BY <2>5, <2>6
<1>4. CASE Len(tx.stack) = 2
  <2>0. tx.stack[2] \in Entry
    BY <1>1, <1>4, ElementOfSeq
  <2>1. PICK m \in Nat : /\ m = tx.stack[2].next /\ tx.stack[2].node = s.split
                         /\ m - 1 \in DOMAIN graph.out[s.split]
                         /\ Filled(s, img, m - 2)
                         /\ Head1.next = 0
                         /\ Head1.node = graph.out[s.split][m - 1].to
    <3>1. /\ tx.stack[2].node = s.split /\ tx.stack[2].next - 1 \in DOMAIN graph.out[s.split]
          /\ Filled(s, img, tx.stack[2].next - 2)
          /\ tx.stack[1].next = 0
          /\ tx.stack[1].node = graph.out[s.split][tx.stack[2].next - 1].to
      BY <1>4 DEF Filling
    <3>2. tx.stack[2].next \in Nat /\ Head1 = tx.stack[1]
      BY <2>0 DEF Entry, Head1
    <3>3. QED
      BY <3>1, <3>2
  <2>2. PICK n \in Branches(s) : n = Head1.node /\ n = graph.out[s.split][m - 1].to
    BY <1>2, <2>1
  <2>3. graph.type[n] = "HUMAN_TASK" /\ n \in Nodes
    BY <1>2
  <2>4. \A h \in DOMAIN graph.out[s.split] : h <= m - 2 => graph.out[s.split][h].to # n
    <3> SUFFICES ASSUME NEW h \in DOMAIN graph.out[s.split], h <= m - 2,
                        graph.out[s.split][h].to = n
                 PROVE  FALSE
      OBVIOUS
    <3>1. graph.out[s.split][h].to = graph.out[s.split][m - 1].to => h = m - 1
      BY <1>t, <2>1 DEF ForkJoin
    <3>2. h \in Nat
      BY <1>2
    <3>3. QED
      BY <2>2, <3>1, <3>2
  <2>5. ~HasOpenTask(img, n)
    BY <2>1, <2>4 DEF Filled, HasOpenTask
  <2>6. \A types : "HUMAN_TASK" \notin types => ~Arrives(types)
    BY <2>2, <2>3 DEF Arrives
  <2>7. ~ReachEnd /\ ~PassOn /\ ~DeadEnd /\ ~Split /\ ~WaitAtJoin /\ ~PassJoin
    BY <2>6 DEF ReachEnd, PassOn, DeadEnd, Split, WaitAtJoin, PassJoin
  <2>8. ~NextBranch /\ ~JoinOpenTask
    <3>1. ~NextBranch
      BY <2>1 DEF NextBranch
    <3>2. ~JoinOpenTask
      BY <2>2, <2>5 DEF JoinOpenTask
    <3>3. QED
      BY <3>1, <3>2
  <2>9. PICK who \in SUBSET Users : CreateHumanTask(who)
    BY <2>7, <2>8 DEF Activation
  <2>10. /\ HasFreeToken /\ Continue(<<>>)
         /\ img'.tokens = [img.tokens EXCEPT ![FreeToken] = n]
    BY <1>t, <1>1, <2>2, <2>9, HeadFacts DEF CreateHumanTask, Image
  <2>11. Len(tx'.stack) = 1 /\ tx'.stack[1] = tx.stack[2]
    BY <1>t, <1>1, <1>4, <2>10, ContinueFacts
  <2>12. PICK f \in TaskIds : /\ img.tasks[f].status = "none"
                              /\ img'.tasks[f].status \in {"pending", "blocked"}
                              /\ img'.tasks[f].node = n
                              /\ img'.tasks[f].token = FreeToken
                              /\ \A k \in TaskIds \ {f} : img'.tasks[k] = img.tasks[k]
    BY <1>t, <2>2, <2>9, TaskMade
  <2>13. /\ OpenTasks(img') = OpenTasks(img) \union {f}
         /\ \A k \in OpenTasks(img) : img'.tasks[k] = img.tasks[k]
    BY <2>12 DEF OpenTasks, Open
  <2>14. ActiveTokens(img') \subseteq ActiveTokens(img) \union {FreeToken}
    BY <1>t, <2>10 DEF ActiveTokens, Image
  <2>15. Done(s, img') = {}
    <3>1. \A k \in TaskIds : img'.tasks[k].status = "completed" =>
                               img.tasks[k].status = "completed" /\ img'.tasks[k] = img.tasks[k]
      BY <2>12
    <3>2. Done(s, img) = {}
      BY <2>1 DEF Filled
    <3>3. QED
      BY <3>1, <3>2 DEF Done
  <2>16. \A t \in ActiveTokens(img') : \E k \in OpenTasks(img') : img'.tasks[k].token = t
    BY <2>1, <2>12, <2>13, <2>14 DEF Filled
  <2>17. /\ m - 2 <= m - 1 /\ m - 1 <= m - 1
         /\ \A h \in DOMAIN graph.out[s.split] : h <= m - 1 => (h <= m - 2 \/ h = m - 1)
         /\ \A h \in DOMAIN graph.out[s.split] : h <= m - 2 => h <= m - 1
    BY <1>2
  <2>18. \A k \in OpenTasks(img') :
           \E h \in DOMAIN graph.out[s.split] :
             h <= m - 1 /\ img'.tasks[k].node = graph.out[s.split][h].to
    <3> SUFFICES ASSUME NEW k \in OpenTasks(img')
                 PROVE  \E h \in DOMAIN graph.out[s.split] :
                          h <= m - 1 /\ img'.tasks[k].node = graph.out[s.split][h].to
      OBVIOUS
    <3>1. CASE k = f
      BY <2>1, <2>2, <2>12, <2>17, <3>1
    <3>2. CASE k \in OpenTasks(img)
      <4>1. PICK h \in DOMAIN graph.out[s.split] :
              h <= m - 2 /\ img.tasks[k].node = graph.out[s.split][h].to
        BY <2>1, <3>2 DEF Filled
      <4>2. img'.tasks[k] = img.tasks[k]
        BY <2>13, <3>2
      <4>3. h <= m - 1
        BY <1>2, <4>1
      <4>4. QED
        BY <4>1, <4>2, <4>3
    <3>3. QED
      BY <2>13, <3>1, <3>2
  <2>19. \A h \in DOMAIN graph.out[s.split] :
           h <= m - 1 => \E k \in OpenTasks(img') : img'.tasks[k].node = graph.out[s.split][h].to
    <3> SUFFICES ASSUME NEW h \in DOMAIN graph.out[s.split], h <= m - 1
                 PROVE  \E k \in OpenTasks(img') :
                          img'.tasks[k].node = graph.out[s.split][h].to
      OBVIOUS
    <3>1. CASE h = m - 1
      BY <2>2, <2>12, <2>13, <3>1
    <3>2. CASE h <= m - 2
      <4>1. PICK k \in OpenTasks(img) : img.tasks[k].node = graph.out[s.split][h].to
        BY <2>1, <3>2 DEF Filled
      <4>2. QED
        BY <2>13, <4>1
    <3>3. QED
      BY <2>17, <3>1, <3>2
  <2>20. Filled(s, img', m - 1)
    BY <2>15, <2>16, <2>18, <2>19 DEF Filled
  <2>21. m > 0
    BY <1>2, <2>1
  <2>22. QED
    BY <2>1, <2>11, <2>20, <2>21 DEF Filling
<1>5. QED
  BY <1>3, <1>4 DEF Filling

\* The last token to reach the join passes it alone, the others wait.
LEMMA WaitStep ==
  ASSUME IInv, NEW s \in Sections, TakesAll(s), Waiting(s, img, tx.stack), Activation
  PROVE  Waiting(s, img', tx'.stack) \/ Alone(After(s), {}, img', tx'.stack)
<1>t. TypeOK /\ img \in Image /\ ForkJoin(s)
  BY DEF IInv, TypeOK, TakesAll
<1>1. tx.stack # <<>>
  BY <1>t, ActivationFacts
<1>2. /\ Len(tx.stack) = 1 /\ Head1.node = s.join /\ Head1.next = 0 /\ Head1.depth \in Nat
      /\ Cardinality(Done(s, img)) = Cardinality(TokensAt(img, s.join)) + 1
      /\ IsFiniteSet(TokensAt(img, s.join))
      /\ \A t \in ActiveTokens(img) :
           img.tokens[t] = s.join \/ \E k \in OpenTasks(img) : img.tasks[k].token = t
      /\ \A k \in OpenTasks(img) : img.tasks[k].node \in Branches(s) \ Done(s, img)
      /\ \A n \in Branches(s) :
           \E k \in TaskIds : img.tasks[k].status # "none" /\ img.tasks[k].node = n
  BY <1>t, <1>1, HeadFacts DEF Waiting
<1>3. /\ s.join \in Nodes /\ graph.type[s.join] = "PARALLEL_JOIN"
      /\ Targets(s.join) \subseteq After(s)
  BY <1>t, SectionFacts DEF ForkJoin
<1>4. /\ Done(s, img) \subseteq Branches(s) /\ IsFiniteSet(Branches(s))
      /\ IsFiniteSet(Done(s, img))
      /\ Cardinality(Done(s, img)) \in Nat /\ Cardinality(Branches(s)) \in Nat
      /\ Cardinality(TokensAt(img, s.join)) \in Nat
      /\ Cardinality(Done(s, img)) <= Cardinality(Branches(s))
      /\ Cardinality(Done(s, img)) = Cardinality(Branches(s)) => Done(s, img) = Branches(s)
  <2>1. Done(s, img) \subseteq Branches(s) /\ IsFiniteSet(Branches(s))
    BY <1>t, SectionFacts DEF Done
  <2>2. QED
    BY <1>2, <2>1, FS_Subset, FS_CardinalityType
<1>5. Threshold(s.join) \in Nat /\ Threshold(s.join) = Cardinality(Branches(s))
  BY <1>t, <1>4, ThresholdIsHigh, ThresholdIsLow
<1>6. \A types : "PARALLEL_JOIN" \notin types => ~Arrives(types)
  BY <1>2, <1>3 DEF Arrives
<1>7. /\ ~(\E who \in SUBSET Users : CreateHumanTask(who))
      /\ ~JoinOpenTask /\ ~ReachEnd /\ ~PassOn /\ ~DeadEnd /\ ~Split
  BY <1>6 DEF CreateHumanTask, JoinOpenTask, ReachEnd, PassOn, DeadEnd, Split
<1>8. ~NextBranch
  BY <1>2 DEF NextBranch
<1>9. CASE WaitAtJoin
  <2>1. /\ HasFreeToken /\ Continue(<<>>) /\ img'.tasks = img.tasks
        /\ img'.tokens = [img.tokens EXCEPT ![FreeToken] = s.join]
    BY <1>t, <1>1, <1>2, <1>9, HeadFacts DEF WaitAtJoin, Image
  <2>2. PICK f \in TokenIds :
          /\ ActiveTokens(img') = ActiveTokens(img) \union {f}
          /\ img'.tokens[f] = s.join
          /\ \A t \in ActiveTokens(img) : img'.tokens[t] = img.tokens[t]
          /\ TokensAt(img', s.join) = TokensAt(img, s.join) \union {f}
          /\ f \notin TokensAt(img, s.join)
    BY <1>t, <1>3, <2>1, TokenPlaced
  <2>3. /\ IsFiniteSet(TokensAt(img', s.join))
        /\ Cardinality(TokensAt(img', s.join)) = Cardinality(TokensAt(img, s.join)) + 1
    BY <1>2, <2>2, FS_AddElement
  <2>4. Done(s, img') = Done(s, img) /\ OpenTasks(img') = OpenTasks(img)
    BY <2>1 DEF Done, OpenTasks, Open
  <2>5. Done(s, img) # Branches(s)
    BY <1>2, <1>4, <1>5, <1>9 DEF WaitAtJoin
  <2>6. tx'.stack = <<>>
    BY <1>t, <1>1, <1>2, <2>1, LastContinue
  <2>7. \A t \in ActiveTokens(img') :
          img'.tokens[t] = s.join \/ \E k \in OpenTasks(img') : img'.tasks[k].token = t
    BY <1>2, <2>1, <2>2, <2>4
  <2>8. Waiting(s, img', <<>>)
    BY <1>2, <2>1, <2>3, <2>4, <2>5, <2>7 DEF Waiting
  <2>9. QED
    BY <2>6, <2>8
<1>10. CASE PassJoin
  <2>1. Done(s, img) = Branches(s)
    BY <1>2, <1>4, <1>5, <1>10 DEF PassJoin
  <2>2. \A t \in ActiveTokens(img) : img.tokens[t] = s.join
    BY <1>2, <2>1
  <2>3. \A t \in TokenIds :
          img'.tokens[t] = IF t \in TokensAt(img, s.join) THEN Consumed ELSE img.tokens[t]
    BY <1>t, <1>2, <1>10, JoinConsumes
  <2>4. ActiveTokens(img') = {}
    BY <2>2, <2>3, NullAssumption DEF ActiveTokens, TokensAt
  <2>5. Selected(s.join, context) # {}
    BY <1>t, <1>3, SelectedExists DEF TakesAll
  <2>6. PICK tr \in Selected(s.join, context) : Continue(<<Arrival(tr.to, Head1.depth + 1)>>)
    BY <1>2, <1>10, <2>5 DEF PassJoin
  <2>7. tr.to \in After(s) /\ tr.to \in Nodes
    BY <1>3, SelectedTarget DEF After
  <2>8. /\ Arrival(tr.to, Head1.depth + 1) \in Entry
        /\ Arrival(tr.to, Head1.depth + 1).node = tr.to
        /\ Arrival(tr.to, Head1.depth + 1).next = 0
    BY <1>t, <1>1, <1>2, <2>7, HeadFacts
  <2>9. Len(tx'.stack) = 1 /\ tx'.stack[1] = Arrival(tr.to, Head1.depth + 1)
    BY <1>t, <1>1, <1>2, <2>6, <2>8, ContinueFacts
  <2>10. Alone(After(s), {}, img', tx'.stack)
    BY <2>4, <2>7, <2>8, <2>9 DEF Alone
  <2>11. QED
    BY <2>10
<1>11. QED
  BY <1>7, <1>8, <1>9, <1>10 DEF Activation

\* A person's action in such a region.
LEMMA AloneAct ==
  ASSUME IInv, NEW R \in SUBSET Nodes, NEW X \in SUBSET Nodes,
         \A n \in R : Targets(n) \subseteq R \union X,
         Alone(R, X, db, <<>>), NEW c \in Clients, PerformAction(c)
  PROVE  Alone(R, X, img', tx'.stack)
<1>1. PICK t \in TokenIds, n \in Nodes :
        /\ t \in ActiveTokens(db) /\ db.tokens[t] = n
        /\ ActiveTokens(img') = ActiveTokens(db) \ {t}
        /\ Len(tx'.stack) = 1
        /\ tx'.stack[1].node \in Targets(n)
        /\ tx'.stack[1].next = 0
  BY ActionFacts
<1>2. n \in R /\ ActiveTokens(img') = {}
  BY <1>1 DEF Alone
<1>3. QED
  BY <1>1, <1>2 DEF Alone

\* A person's action on a branch.
LEMMA WaitAct ==
  ASSUME IInv, NEW s \in Sections, TakesAll(s), Waiting(s, db, <<>>),
         NEW c \in Clients, PerformAction(c)
  PROVE  Waiting(s, img', tx'.stack)
<1>t. TypeOK /\ ForkJoin(s)
  BY DEF IInv, TakesAll
<1>1. PICK k \in TaskIds, t \in TokenIds, n \in Nodes :
        /\ Open(db, k) /\ db.tasks[k].node = n /\ graph.type[n] = "HUMAN_TASK"
        /\ db.tasks[k].token = t
        /\ img'.tasks[k].status = "completed" /\ img'.tasks[k].node = n
        /\ \A h \in TaskIds \ {k} : img'.tasks[h] = db.tasks[h]
        /\ t \in ActiveTokens(db) /\ db.tokens[t] = n
        /\ ActiveTokens(img') = ActiveTokens(db) \ {t}
        /\ \A u \in ActiveTokens(img') : img'.tokens[u] = db.tokens[u]
        /\ \A m \in Nodes \ {n} : TokensAt(img', m) = TokensAt(db, m)
        /\ Len(tx'.stack) = 1
        /\ tx'.stack[1].node \in Targets(n)
        /\ tx'.stack[1].next = 0
  BY ActionFacts
<1>2. /\ \A u \in ActiveTokens(db) :
           db.tokens[u] = s.join \/ \E h \in OpenTasks(db) : db.tasks[h].token = u
      /\ \A h \in OpenTasks(db) : db.tasks[h].node \in Branches(s) \ Done(s, db)
      /\ \A m \in Branches(s) : \E h \in TaskIds : db.tasks[h].status # "none" /\ db.tasks[h].node = m
      /\ IsFiniteSet(TokensAt(db, s.join))
      /\ Cardinality(Done(s, db)) = Cardinality(TokensAt(db, s.join))
  BY DEF Waiting
<1>3. k \in OpenTasks(db) /\ n \in Branches(s) /\ n \notin Done(s, db)
  BY <1>1, <1>2 DEF OpenTasks
<1>4. /\ s.join \in Nodes /\ n # s.join /\ Targets(n) = {s.join}
      /\ IsFiniteSet(Done(s, db))
  BY <1>t, <1>3, SectionFacts, FS_Subset DEF ForkJoin, Done
<1>5. TokensAt(img', s.join) = TokensAt(db, s.join) /\ tx'.stack[1].node = s.join
  BY <1>1, <1>4
<1>6. OpenTasks(img') = OpenTasks(db) \ {k}
  BY <1>1 DEF OpenTasks, Open
<1>7. Done(s, img') = Done(s, db) \union {n}
  BY <1>1, <1>3 DEF Done, Open
<1>8. Cardinality(Done(s, img')) = Cardinality(TokensAt(img', s.join)) + 1
  <2>1. Cardinality(Done(s, db) \union {n}) = Cardinality(Done(s, db)) + 1
    BY <1>3, <1>4, FS_AddElement
  <2>2. QED
    BY <1>2, <1>5, <1>7, <2>1
<1>9. \A u \in ActiveTokens(img') :
        img'.tokens[u] = s.join \/ \E h \in OpenTasks(img') : img'.tasks[h].token = u
  <2> SUFFICES ASSUME NEW u \in ActiveTokens(img'), img'.tokens[u] # s.join
               PROVE  \E h \in OpenTasks(img') : img'.tasks[h].token = u
    OBVIOUS
  <2>1. u # t /\ u \in ActiveTokens(db) /\ db.tokens[u] # s.join
    BY <1>1
  <2>2. PICK h \in OpenTasks(db) : db.tasks[h].token = u
    BY <1>2, <2>1
  <2>3. h # k /\ h \in TaskIds
    BY <1>1, <2>1, <2>2 DEF OpenTasks
  <2>4. QED
    BY <1>1, <1>6, <2>2, <2>3
<1>10. \A h \in OpenTasks(img') : img'.tasks[h].node \in Branches(s) \ Done(s, img')
  <2> SUFFICES ASSUME NEW h \in OpenTasks(img')
               PROVE  img'.tasks[h].node \in Branches(s) \ Done(s, img')
    OBVIOUS
  <2>1. h \in OpenTasks(db) /\ h # k /\ h \in TaskIds /\ img'.tasks[h] = db.tasks[h]
    BY <1>1, <1>6 DEF OpenTasks
  <2>2. db.tasks[h].node # n
    BY <1>1, <1>3, <2>1 DEF IInv, ImageInv, OneTaskAtEachNode
  <2>3. QED
    BY <1>2, <1>7, <2>1, <2>2
<1>11. \A m \in Branches(s) :
         \E h \in TaskIds : img'.tasks[h].status # "none" /\ img'.tasks[h].node = m
  BY <1>1, <1>2
<1>12. QED
  BY <1>1, <1>2, <1>5, <1>8, <1>9, <1>10, <1>11 DEF Waiting

\* Between the split's first statement and the join's last one of these holds.
LEMMA SteadyStep ==
  ASSUME IInv, NEW s \in Sections, TakesAll(s),
         Early(s, img, tx.stack) \/ Fanning(s, img, tx.stack) \/ Late(s, img, tx.stack),
         Steady(s, img, tx.stack), Activation
  PROVE  Steady(s, img', tx'.stack)
<1>t. TypeOK /\ ForkJoin(s)
  BY DEF IInv, TakesAll
<1>1. tx.stack # <<>> /\ Head1 = tx.stack[1]
  BY <1>t, ActivationFacts, HeadFacts
<1>2. /\ s.before \in SUBSET Nodes /\ {s.split} \in SUBSET Nodes /\ {} \in SUBSET Nodes
      /\ After(s) \in SUBSET Nodes
      /\ \A n \in s.before : Targets(n) \subseteq s.before \union {s.split}
      /\ \A n \in After(s) : Targets(n) \subseteq After(s) \union {}
  BY <1>t, SectionFacts DEF ForkJoin, After
<1>3. OneAtATime(s.before) /\ OneAtATime(After(s))
  BY DEF TakesAll, OneAtATime
<1>4. CASE Alone(s.before, {s.split}, img, tx.stack)
  <2>1. Head1.node \in s.before \/ Head1.node = s.split
    BY <1>1, <1>4 DEF Alone
  <2>2. CASE Head1.node \in s.before
    BY <1>2, <1>3, <1>4, <2>2, AloneStep DEF Steady
  <2>3. CASE Head1.node = s.split
    BY <1>4, <2>3, SplitStep DEF Steady
  <2>4. QED
    BY <2>1, <2>2, <2>3
<1>5. CASE Filling(s, img, tx.stack)
  BY <1>5, FillStep DEF Steady
<1>6. CASE Waiting(s, img, tx.stack)
  BY <1>6, WaitStep DEF Steady
<1>7. CASE Alone(After(s), {}, img, tx.stack)
  <2>1. Head1.node \in After(s)
    BY <1>1, <1>7 DEF Alone
  <2>2. QED
    BY <1>2, <1>3, <1>7, <2>1, AloneStep DEF Steady
<1>8. QED
  BY <1>4, <1>5, <1>6, <1>7 DEF Steady

\* Serving a task of a steady instance leaves the open transaction steady.
LEMMA SteadyAct ==
  ASSUME IInv, NEW s \in Sections, TakesAll(s), Steady(s, db, <<>>),
         NEW c \in Clients, PerformAction(c)
  PROVE  Steady(s, img', tx'.stack)
<1>t. TypeOK /\ ForkJoin(s)
  BY DEF IInv, TakesAll
<1>1. /\ s.before \in SUBSET Nodes /\ {s.split} \in SUBSET Nodes /\ {} \in SUBSET Nodes
      /\ After(s) \in SUBSET Nodes
      /\ \A n \in s.before : Targets(n) \subseteq s.before \union {s.split}
      /\ \A n \in After(s) : Targets(n) \subseteq After(s) \union {}
  BY <1>t, SectionFacts DEF ForkJoin, After
<1>2. ~Filling(s, db, <<>>)
  BY DEF Filling
<1>3. CASE Alone(s.before, {s.split}, db, <<>>)
  BY <1>1, <1>3, AloneAct DEF Steady
<1>4. CASE Waiting(s, db, <<>>)
  BY <1>4, WaitAct DEF Steady
<1>5. CASE Alone(After(s), {}, db, <<>>)
  BY <1>1, <1>5, AloneAct DEF Steady
<1>6. QED
  BY <1>2, <1>3, <1>4, <1>5 DEF Steady

\* The end of a transaction: the status is recomputed or kept.
LEMMA AloneRefreshed ==
  ASSUME NEW i \in Image, i.status = "completed" => ActiveTokens(i) = {},
         i.status # "none", NEW R, NEW X, Alone(R, X, i, <<>>)
  PROVE  Alone(R, X, Refresh(i), <<>>)
<1> DEFINE j == Refresh(i)
<1>1. /\ j.tokens = i.tokens /\ j.tasks = i.tasks
      /\ j.status = "completed" <=> ActiveTokens(i) = {}
  BY RefreshFacts
<1> HIDE DEF j
<1>2. ActiveTokens(j) = ActiveTokens(i) /\ OpenTasks(j) = OpenTasks(i)
  BY <1>1 DEF ActiveTokens, OpenTasks, Open
<1>3. NotStuck(i)
  BY DEF Alone
<1>4. NotStuck(j)
  <2>1. CASE i.status = "completed"
    BY <1>1, <2>1 DEF NotStuck
  <2>2. CASE i.status # "completed"
    <3>1. i.status \in {"running", "blocked"}
      BY <2>2 DEF Image
    <3>2. QED
      BY <1>2, <1>3, <3>1 DEF NotStuck
  <2>3. QED
    BY <2>1, <2>2
<1>5. Alone(R, X, j, <<>>)
  BY <1>1, <1>2, <1>4 DEF Alone
<1>6. QED
  BY <1>5 DEF j

\* The status that Refresh writes does not disturb a steady instance.
LEMMA SteadyRefreshed ==
  ASSUME NEW i \in Image, i.status = "completed" => ActiveTokens(i) = {},
         i.status # "none", NEW s, Steady(s, i, <<>>)
  PROVE  Steady(s, Refresh(i), <<>>)
<1>1. ~Filling(s, i, <<>>)
  BY DEF Filling
<1>2. CASE Waiting(s, i, <<>>)
  <2> DEFINE j == Refresh(i)
  <2>1. j.tokens = i.tokens /\ j.tasks = i.tasks
    BY RefreshFacts
  <2> HIDE DEF j
  <2>2. /\ ActiveTokens(j) = ActiveTokens(i) /\ OpenTasks(j) = OpenTasks(i)
        /\ Done(s, j) = Done(s, i) /\ TokensAt(j, s.join) = TokensAt(i, s.join)
    BY <2>1 DEF ActiveTokens, OpenTasks, Open, Done, TokensAt
  <2>3. Waiting(s, j, <<>>)
    BY <1>2, <2>1, <2>2 DEF Waiting
  <2>4. QED
    BY <2>3 DEF Steady, j
<1>3. CASE Alone(s.before, {s.split}, i, <<>>) \/ Alone(After(s), {}, i, <<>>)
  BY <1>3, AloneRefreshed DEF Steady
<1>4. QED
  BY <1>1, <1>2, <1>3 DEF Steady

\* The graph never changes, so this too may be shown of the next images.
LEMMA PrimeBalance ==
  ASSUME graph' = graph
  PROVE  /\ OneAtATime(Nodes)' <=> OneAtATime(Nodes)
         /\ Alone(Nodes, {}, db', <<>>) => Alone(Nodes, {}, db, <<>>)'
         /\ Alone(Nodes, {}, img', tx'.stack) => Alone(Nodes, {}, img, tx.stack)'
         /\ \A s : /\ TakesAll(s)' <=> TakesAll(s)
                   /\ Steady(s, db', <<>>) => Steady(s, db, <<>>)'
                   /\ Steady(s, img', tx'.stack) => Steady(s, img, tx.stack)'
<1>1. /\ ActiveTokens(db)' = ActiveTokens(db') /\ ActiveTokens(img)' = ActiveTokens(img')
      /\ OpenTasks(db)' = OpenTasks(db') /\ OpenTasks(img)' = OpenTasks(img')
      /\ \A n : TokensAt(db, n)' = TokensAt(db', n) /\ TokensAt(img, n)' = TokensAt(img', n)
  BY DEF ActiveTokens, OpenTasks, Open, TokensAt
<1>2. /\ NotStuck(db') => NotStuck(db)'
      /\ NotStuck(img') => NotStuck(img)'
  BY <1>1 DEF NotStuck
<1>3. \A R, X : /\ Alone(R, X, db', <<>>) => Alone(R, X, db, <<>>)'
                /\ Alone(R, X, img', tx'.stack) => Alone(R, X, img, tx.stack)'
  BY <1>1, <1>2 DEF Alone
<1>4. ASSUME NEW s
      PROVE  /\ Branches(s)' = Branches(s) /\ After(s)' = After(s)
             /\ ForkJoin(s)' <=> ForkJoin(s)
             /\ Done(s, db)' = Done(s, db') /\ Done(s, img)' = Done(s, img')
  BY PrimeFlow DEF Branches, Targets, After, Done
<1>5. OneAtATime(Nodes)' <=> OneAtATime(Nodes)
  BY DEF OneAtATime, AlwaysGoesOn
<1>6. ASSUME NEW s
      PROVE  TakesAll(s)' <=> TakesAll(s)
  <2>1. /\ OneAtATime(s.before \union After(s))' <=> OneAtATime(s.before \union After(s))
        /\ AlwaysGoesOn(s.join)' <=> AlwaysGoesOn(s.join)
    BY <1>4 DEF OneAtATime, AlwaysGoesOn
  <2>2. QED
    BY <1>4, <2>1 DEF TakesAll
<1>7. ASSUME NEW s
      PROVE  /\ Filling(s, img', tx'.stack) => Filling(s, img, tx.stack)'
             /\ Filling(s, db', <<>>) => Filling(s, db, <<>>)'
  <2>1. \A last : /\ Filled(s, img', last) => Filled(s, img, last)'
                  /\ Filled(s, db', last) => Filled(s, db, last)'
    BY <1>1, <1>4 DEF Filled
  <2>2. QED
    BY <2>1 DEF Filling
<1>8. ASSUME NEW s
      PROVE  /\ Waiting(s, img', tx'.stack) => Waiting(s, img, tx.stack)'
             /\ Waiting(s, db', <<>>) => Waiting(s, db, <<>>)'
  BY <1>1, <1>4 DEF Waiting
<1>9. ASSUME NEW s
      PROVE  /\ Steady(s, db', <<>>) => Steady(s, db, <<>>)'
             /\ Steady(s, img', tx'.stack) => Steady(s, img, tx.stack)'
  BY <1>3, <1>4, <1>7, <1>8 DEF Steady
<1>10. QED
  BY <1>3, <1>5, <1>6, <1>9

\* Every step keeps it, on the graphs it is about.
LEMMA BalanceStep ==
  IInv /\ TxInv /\ FlowInv /\ BalanceInv /\ [Next]_vars => BalanceInv'
<1> SUFFICES ASSUME IInv, TxInv, FlowInv, BalanceInv, [Next]_vars
             PROVE  BalanceInv'
  OBVIOUS
<1>t. TypeOK /\ db \in Image /\ img \in Image
  BY DEF IInv, TypeOK
<1>a. Starter \notin Clients /\ Nobody \notin Clients /\ Starter # Nobody
  BY NullAssumption
<1>g. graph' = graph
  BY DEF Next, vars, StartInstance, SendRequest, PerformAction, RefuseRequest, Activation,
         CreateHumanTask, JoinOpenTask, ReachEnd, PassOn, DeadEnd, Split, NextBranch,
         WaitAtJoin, PassJoin, Arrives, Commit, TooDeep, Crash, Rollback
<1>n. /\ Nodes \in SUBSET Nodes /\ {} \in SUBSET Nodes
      /\ \A n \in Nodes : Targets(n) \subseteq Nodes \union {}
  BY <1>t, GraphFacts DEF TypeOK, Targets
<1>f. /\ OneAtATime(Nodes) => Alone(Nodes, {}, db, <<>>) /\ Alone(Nodes, {}, img, tx.stack)
      /\ \A s \in Sections : TakesAll(s) => Steady(s, db, <<>>) /\ Steady(s, img, tx.stack)
  BY DEF BalanceInv
<1>p. ASSUME OneAtATime(Nodes) =>
               Alone(Nodes, {}, db', <<>>) /\ Alone(Nodes, {}, img', tx'.stack),
             \A s \in Sections :
               TakesAll(s) => Steady(s, db', <<>>) /\ Steady(s, img', tx'.stack)
      PROVE  BalanceInv'
  BY <1>g, <1>p, PrimeBalance DEF BalanceInv
<1>s. ASSUME db' = db,
             OneAtATime(Nodes) => Alone(Nodes, {}, img', tx'.stack),
             \A s \in Sections : TakesAll(s) => Steady(s, img', tx'.stack)
      PROVE  BalanceInv'
  BY <1>f, <1>p, <1>s
<1>u. ASSUME db' = db, img' = img, tx' = tx
      PROVE  BalanceInv'
  BY <1>f, <1>s, <1>u
<1>1. CASE StartInstance
  <2>1. /\ db' = db /\ db = Absent /\ img'.tokens = Absent.tokens
    BY <1>t, <1>1 DEF StartInstance, FlowInv, Image
  <2>2. Len(tx'.stack) = 1 /\ tx'.stack[1].next = 0 /\ tx'.stack[1].node = graph.start
    BY <1>1 DEF StartInstance, Arrival
  <2>3. ActiveTokens(img') = {}
    BY <2>1, NullAssumption DEF Absent, ActiveTokens
  <2>4. graph.start \in Nodes
    BY <1>t, GraphFacts DEF TypeOK
  <2>5. Alone(Nodes, {}, img', tx'.stack)
    BY <2>2, <2>3, <2>4 DEF Alone
  <2>6. ASSUME NEW s \in Sections, TakesAll(s)
        PROVE  Steady(s, img', tx'.stack)
    <3>1. graph.start \in s.before
      BY <2>6 DEF TakesAll, ForkJoin
    <3>2. QED
      BY <2>2, <2>3, <3>1 DEF Steady, Alone
  <2>7. QED
    BY <1>s, <2>1, <2>5, <2>6
<1>2. ASSUME NEW c \in Clients, NEW r \in Requests, SendRequest(c, r)
      PROVE  BalanceInv'
  BY <1>2, <1>u DEF SendRequest
<1>3. ASSUME NEW c \in Clients, PerformAction(c)
      PROVE  BalanceInv'
  <2>1. db' = db
    BY <1>3 DEF PerformAction
  <2>2. OneAtATime(Nodes) => Alone(Nodes, {}, img', tx'.stack)
    BY <1>3, <1>f, <1>n, AloneAct
  <2>3. \A s \in Sections : TakesAll(s) => Steady(s, img', tx'.stack)
    BY <1>3, <1>f, SteadyAct
  <2>4. QED
    BY <1>s, <2>1, <2>2, <2>3
<1>4. ASSUME NEW c \in Clients, RefuseRequest(c)
      PROVE  BalanceInv'
  BY <1>4, <1>u DEF RefuseRequest
<1>5. CASE Activation
  <2>1. db' = db /\ Head1.node \in Nodes
    BY <1>t, <1>5, ActivationFacts, HeadFacts
  <2>2. OneAtATime(Nodes) => Alone(Nodes, {}, img', tx'.stack)
    BY <1>5, <1>f, <1>n, <2>1, AloneStep
  <2>3. ASSUME NEW s \in Sections, TakesAll(s)
        PROVE  Steady(s, img', tx'.stack)
    <3>1. Early(s, img, tx.stack) \/ Fanning(s, img, tx.stack) \/ Late(s, img, tx.stack)
      BY <2>3 DEF FlowInv, TakesAll
    <3>2. Steady(s, img, tx.stack)
      BY <1>f, <2>3
    <3>3. QED
      BY <1>5, <2>3, <3>1, <3>2, SteadyStep
  <2>4. QED
    BY <1>s, <2>1, <2>2, <2>3
<1>6. CASE Commit
  <2>1. /\ tx.stack = <<>> /\ tx'.stack = <<>> /\ db' = img'
        /\ img' = img \/ img' = Refresh(img)
        /\ tx.owner # Nobody
    BY <1>6 DEF Commit, Release, Idle
  <2>2. img.status # "none" /\ (img.status = "completed" => ActiveTokens(img) = {})
    <3>1. tx.owner = Starter \/ tx.owner \in Clients
      BY <1>t, <2>1 DEF TypeOK
    <3>2. QED
      BY <3>1 DEF TxInv, StartedFrom, ServedFrom, IInv, ImageInv
  <2>3. OneAtATime(Nodes) => Alone(Nodes, {}, img', <<>>)
    BY <1>f, <1>t, <2>1, <2>2, AloneRefreshed
  <2>4. \A s \in Sections : TakesAll(s) => Steady(s, img', <<>>)
    BY <1>f, <1>t, <2>1, <2>2, SteadyRefreshed
  <2>5. QED
    BY <1>p, <2>1, <2>3, <2>4
<1>7. CASE TooDeep \/ Crash
  <2>1. db' = db /\ img' = db /\ tx'.stack = <<>>
    BY <1>7 DEF TooDeep, Crash, Rollback, Release, Idle
  <2>2. QED
    BY <1>f, <1>s, <2>1
<1>8. CASE UNCHANGED vars
  BY <1>8, <1>u DEF vars
<1>9. QED
  BY <1>1, <1>2, <1>3, <1>4, <1>5, <1>6, <1>7, <1>8 DEF Next

\* A branch that is not done has an open task.
LEMMA WaitingIsNotStuck ==
  ASSUME IInv, NEW s \in Sections, Waiting(s, db, <<>>)
  PROVE  OpenTasks(db) # {}
<1>1. Done(s, db) \subseteq Branches(s) /\ Done(s, db) # Branches(s)
  BY DEF Waiting, Done
<1>2. PICK n \in Branches(s) : n \notin Done(s, db)
  BY <1>1
<1>3. PICK k \in TaskIds : db.tasks[k].status # "none" /\ db.tasks[k].node = n
  BY DEF Waiting
<1>4. db.tasks[k].status # "completed"
  BY <1>2, <1>3 DEF Done
<1>5. db.tasks[k].status \in {"none", "pending", "blocked", "completed"}
  BY DEF IInv, TypeOK, Image, Task, TaskStatus
<1>6. k \in OpenTasks(db)
  BY <1>3, <1>4, <1>5 DEF OpenTasks, Open
<1>7. QED
  BY <1>6

\* For every graph where one token stays one token and finds a way on, or that
\* splits into branches which all are taken and all are waited for: as long as
\* the instance is not closed there is a task somebody can act on.
THEOREM NobodyIsEverStuck == Spec => []BalancedNeverSticks
<1>1. Init => BalanceInv
  <2> SUFFICES ASSUME Init
               PROVE  BalanceInv
    OBVIOUS
  <2>1. db = Absent /\ img = Absent /\ tx.stack = <<>>
    BY DEF Init, Idle
  <2>2. ActiveTokens(Absent) = {} /\ Absent.status = "none"
    BY NullAssumption DEF Absent, ActiveTokens
  <2>3. \A R, X : Alone(R, X, Absent, <<>>)
    BY <2>2 DEF Alone, NotStuck
  <2>4. QED
    BY <2>1, <2>3 DEF BalanceInv, Steady
<1>2. IInv /\ BalanceInv => BalancedNeverSticks
  <2> SUFFICES ASSUME IInv, BalanceInv, Balanced, db.status \in {"running", "blocked"}
               PROVE  OpenTasks(db) # {}
    BY DEF BalancedNeverSticks, NobodyIsStuck
  <2>1. CASE OneAtATime(Nodes)
    <3>1. Alone(Nodes, {}, db, <<>>)
      BY <2>1 DEF BalanceInv
    <3>2. NotStuck(db)
      BY <3>1 DEF Alone
    <3>3. QED
      BY <3>2 DEF NotStuck
  <2>2. ASSUME NEW s \in Sections, TakesAll(s)
        PROVE  OpenTasks(db) # {}
    <3>1. Steady(s, db, <<>>)
      BY <2>2 DEF BalanceInv
    <3>2. ~Filling(s, db, <<>>)
      BY DEF Filling
    <3>3. ASSUME NEW R, NEW X, Alone(R, X, db, <<>>)
          PROVE  OpenTasks(db) # {}
      BY <3>3 DEF Alone, NotStuck
    <3>4. QED
      BY <3>1, <3>2, <3>3, WaitingIsNotStuck DEF Steady
  <2>3. QED
    BY <2>1, <2>2 DEF Balanced
<1>3. QED
  BY <1>1, <1>2, FlowInit, FlowStep, BalanceStep, InvAlways, TxInvAlways, PTL DEF Spec
=============================================================================
