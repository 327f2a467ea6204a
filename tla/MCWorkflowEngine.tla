-------------------------- MODULE MCWorkflowEngine --------------------------
(***************************************************************************)
(* Small instances of WorkflowEngine: graphs of at most eight nodes that   *)
(* the validation accepts, three users of whom one is an administrator,    *)
(* two callers, one idempotency key.                                       *)
(***************************************************************************)
EXTENDS WorkflowEngine, TLC

MCNodes == {"s", "x", "a", "b", "j", "c", "d", "e"}
MCUsers == {"u1", "u2", "admin"}
MCAdmins == {"admin"}
MCConds == {"c1"}

To(action, n) == [action |-> action, to |-> n, cond |-> NoCond]
If(cond, action, n) == [action |-> action, to |-> n, cond |-> cond]

\* A graph from the types and the outgoing transitions of its nodes.  Node "b"
\* may find no executor.
MakeGraph(types, outs, strategy, quorum) ==
  [type      |-> types @@ [n \in MCNodes |-> "END"],
   out       |-> outs @@ [n \in MCNodes |-> <<>>],
   start     |-> "s",
   strategy  |-> [n \in MCNodes |-> strategy],
   quorum    |-> [n \in MCNodes |-> quorum],
   resolve   |-> [n \in MCNodes |-> IF n = "b" THEN {{"u2"}, {}} ELSE {{"u1", "u2"}}],
   permitted |-> [n \in MCNodes |-> IF n = "a" THEN {"u1"} ELSE {"u1", "u2"}]]

\* The default graph of a new definition: work, review, and back for rework.
Rework ==
  MakeGraph(
    "s" :> "START" @@ "a" :> "HUMAN_TASK" @@ "b" :> "HUMAN_TASK",
    "s" :> <<To("go", "a")>> @@ "a" :> <<To("go", "b")>>
      @@ "b" :> <<To("back", "a"), To("go", "e")>>,
    "ALL", NoQuorum)

\* Two branches that meet at a join, then one more step.
Parallel(strategy, quorum) ==
  MakeGraph(
    "s" :> "START" @@ "x" :> "PARALLEL_SPLIT" @@ "a" :> "HUMAN_TASK"
      @@ "b" :> "HUMAN_TASK" @@ "j" :> "PARALLEL_JOIN" @@ "c" :> "HUMAN_TASK",
    "s" :> <<To("go", "x")>> @@ "x" :> <<To("one", "a"), To("two", "b")>>
      @@ "a" :> <<To("go", "j")>> @@ "b" :> <<To("go", "j")>>
      @@ "j" :> <<To("go", "c")>> @@ "c" :> <<To("go", "e")>>,
    strategy, quorum)

\* One task before the split.
Prepared ==
  MakeGraph(
    "s" :> "START" @@ "c" :> "HUMAN_TASK" @@ "x" :> "PARALLEL_SPLIT"
      @@ "a" :> "HUMAN_TASK" @@ "b" :> "HUMAN_TASK" @@ "j" :> "PARALLEL_JOIN"
      @@ "d" :> "HUMAN_TASK",
    "s" :> <<To("go", "c")>> @@ "c" :> <<To("go", "x")>>
      @@ "x" :> <<To("one", "a"), To("two", "b")>>
      @@ "a" :> <<To("go", "j")>> @@ "b" :> <<To("go", "j")>>
      @@ "j" :> <<To("go", "d")>> @@ "d" :> <<To("go", "e")>>,
    "ALL", NoQuorum)

\* An end node is the first branch of a split, the second is conditional.
SplitWithEnd ==
  MakeGraph(
    "s" :> "START" @@ "x" :> "PARALLEL_SPLIT" @@ "a" :> "HUMAN_TASK"
      @@ "b" :> "HUMAN_TASK",
    "s" :> <<To("go", "x")>>
      @@ "x" :> <<To("one", "e"), If("c1", "two", "a"), To("three", "b")>>
      @@ "a" :> <<To("go", "e")>> @@ "b" :> <<To("go", "e")>>,
    "ALL", NoQuorum)

\* Both branches of a split lead to the same human task.
TwoIntoOne ==
  MakeGraph(
    "s" :> "START" @@ "x" :> "PARALLEL_SPLIT" @@ "a" :> "HUMAN_TASK",
    "s" :> <<To("go", "x")>> @@ "x" :> <<To("one", "a"), To("two", "a")>>
      @@ "a" :> <<To("go", "e")>>,
    "ALL", NoQuorum)

\* A condition node: dead end unless c1 holds, then a loop of automatic nodes
\* behind the first human task.
AutomaticLoop ==
  MakeGraph(
    "s" :> "START" @@ "a" :> "HUMAN_TASK" @@ "x" :> "CONDITION"
      @@ "j" :> "SERVICE_TASK",
    "s" :> <<To("go", "a")>> @@ "a" :> <<To("go", "x"), To("back", "e")>>
      @@ "x" :> <<If("c1", "again", "j")>> @@ "j" :> <<To("go", "x")>>,
    "ALL", NoQuorum)

\* A join nothing goes out of, which the validation accepts.
JoinWithoutExit ==
  MakeGraph(
    "s" :> "START" @@ "x" :> "PARALLEL_SPLIT" @@ "a" :> "HUMAN_TASK"
      @@ "j" :> "PARALLEL_JOIN",
    "s" :> <<To("go", "x")>> @@ "x" :> <<To("one", "a"), To("two", "j")>>
      @@ "a" :> <<If("c1", "go", "j"), To("back", "e")>>,
    "ALL", NoQuorum)

\* The second branch of a split is a split whose conditions may all be false.
SplitInSplit ==
  MakeGraph(
    "s" :> "START" @@ "x" :> "PARALLEL_SPLIT" @@ "a" :> "HUMAN_TASK"
      @@ "j" :> "PARALLEL_SPLIT" @@ "b" :> "HUMAN_TASK",
    "s" :> <<To("go", "x")>> @@ "x" :> <<To("one", "a"), To("two", "j")>>
      @@ "a" :> <<To("go", "e")>>
      @@ "j" :> <<If("c1", "one", "b"), If("c1", "two", "e")>>
      @@ "b" :> <<To("go", "e")>>,
    "ALL", NoQuorum)

AllGraphs == {Rework, Parallel("ALL", NoQuorum), Parallel("ANY", NoQuorum),
              Parallel("QUORUM", 2), SplitWithEnd, TwoIntoOne, AutomaticLoop,
              JoinWithoutExit, SplitInSplit, Prepared}

MCSections ==
  {[before |-> before, split |-> "x", join |-> "j"] : before \in {{"s"}, {"s", "c"}}}

Ask(user, task, action, key, set, clear) ==
  [user |-> user, task |-> task, action |-> action, key |-> key,
   set |-> set, clear |-> clear]

\* With and without a task, with and without a key, by the people the steps
\* are assigned to and by the administrator; the payload may flip c1.
MCRequests ==
  {Ask(u, AnyTask, "go", key, {}, {}) : u \in MCUsers, key \in Keys \union {NoKey}}
    \union {Ask("u1", k, "go", NoKey, {"c1"}, {}) : k \in TaskIds}
    \union {Ask(u, AnyTask, "back", NoKey, {}, {"c1"}) : u \in {"u2", "admin"}}
=============================================================================
