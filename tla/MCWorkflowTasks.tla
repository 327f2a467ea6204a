--------------------------- MODULE MCWorkflowTasks ---------------------------
(***************************************************************************)
(* Graphs of a start, two automatic steps and an end, with up to four      *)
(* transitions out of eight; and, for the people, a graph of two human     *)
(* steps with rules, permissions, a form and conditions of every kind.     *)
(***************************************************************************)
EXTENDS WorkflowTasks

NodeTypes == {"CONDITION", "PARALLEL_SPLIT", "PARALLEL_JOIN"}

Small == [fact |-> <<"n">>, op |-> "lt", value |-> <<"number", 2>>]
Conditions == {
  Null, <<Small>>,
  <<Small, [fact |-> <<"list">>, op |-> "contains", value |-> <<"number", 3>>], [not |-> 2],
    [all |-> <<1, 3>>]>>,
  <<[fact |-> <<"missing">>, op |-> "exists"],
    [fact |-> <<"createdBy">>, op |-> "neq", value |-> <<"text", <<"bo">>>>],
    [any |-> <<1, 2>>]>>,
  <<[any |-> <<>>]>>, <<[not |-> 0]>>, <<[fact |-> <<"n">>, op |-> "like"]>>}

MCCharacters == KeyCharacters \union {" ", "!"}

Edge(source, target, key, label, condition) ==
  [source |-> source, target |-> target, key |-> key, label |-> label, condition |-> condition]

\* Labels and keys that clash with each other, cut or not.
Edges == {
  Edge("start", "x", <<>>, <<"g", " ", "o">>, Null),
  Edge("start", "end", <<"g", "_", "o">>, <<"!">>, Null),
  Edge("x", "y", <<>>, <<"a", "b", "c", "d", "e">>, <<Small>>),
  Edge("x", "y", <<>>, <<"a", "b", "c", "d", "f">>, Null),
  Edge("x", "end", <<"a", "b", "_", "2">>, <<"!">>, <<Small>>),
  Edge("y", "end", <<>>, <<"!">>, Null),
  Edge("y", "x", <<>>, <<"!">>, Null),
  Edge("y", "start", <<>>, <<"!">>, Null)}

Shape(xType, yType, transitions) ==
  [nodes |-> <<Plain("start", "START", {}), Plain("x", xType, {}), Plain("y", yType, {}),
               Plain("end", "END", {})>>,
   transitions |-> transitions]

Shapes == {Shape(xType, yType, ts) : xType \in NodeTypes, yType \in NodeTypes,
                                     ts \in UNION {[1 .. n -> Edges] : n \in 3 .. 4}}

R(type, subject, variable, role, position) ==
  [type |-> type, subject |-> subject, field |-> Null, variable |-> variable,
   role |-> role, position |-> position]

RuleSets == {
  {},
  {R("USER", "al", Null, "EXECUTOR", Null), Rule("REQUEST_FIELD", <<"who">>)},
  {R("ROLE", "r", Null, "EXECUTOR", Null), R("USER", "bo", Null, "OBSERVER", Null)},
  {R("MANAGER_OF_REQUESTER", Null, Null, "EXECUTOR", "p"), R("ORGANIZATION_UNIT", "top", Null, "OBSERVER", Null)},
  {R("USER", Null, "v", "EXECUTOR", Null), R("POSITION", "p", Null, "OBSERVER", Null)},
  {Rule("PREVIOUS_STEP_ACTOR", Null), R("CREATOR", Null, Null, "OBSERVER", Null)}}

Form == <<[key |-> "k", type |-> "select", required |-> TRUE, actions |-> {<<"b">>},
           options |-> {<<"one">>}]>>

Configs == {
  NoConfig,
  [permissions |-> <<"edit">>, permission |-> "view", fields |-> Form],
  [permissions |-> Null, permission |-> "view", fields |-> <<>>]}

\* The second step gives the key "b" twice: one of them becomes "b_2".
Staffed(rules, config, condition) ==
  [nodes |-> <<Plain("start", "START", {}),
               [key |-> "x", type |-> "HUMAN_TASK", rules |-> rules, config |-> config],
               [key |-> "y", type |-> "HUMAN_TASK", rules |-> {Rule("PREVIOUS_STEP_ACTOR", Null)},
                config |-> NoConfig],
               Plain("end", "END", {})>>,
   transitions |-> <<Edge("start", "x", <<>>, <<"a">>, Null),
                     Edge("x", "y", <<>>, <<"b">>, condition),
                     Edge("x", "end", <<>>, <<"b">>, Null),
                     Edge("y", "end", <<>>, <<"b">>, condition)>>]

Listed == {Rule("REQUEST_FIELD", <<"list">>)}

MCSent == Shapes \union {Staffed(rules, NoConfig, Null) : rules \in RuleSets}
              \union {Staffed(Listed, config, condition) :
                        config \in Configs, condition \in Conditions}

MCGranted == [u \in People |-> IF u = "al" THEN {"edit"} ELSE IF u = "bo" THEN {"view"} ELSE {}]

\* Two moves have closed a cycle.
MCUnits == [unit \in {"top", "low"} |->
              IF unit = "low" THEN [parent |-> "top", manager |-> "bo"]
                              ELSE [parent |-> "low", manager |-> Null]]

MCMembers == [u \in People |->
  CASE u = "al" -> [status |-> "active", unit |-> "low", position |-> Null, roles |-> {"r"}]
    [] u = "bo" -> [status |-> "active", unit |-> "top", position |-> "p", roles |-> {"r"}]
    [] OTHER    -> [status |-> "active", unit |-> "top", position |-> "p", roles |-> {}]]

Mapped(type, target) == [variable |-> "v", type |-> type, target |-> target]
MCMappings == {{}, {Mapped("USER", "bo")}, {Mapped("POSITION", "p"), Mapped("ROLE", "r")}}

MCFacts == [f \in {"createdBy", "n", "list", "who", "assigneeId", "technicalReviewerId"} |->
  CASE f = "n"    -> <<"number", 1>>
    [] f = "list" -> <<"list", <<<<"text", <<"bo">>>>, <<"number", 3>>, <<"text", <<"ad">>>>>>>>
    [] f = "who"  -> <<"text", <<"nobody">>>>
    [] OTHER      -> <<"text", <<"al">>>>]

NoKeys == [k \in {} |-> Null]
MCPayloads == {NoKeys, [k |-> <<"text", <<"one">>>>], [n |-> <<"number", 5>>], [who |-> Undefined]}
=============================================================================
