---------------------------- MODULE WorkflowGraphs ----------------------------
(***************************************************************************)
(* What a workflow graph is before and after it is saved: how actions get  *)
(* their keys, which graphs are valid, which conditions are well-formed    *)
(* and what they mean for the facts of an instance.                        *)
(*                                                                         *)
(* Keys and labels are sequences of characters, as short as KeyLength.     *)
(* JSON values carry their JavaScript type: <<"number", 1>>,               *)
(* <<"text", letters>>, <<"list", values>>, <<"object", function>>.        *)
(* A condition is the sequence of its clauses, inner ones first, the whole  *)
(* condition last.  A clause is a record with the keys it was sent with;   *)
(* all, any and not give the positions of earlier clauses, and 0 for what  *)
(* is no object.                                                           *)
(***************************************************************************)
EXTENDS Integers, FiniteSets, Sequences, SequencesExt

CONSTANTS
  KeyLength,    \* 80 in the code
  Characters,   \* what labels are written in
  Permissions,  \* the well-formed permission names
  Null          \* null, and whatever is not the list or object it should be

\* After case and accents are dropped.
Digits == <<"0", "1", "2", "3", "4", "5", "6", "7", "8", "9">>
Letters == {"a", "b", "c", "d", "e", "f", "g", "h", "i", "j", "k", "l", "m", "n", "o", "p", "q",
            "r", "s", "t", "u", "v", "w", "x", "y", "z"} \union ToSet(Digits)
Underscore == "_"
KeyCharacters == Letters \union {Underscore, ".", "-"}

ASSUME KeyAssumption == KeyLength \in Nat \ {0} /\ KeyCharacters \subseteq Characters

Undefined == <<"undefined">>

-----------------------------------------------------------------------------
(* Action keys *)

\* Runs of other characters become one underscore, none at the start.
Spelled(key, c) ==
  IF c \in Letters THEN Append(key, c)
  ELSE IF key = <<>> \/ Last(key) = Underscore THEN key
  ELSE Append(key, Underscore)

Normalizing(label) ==
  LET done[i \in 0 .. Len(label)] == IF i = 0 THEN <<>> ELSE Spelled(done[i - 1], label[i])
  IN  done

Normalized(label) ==
  LET key == Normalizing(label)[Len(label)]
  IN  IF key # <<>> /\ Last(key) = Underscore THEN Front(key) ELSE key

Cut(key, length) == SubSeq(key, 1, IF Len(key) < length THEN Len(key) ELSE length)

ActionKeyFromLabel(label) ==
  LET key == Cut(Normalized(label), KeyLength)
  IN  IF key = <<>> THEN <<"a", "c", "t", "i", "o", "n">> ELSE key

WellFormedKey(key) ==
  /\ key # <<>>
  /\ key[1] \in Letters
  /\ key \in Seq(KeyCharacters)

BaseKey(t) == IF WellFormedKey(t.key) THEN t.key ELSE ActionKeyFromLabel(t.label)

Digit(d) == Digits[d + 1]

\* At most 500 transitions are sent, which need no longer suffix.
Suffix(n) ==
  IF n < 10 THEN <<Underscore, Digit(n)>>
  ELSE IF n < 100 THEN <<Underscore, Digit(n \div 10), Digit(n % 10)>>
  ELSE <<Underscore, Digit(n \div 100), Digit((n \div 10) % 10), Digit(n % 10)>>

Suffixed(base, n) ==
  LET room == KeyLength - Len(Suffix(n))
  IN  Cut(base, IF room < 1 THEN 1 ELSE room) \o Suffix(n)

Fresh(base, used) ==
  IF base \notin used THEN base
  ELSE Suffixed(base, CHOOSE n \in 2 .. Cardinality(used) + 2 :
                        /\ Suffixed(base, n) \notin used
                        /\ \A m \in 2 .. n - 1 : Suffixed(base, m) \in used)

KeysFrom(transitions, source) ==
  {transitions[i].key : i \in {j \in DOMAIN transitions : transitions[j].source = source}}

Keyed(done, t) == Append(done, [t EXCEPT !.key = Fresh(BaseKey(t), KeysFrom(done, t.source))])

\* prepareTransitions: one action after the other, in the order they are sent.
Preparing(transitions) ==
  LET done[i \in 0 .. Len(transitions)] ==
        IF i = 0 THEN <<>> ELSE Keyed(done[i - 1], transitions[i])
  IN  done

Prepared(transitions) == Preparing(transitions)[Len(transitions)]

-----------------------------------------------------------------------------
(* Conditions *)

Comparisons == {"eq", "neq", "in", "notIn", "gt", "gte", "lt", "lte", "exists", "contains"}

\* condition.all ?? condition.any
Clauses(c) ==
  IF "all" \in DOMAIN c /\ c.all # Null THEN c.all
  ELSE IF "any" \in DOMAIN c THEN c.any ELSE Null

IsConditionShapeValid(c) ==
  LET valid[i \in 0 .. Len(c)] ==
        /\ i # 0
        /\ CASE {"all", "any"} \intersect DOMAIN c[i] # {} ->
                  LET clauses == Clauses(c[i])
                  IN  /\ clauses # Null
                      /\ clauses # <<>>
                      /\ \A clause \in ToSet(clauses) : valid[clause]
             [] {"all", "any", "not"} \intersect DOMAIN c[i] = {"not"} -> valid[c[i]["not"]]
             [] OTHER -> {"fact", "op"} \subseteq DOMAIN c[i] /\ c[i].op \in Comparisons
  IN  valid[Len(c)]

Member(value, segment) ==
  IF value[1] = "object" /\ segment \in DOMAIN value[2] THEN value[2][segment] ELSE Undefined

GetFact(context, path) == FoldLeft(Member, Member(context, Head(path)), Tail(path))

\* ===: two lists or objects that were read apart are never the same.
Same(v, w) == v = w /\ v[1] \notin {"list", "object"}
BothNumbers(v, w) == v[1] = "number" /\ w[1] = "number"
Includes(list, v) == \E w \in ToSet(list[2]) : Same(w, v)

Compare(op, fact, expected) ==
  CASE op = "eq"       -> Same(fact, expected)
    [] op = "neq"      -> ~Same(fact, expected)
    [] op = "in"       -> expected[1] = "list" /\ Includes(expected, fact)
    [] op = "notIn"    -> expected[1] = "list" /\ ~Includes(expected, fact)
    [] op = "gt"       -> BothNumbers(fact, expected) /\ fact[2] > expected[2]
    [] op = "gte"      -> BothNumbers(fact, expected) /\ fact[2] >= expected[2]
    [] op = "lt"       -> BothNumbers(fact, expected) /\ fact[2] < expected[2]
    [] op = "lte"      -> BothNumbers(fact, expected) /\ fact[2] <= expected[2]
    [] op = "exists"   -> (fact = Undefined) <=> (expected = <<"boolean", FALSE>>)
    [] op = "contains" ->
         IF fact[1] = "list" THEN Includes(fact, expected)
         ELSE /\ fact[1] = "text" /\ expected[1] = "text"
              /\ \E i \in 0 .. Len(fact[2]) - Len(expected[2]) :
                   SubSeq(fact[2], i + 1, i + Len(expected[2])) = expected[2]
    [] OTHER           -> FALSE

\* What each clause says when it is a comparison.
Compared(c, context) ==
  [i \in DOMAIN c |->
     Compare(IF "op" \in DOMAIN c[i] THEN c[i].op ELSE "",
             IF "fact" \in DOMAIN c[i] THEN GetFact(context, c[i].fact) ELSE Undefined,
             IF "value" \in DOMAIN c[i] THEN c[i].value ELSE Undefined)]

\* The last clause, from what the comparisons say.
Combined(c, compared) ==
  LET holds[i \in 1 .. Len(c)] ==
        LET isTrue(clause) == clause # 0 /\ holds[clause]
        IN  CASE "all" \in DOMAIN c[i] ->
                   c[i].all # Null /\ \A clause \in ToSet(c[i].all) : isTrue(clause)
              [] "all" \notin DOMAIN c[i] /\ "any" \in DOMAIN c[i] ->
                   c[i].any # Null /\ \E clause \in ToSet(c[i].any) : isTrue(clause)
              [] {"all", "any", "not"} \intersect DOMAIN c[i] = {"not"} ->
                   c[i]["not"] # 0 /\ ~holds[c[i]["not"]]
              [] OTHER -> compared[i]
  IN  holds[Len(c)]

EvaluateCondition(c, context) == Combined(c, Compared(c, context))

-----------------------------------------------------------------------------
(* Validation *)

\* config.requiredPermissions, or the single permission of older graphs.
RequiredPermissions(config) ==
  {p \in (IF config.permissions # Null THEN ToSet(config.permissions)
                                       ELSE {config.permission}) : p \in Permissions}

MostPermissions == 20

PermissionsValid(config) ==
  IF config.permissions # Null
    THEN /\ Len(config.permissions) <= MostPermissions
         /\ ToSet(config.permissions) \subseteq Permissions
    ELSE config.permission \in Permissions \union {Null}

FieldTypes == {"text", "textarea", "number", "boolean", "date", "select"}

FieldsValid(fields) ==
  \A i \in DOMAIN fields :
    /\ fields[i].key # Null /\ fields[i].type \in FieldTypes
    /\ \A j \in 1 .. i - 1 : fields[j].key # fields[i].key
    /\ fields[i].type = "select" => fields[i].options # Null

RuleValid(rule) ==
  \/ rule.variable # Null
  \/ /\ rule.type \in {"USER", "ROLE", "POSITION", "ORGANIZATION_UNIT"} => rule.subject # Null
     /\ rule.type = "REQUEST_FIELD" => rule.field # Null

NodeValid(node) ==
  /\ node.type = "HUMAN_TASK" => node.rules # {}
  /\ \A rule \in node.rules : RuleValid(rule)
  /\ PermissionsValid(node.config)
  /\ FieldsValid(node.config.fields)

NodeKeys(graph) == {node.key : node \in ToSet(graph.nodes)}
NodesOf(graph, type) == {node \in ToSet(graph.nodes) : node.type = type}
NodeAt(graph, key) == CHOOSE node \in ToSet(graph.nodes) : node.key = key

Outgoing(graph, key) == {i \in DOMAIN graph.transitions : graph.transitions[i].source = key}
Incoming(graph, key) == {i \in DOMAIN graph.transitions : graph.transitions[i].target = key}

TransitionsValid(graph) ==
  \A i \in DOMAIN graph.transitions :
    LET t == graph.transitions[i]
    IN  /\ {t.source, t.target} \subseteq NodeKeys(graph)
        /\ \A j \in 1 .. i - 1 :
             <<graph.transitions[j].source, graph.transitions[j].key>> # <<t.source, t.key>>
        /\ t.condition # Null => IsConditionShapeValid(t.condition)

Spread(graph, reached) ==
  reached \union {t.target : t \in {u \in ToSet(graph.transitions) : u.source \in reached}}

\* As many rounds as there are transitions: every round that changes
\* something follows another one.
Reaching(graph, start) ==
  LET reached[i \in 0 .. Len(graph.transitions)] ==
        IF i = 0 THEN start ELSE Spread(graph, reached[i - 1])
  IN  reached

\* Variant: some transition leads to the step, wherever it starts.
LedTo(graph, start) == start \union {t.target : t \in ToSet(graph.transitions)}
Reached(graph, start) == Reaching(graph, start)[Len(graph.transitions)]

Connected(graph, node) ==
  LET out == Outgoing(graph, node.key)
      in  == Incoming(graph, node.key)
  IN  /\ node.type = "START" => in = {}
      /\ node.type = "END" => out = {}
      /\ node.type \notin {"END", "PARALLEL_JOIN"} => out # {}
      /\ node.type = "PARALLEL_SPLIT" => Cardinality(out) >= 2
      /\ node.type = "PARALLEL_JOIN" => Cardinality(in) >= 2
      /\ node.type = "CONDITION" => \A i \in out : graph.transitions[i].condition # Null

ValidGraph(graph) ==
  /\ Cardinality(NodeKeys(graph)) = Len(graph.nodes)
  /\ \A node \in ToSet(graph.nodes) : NodeValid(node)
  /\ Cardinality({i \in DOMAIN graph.nodes : graph.nodes[i].type = "START"}) = 1
  /\ NodesOf(graph, "END") # {}
  /\ TransitionsValid(graph)
  /\ \A start \in NodesOf(graph, "START") :
       NodeKeys(graph) \subseteq Reached(graph, {start.key})
  /\ \A node \in ToSet(graph.nodes) : Connected(graph, node)

-----------------------------------------------------------------------------
(* The graph a definition is created with *)

\* Null is no path of facts.
ASSUME NullAssumption == Null \notin {<<"assigneeId">>, <<"technicalReviewerId">>}

NoConfig == [permissions |-> Null, permission |-> Null, fields |-> <<>>]

Rule(type, field) ==
  [type |-> type, subject |-> Null, field |-> field, variable |-> Null,
   role |-> "EXECUTOR", position |-> Null]

Plain(key, type, rules) == [key |-> key, type |-> type, rules |-> rules, config |-> NoConfig]

Step(source, target, key) ==
  [source |-> source, target |-> target, key |-> key, label |-> key, condition |-> Null]

DefaultGraph ==
  [nodes |-> <<Plain("start", "START", {}),
               Plain("execute", "HUMAN_TASK", {Rule("REQUEST_FIELD", <<"assigneeId">>)}),
               Plain("technical_review", "HUMAN_TASK",
                     {Rule("REQUEST_FIELD", <<"technicalReviewerId">>)}),
               Plain("completed", "END", {})>>,
   transitions |-> <<Step("start", "execute", <<"g">>),
                     Step("execute", "technical_review", <<"s">>),
                     Step("technical_review", "execute", <<"r">>),
                     Step("technical_review", "completed", <<"a">>)>>]

WithKeys(graph) == [graph EXCEPT !.transitions = Prepared(@)]
=============================================================================
