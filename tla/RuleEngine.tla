------------------------------ MODULE RuleEngine ------------------------------
(***************************************************************************)
(* The configurable rules (rules/): RuleLoader merges the bundled rules    *)
(* with a user's file, RuleEngine evaluates the merged rules against the   *)
(* context of a call.                                                      *)
(*                                                                         *)
(* A text is a sequence of characters.  A rule id is a number: ids compare *)
(* as the strings do.  A regular expression is the set of texts in which   *)
(* re.search finds it, or BadRegex, one that re cannot compile: the schema *)
(* accepts it, and the leaf raises when it is reached.  Of a message it    *)
(* matters whether format_map takes it.                                    *)
(*                                                                         *)
(* A condition is the list of its nodes, each after the nodes it is made   *)
(* of, whose positions are its parts; the last one is the whole condition. *)
(* It has the shape the schema demands, so nothing else raises.            *)
(***************************************************************************)
EXTENDS PythonLists, FiniteSets, FiniteSetsExt

CONSTANTS None,     \* Python's None
          BadRegex

Severity == <<"info", "warn", "candidate", "block">>
Rank(severity) == CHOOSE n \in 1 .. 4 : Severity[n] = severity

Blank == {" ", "newline"}

Strip(text) ==
  LET solid == {i \in DOMAIN text : text[i] \notin Blank}
  IN IF solid = {} THEN <<>> ELSE SubSeq(text, Min(solid), Max(solid))

\* The first argument of these names that is a text and not blank; None if there is none.
FirstText(args, names) ==
  LET given == {i \in DOMAIN names : args[names[i]] # None /\ Strip(args[names[i]]) # <<>>}
  IN IF given = {} THEN None ELSE Strip(args[names[Min(given)]])

\* The texts among the arguments of these names, on lines of their own.
Joined(args, names) ==
  LET given == SelectSeq(names, LAMBDA n : args[n] # None)
  IN FoldLeftDomain(LAMBDA text, i :
                      text \o (IF i = 1 THEN <<>> ELSE <<"newline">>) \o args[given[i]],
                    <<>>, given)

\* RuleContext.from_tool_call and the extractors, for two of the names of each
\* argument and the fields of the bundled rules.
FromToolCall(args, config) ==
  [skill_name |-> FirstText(args, <<"name", "skill_name">>),
   content    |-> Strip(Joined(args, <<"content", "description">>)),
   dry_run    |-> config.dryRun]

\* actual_str
Shown(actual) == IF actual = None THEN <<>> ELSE actual

LeafRaises(leaf) == leaf.op = "matches" /\ leaf.value = BadRegex

LeafHolds(leaf, ctx) ==
  LET actual == ctx[leaf.field]
  IN CASE leaf.op = "equals" -> actual = leaf.value
       [] leaf.op = "not_equals" -> actual # leaf.value
       [] leaf.op = "contains" -> leaf.value \in SubSeqs(Shown(actual))
       [] leaf.op = "not_contains" -> leaf.value \notin SubSeqs(Shown(actual))
       [] leaf.op = "matches" -> Shown(actual) \in leaf.value
       [] leaf.op = "missing" -> Shown(actual) = <<>>
       [] leaf.op = "present" -> Shown(actual) # <<>>
       [] leaf.op = "length_less_than" -> Len(Shown(actual)) < leaf.value
       [] leaf.op = "length_greater_than" -> Len(Shown(actual)) > leaf.value
       [] leaf.op = "length_equals" -> Len(Shown(actual)) = leaf.value

\* The value of the first child that settles all() or any(), or else otherwise.
FirstOf(values, settles, otherwise) ==
  LET settled == {i \in DOMAIN values : values[i] \in settles}
  IN IF settled = {} THEN otherwise ELSE values[Min(settled)]

Negated(value) ==
  CASE value = "true" -> "false"
    [] value = "false" -> "true"
    [] value = "error" -> "error"

\* rules.schema.json: what validate accepts.
IsCondition(when) ==
  /\ IsList(when) /\ when # <<>>
  /\ \A i \in DOMAIN when :
       /\ when[i].kind \in {"leaf", "and", "or", "not"}
       /\ IsList(when[i].parts) /\ \A j \in DOMAIN when[i].parts : when[i].parts[j] \in 1 .. i - 1
       /\ when[i].kind = "not" => Len(when[i].parts) = 1

\* What a node comes to once its parts are evaluated.
NodeValue(node, children, ctx) ==
  CASE node.kind = "and" -> FirstOf(children, {"false", "error"}, "true")
    [] node.kind = "or" -> FirstOf(children, {"true", "error"}, "false")
    [] node.kind = "not" -> Negated(children[1])
    [] node.kind = "leaf" -> IF LeafRaises(node) THEN "error"
                             ELSE IF LeafHolds(node, ctx) THEN "true" ELSE "false"

\* _eval_condition: "true", "false", or "error" where it raises.
EvalCondition(when, ctx) ==
  LET value[i \in DOMAIN when] ==
        NodeValue(when[i], [j \in DOMAIN when[i].parts |-> value[when[i].parts[j]]], ctx)
  IN value[Len(when)]

\* The condition raises, or the rule fires and its message has a bad format.
RuleRaises(r, ctx) ==
  LET value == EvalCondition(r.when, ctx)
  IN value = "error" \/ (value = "true" /\ r.badFormat)

\* The engine drops the rules that are not enabled.
Raises(rules, ctx) == \E i \in DOMAIN rules : rules[i].enabled /\ RuleRaises(rules[i], ctx)

\* The positions of the rules that fire.
Fired(rules, ctx) ==
  {i \in DOMAIN rules : rules[i].enabled /\ EvalCondition(rules[i].when, ctx) = "true"}

\* Mutation of TopSeverity: the last rule that fired decides.
LastSeverity(rules, fired) == rules[Max(fired)].severity

\* The highest severity of the rules that fired.
TopSeverity(rules, fired) == Severity[Max({Rank(rules[i].severity) : i \in fired})]

----------------------------------------------------------------------------
(* RuleLoader.  A user's file is absent, "broken" (not JSON, or against the *)
(* schema: RuleLoadError), "unreadable" (read_text raises something else),  *)
(* or has disabled ids and rules.                                           *)

Ids(rules) == {rules[i].id : i \in DOMAIN rules}
LastWith(rules, id) == rules[Max({i \in DOMAIN rules : rules[i].id = id})]

Before(r, s) == r.priority < s.priority \/ (r.priority = s.priority /\ r.id < s.id)

\* list.sort is stable: a rule goes behind those it does not come before.
Inserted(sorted, r) ==
  InsertAt(sorted, 1 + Cardinality({i \in DOMAIN sorted : ~ Before(r, sorted[i])}), r)

Sorted(rules) ==
  LET upTo[n \in 0 .. Len(rules)] ==
        IF n = 0 THEN <<>> ELSE Inserted(upTo[n - 1], rules[n])
  IN upTo[Len(rules)]

\* Mutation of Kept: disabled_rules does not reach a rule that is overridden.
KeptOverridden(defaults, disabled, user) ==
  Picked(defaults,
         {i \in DOMAIN defaults : defaults[i].id \notin disabled \/ defaults[i].id \in Ids(user)})

\* disabled_rules drops bundled rules, overridden or not.
Kept(defaults, disabled, user) ==
  Picked(defaults, {i \in DOMAIN defaults : defaults[i].id \notin disabled})

\* A user's rule replaces the bundled one of its id, the last if there are
\* several; every other one is added.
Merged(defaults, disabled, user) ==
  LET kept == Kept(defaults, disabled, user)
      replaced == [i \in DOMAIN kept |->
                     IF kept[i].id \in Ids(user) THEN LastWith(user, kept[i].id) ELSE kept[i]]
      extras == Picked(user, {i \in DOMAIN user : user[i].id \notin Ids(defaults)})
  IN Sorted(replaced \o extras)

LoadRaises(file, mode) ==
  file.state = "unreadable" \/ (file.state = "broken" /\ mode = "block")

LoadRules(defaults, file, mode) ==
  IF file.state = "good" THEN Merged(defaults, file.disabled, file.rules)
  ELSE Merged(defaults, {}, <<>>)
=============================================================================
