---------------------------- MODULE MCGuardedCalls ----------------------------
(* GuardedCalls with small environments, files, rule files and calls.  The   *)
(* bundled rules are those of default_rules.json; a content is too short     *)
(* below 2 characters instead of 20, and a list keeps 2 items instead of 20. *)
EXTENDS GuardedCalls

Bool(b) == [type |-> "bool", value |-> b]
Integer(n) == [type |-> "int", value |-> n]
Infinite == [type |-> "inf", value |-> 0]
List(set) == [type |-> "list", value |-> set]

Nothing == [k \in Keys |-> Absent]

\* One setting besides an environment, or a file, that blocks.
Besides(base, settings) ==
  UNION {{[base EXCEPT ![k] = v] : v \in settings[k]} : k \in DOMAIN settings}

\* Bare words of the two settings that decide on blocking, in all combinations.
Pairs(modes, dryRuns) ==
  {[Nothing EXCEPT !["mode"] = m, !["dryRun"] = d] : m \in modes, d \in dryRuns}

Blocking == [Nothing EXCEPT !["mode"] = Text("block"), !["dryRun"] = Text("false")]

MCEnvironments ==
  Pairs({Absent, Text("candidate"), Text("block"), Text("strict")},
        {Absent, Text("true"), Text("false"), Text("maybe")})
    \cup Besides(Blocking,
           [failOpen      |-> {Text("0"), Text("on")},
            timeoutMs     |-> {Text("0"), Text("1"), Text("10001"), Text("soon")},
            capture       |-> {Text("yes"), Text("no")},
            intents       |-> {Text(""), Text(","), Text("capture")},
            otel          |-> {Text("1")},
            observability |-> {Text("1"), Text("0")}])

Readable(keys) == [readable |-> TRUE, keys |-> keys]
BlockingFile == [Nothing EXCEPT !["mode"] = Text("block"), !["dryRun"] = Bool(FALSE)]

MCConfigFiles ==
  {[readable |-> FALSE, keys |-> BlockingFile]}
    \cup {Readable(f) : f \in
       Pairs({Absent, Text("candidate"), Text("block"), Text("strict"), Integer(1)},
             {Absent, Bool(TRUE), Bool(FALSE), Text("false")})
       \cup Besides(BlockingFile,
              [failOpen      |-> {Bool(FALSE), Text("no")},
               timeoutMs     |-> {Integer(0), Integer(10001), Bool(TRUE), Text("1"), Infinite},
               capture       |-> {Bool(TRUE), Text("false"), Integer(0), Infinite},
               intents       |-> {List({"preflight"}), Text("capture,preflight"), Bool(TRUE)},
               otel          |-> {Bool(TRUE)},
               observability |-> {Bool(TRUE)}])}

----------------------------------------------------------------------------
LeafNode(op, field, value) ==
  [kind |-> "leaf", op |-> op, field |-> field, value |-> value, parts |-> <<>>]
Node(kind, parts) == [kind |-> kind, parts |-> parts]

Rule(id, priority, when, severity) ==
  [id |-> id, priority |-> priority, when |-> when, severity |-> severity,
   enabled |-> TRUE, badFormat |-> FALSE]

NameMissing == LeafNode("missing", "skill_name", None)
Namespaced == LeafNode("contains", "skill_name", <<":">>)
TooShort(n) == LeafNode("length_less_than", "content", n)
BadLeaf == LeafNode("matches", "content", BadRegex)
\* The texts below in which the patterns find two letters s together.
MCSecrets == {<<"s", "s">>, <<"a", "newline", "s", "s">>, <<"a", "s", "s">>}
SecretLeaf == LeafNode("matches", "content", MCSecrets)

\* Ids: 10 lifecycle.dry_run_downgrade, 20 manifest.description_too_short,
\* 30 manifest.name_missing, 40 naming.plugin_namespace, 45 org.*,
\* 50 safety.secret_pattern.
MCDefaultRules ==
  <<Rule(30, 10, <<NameMissing>>, "warn"),
    Rule(40, 20, <<LeafNode("present", "skill_name", None), Namespaced, Node("and", <<1, 2>>)>>, "warn"),
    Rule(20, 30, <<TooShort(2)>>, "warn"),
    Rule(50, 5, <<SecretLeaf>>, "warn"),
    Rule(10, 1000, <<LeafNode("equals", "dry_run", TRUE)>>, "info")>>

File(state, disabled, userRules) ==
  [state |-> state, disabled |-> disabled, rules |-> userRules]

MCRuleFiles ==
  {File("absent", {}, <<>>), File("broken", {}, <<>>), File("unreadable", {}, <<>>),
   \* the example of rule-engine.md: a default replaced by a stricter rule
   File("good", {20}, <<Rule(45, 100, <<TooShort(4)>>, "candidate")>>),
   \* overridden twice; overridden and disabled
   File("good", {30}, <<Rule(40, 15, <<Namespaced>>, "info"), Rule(30, 10, <<NameMissing>>, "block"),
                        Rule(40, 1, <<NameMissing, Node("not", <<1>>)>>, "block")>>),
   \* switched off; a remark after the warnings
   File("good", {45}, <<[Rule(50, 5, <<SecretLeaf>>, "warn") EXCEPT !.enabled = FALSE],
                        Rule(45, 100, <<LeafNode("not_contains", "content", <<":">>)>>, "info")>>),
   \* one id twice, not a bundled one
   File("good", {}, <<Rule(45, 50, <<TooShort(3)>>, "candidate"),
                      Rule(45, 60, <<TooShort(2)>>, "info")>>),
   \* a message that format_map does not take
   File("good", {}, <<[Rule(45, 0, <<TooShort(2)>>, "block") EXCEPT !.badFormat = TRUE]>>),
   \* a pattern that does not compile, reached behind a short cut or not
   File("good", {},
        <<Rule(45, 0, <<NameMissing, BadLeaf, Node("not", <<2>>), Node("or", <<1, 3>>)>>, "candidate")>>),
   File("good", {}, <<Rule(45, 0, <<BadLeaf, NameMissing, Node("and", <<1, 2>>)>>, "block")>>)}

----------------------------------------------------------------------------
Number == [kind |-> "number"]
Items(parts) == [kind |-> "list", parts |-> parts]

\* The arguments that are given; the others are None.
Args(given) ==
  given @@ [n \in {"name", "skill_name", "content", "description", "summary", "path",
                   "target_path"} |-> None]

Create(args, payload, result) ==
  [tool |-> "skill_manage", operation |-> "create", authorized |-> FALSE,
   args |-> args, payload |-> payload, result |-> result]

Word == <<"a">>
Secret == <<"s", "s">>

\* {content: text, size: number}
Plain == <<TextValue(Word), Number, Map(<<"content", "size">>, <<1, 2>>)>>
\* {args: [{token: number}, secret, secret], token: {content: [text, number]}}
Nested ==
  <<Number, Map(<<"token">>, <<1>>), TextValue(Secret), TextValue(Secret), Items(<<2, 3, 4>>),
    TextValue(Word), Number, Items(<<6, 7>>), Map(<<"content">>, <<8>>),
    Map(<<"args", "token">>, <<5, 9>>)>>

Clean == Args("name" :> Word @@ "content" :> <<"a", "a">>)

\* A preview has two characters, and a promotable content three.
MCToolCalls ==
  {Create(Clean, Nested, <<"a", "s", "s">>),
   Create(Args("name" :> <<" ">> @@ "skill_name" :> <<"a", ":">> @@ "content" :> Word
                 @@ "description" :> Secret), Nested, None),
   Create(Args("content" :> <<" ", "a", " ">> @@ "summary" :> Secret @@ "path" :> Word),
          Plain, Word),
   Create(Args("name" :> Word @@ "skill_name" :> <<":">> @@ "content" :> Secret), Plain, Secret),
   [Create(Clean, Plain, None) EXCEPT !.operation = "edit"],
   [Create(Args("content" :> <<>>), Nested, Secret) EXCEPT !.authorized = TRUE]}
=============================================================================
