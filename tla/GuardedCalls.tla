----------------------------- MODULE GuardedCalls -----------------------------
(***************************************************************************)
(* From the user's files to what happens to a tool call: plugin.register   *)
(* loads the configuration and registers the hooks, PreflightIntent.       *)
(* register loads the rules, and from then on every call is decided,       *)
(* answered and stored by what was loaded.  Composes GuardConfig,          *)
(* RuleEngine, Enforcement and Redactor.                                   *)
(*                                                                         *)
(* One call at a time, of whose writes only that of a candidate may fail,  *)
(* since nothing depends on the others: how the hooks of several calls     *)
(* interleave, time out and fail is in HookFlow, which takes the decision  *)
(* as it comes.                                                            *)
(***************************************************************************)
EXTENDS GuardConfig, RuleEngine, Redactor

CONSTANTS Environments,  \* the SKILL_GUARD_ and HSG_ variables, by setting
          ConfigFiles,   \* config.yaml: readable or not, and its values by setting
          RuleFiles,     \* the user's rule file, as RuleEngine has it
          DefaultRules,  \* data/default_rules.json
          ToolCalls,
          FieldLimit,    \* max_field_length
          PromotableLimit  \* the longest content that is promotable: 20 fields

\* The environment has words.
ASSUME EnvironmentsAssumption ==
  \A e \in Environments : \A k \in Keys : e[k] = Absent \/ e[k] = Text(e[k].value)

\* A setting has a type and a value, or the file does not name it.
ASSUME FilesAssumption ==
  \A f \in ConfigFiles :
    /\ f = [readable |-> f.readable, keys |-> [k \in Keys |-> f.keys[k]]]
    /\ \A k \in Keys : LET raw == f.keys[k] IN
         /\ raw = [type |-> raw.type, value |-> raw.value]
         /\ raw.type = "bool" => raw.value \in BOOLEAN

IsRules(list) ==
  /\ IsList(list)
  /\ \A i \in DOMAIN list : IsCondition(list[i].when) /\ list[i].severity \in ToSet(Severity)

\* What the schema lets pass.
ASSUME RulesAssumption ==
  IsRules(DefaultRules) /\ \A f \in RuleFiles : f.state = "good" => IsRules(f.rules)

\* The arguments of a hook are a map.
ASSUME PayloadsAssumption ==
  \A call \in ToolCalls : IsPayload(call.payload) /\ Last(call.payload).kind = "map"

VARIABLES
  env, file, ruleFile,  \* what the user has set up
  plugin,               \* "off", "running", "failed"
  config,               \* GuardConfig
  hooks,                \* the hooks that were registered
  rules,                \* RuleEngine._rules
  last                  \* the last call, what became of it and what was stored

vars == <<env, file, ruleFile, plugin, config, hooks, rules, last>>

NoCall == [answer |-> "none"]

Init ==
  /\ env \in Environments
  /\ file \in ConfigFiles
  /\ ruleFile \in RuleFiles
  /\ plugin = "off"
  /\ config = Defaults
  /\ hooks = {} /\ rules = <<>>
  /\ last = NoCall

\* config.enabled_intents; empty means all.
Wanted(intent, cfg) == cfg.intents = {} \/ intent \in cfg.intents

\* register_intents: an intent whose register raises is left out.
Start ==
  /\ plugin = "off" /\ ~ ConfigRaises(file)
  /\ plugin' = "running"
  /\ LET cfg == LoadConfig(env, file)
         guards == Wanted("preflight", cfg) /\ ~ LoadRaises(ruleFile, cfg.mode)
     IN /\ config' = cfg
        /\ hooks' = {h \in {"pre", "post"} :
                       IF h = "pre" THEN guards ELSE Wanted("capture", cfg)}
        /\ rules' = IF guards THEN LoadRules(DefaultRules, ruleFile, cfg.mode) ELSE <<>>
  /\ UNCHANGED <<env, file, ruleFile, last>>

\* The error leaves plugin.register before anything is registered.
StartFails ==
  /\ plugin = "off" /\ ConfigRaises(file)
  /\ plugin' = "failed"
  /\ UNCHANGED <<env, file, ruleFile, config, hooks, rules, last>>

----------------------------------------------------------------------------
\* Stage 1 of PreflightPolicy.evaluate.
InBoundary(call) ==
  call.tool = "skill_manage" /\ call.operation = "create" /\ ~ call.authorized

\* All stages; "raised" where the rule engine raises.
Decide(call, loaded, cfg) ==
  LET ctx == FromToolCall(call.args, cfg)
      fired == Fired(loaded, ctx)
  IN CASE ~ InBoundary(call) -> "allow"
       [] InBoundary(call) /\ Raises(loaded, ctx) -> "raised"
       [] OTHER -> Verdict(cfg, IF fired = {} THEN "none" ELSE TopSeverity(loaded, fired))

\* A candidate is blocked once its row is stored.
Answer(decision, cfg, stored) ==
  CASE decision = "block" \/ (decision = "candidate" /\ stored) -> "blocked"
    [] (decision = "raised" \/ (decision = "candidate" /\ ~ stored)) /\ ~ cfg.failOpen -> "refused"
    [] OTHER -> "pass"

\* The arguments of the post hook: those of the pre hook and, if it is a text,
\* the result and a preview of it, which is cut before anyone looks for secrets.
PostPayload(call) ==
  LET whole == Last(call.payload)
      n == Len(call.payload)
      preview == SubSeq(call.result, 1, Min({FieldLimit, Len(call.result)}))
  IN IF call.result = None THEN call.payload
     ELSE Front(call.payload)
            \o <<TextValue(call.result), TextValue(preview),
                 Map(whole.keys \o <<"result", "result_preview">>, whole.parts \o <<n, n + 1>>)>>

\* The events that the hooks give to the store: of what the pre hook enforces,
\* never with its texts, and of what Hermes has run.
Events(call, decision, answer) ==
  {[payload |-> call.payload, kept |-> RedactValue(call.payload, FALSE)] :
     d \in {decision} \cap Enforcing}
  \cup {[payload |-> PostPayload(call), kept |-> RedactValue(PostPayload(call), config.capture)] :
          h \in IF answer = "pass" THEN {"post"} \cap hooks ELSE {}}

\* Mutation of Promotable: no secret is looked for.
PromotableUnchecked(content) == Strip(content) # <<>> /\ Len(content) <= PromotableLimit

\* The pre hook looks at what it keeps.
Promotable(content) ==
  Strip(content) # <<>> /\ content \notin Secrets /\ Len(content) <= PromotableLimit

\* A row of candidates.  Nobody redacts it; the post hook leaves promotable at
\* its default.
Candidate(call, hook) ==
  LET name == FirstText(call.args, <<"name", "skill_name">>)
      content == Joined(call.args, <<"content", "description">>)
      promotable == hook = "post" \/ Promotable(content)
  IN [name |-> IF name = None THEN <<"unknown">> ELSE name,
      description |-> FirstText(call.args, <<"description", "summary">>),
      target |-> FirstText(call.args, <<"path", "target_path">>),
      promotable |-> promotable,
      content |-> IF promotable /\ content # <<>> THEN content ELSE None]

\* The hooks that would write the candidate.
Writers(decision) == IF decision = "candidate" THEN hooks ELSE {}

\* The pre hook stores what it routes, and if that fails and the call runs all
\* the same, the post hook does, provided it still finds the decision; stores
\* has the writers that get it done.
StoredCandidate(call, answer, stores) ==
  CASE "pre" \in stores -> Candidate(call, "pre")
    [] "pre" \notin stores /\ "post" \in stores /\ answer = "pass" -> Candidate(call, "post")
    [] OTHER -> None

Decision(call) == IF "pre" \in hooks THEN Decide(call, rules, config) ELSE "unguarded"

Outcome(call, decision, stores) ==
  LET answer == Answer(decision, config, "pre" \in stores)
  IN [call |-> call, decision |-> decision, answer |-> answer,
      events |-> Events(call, decision, answer),
      candidate |-> StoredCandidate(call, answer, stores)]

\* Without the plugin a call is neither decided nor stored.
MakeCall(call) ==
  /\ plugin # "off"
  /\ LET decision == Decision(call)
     IN \E stores \in SUBSET Writers(decision) : last' = Outcome(call, decision, stores)
  /\ UNCHANGED <<env, file, ruleFile, plugin, config, hooks, rules>>

Next == Start \/ StartFails \/ \E call \in ToolCalls : MakeCall(call)

Spec == Init /\ [][Next]_vars

----------------------------------------------------------------------------
\* A value that the setting can take, in the environment and in the file.
SaneEnv(k, var) ==
  CASE k = "mode" -> var.value \in Modes
    [] k = "timeoutMs" -> \E n \in AsInt(var) : n \in 1 .. 10000
    [] OTHER -> TRUE

SaneInFile(k, raw) ==
  CASE k = "mode" -> raw.type = "text" /\ raw.value \in Modes
    [] k = "timeoutMs" -> \E n \in AsInt(raw) : n \in 1 .. 10000
    [] k \in {"capture", "intents"} -> TRUE
    [] OTHER -> raw.type = "bool"

\* config.py "safe defaults": a value that a setting cannot take is as good as
\* no value, wherever it stands: the next source is asked and nothing else
\* changes.  Three exceptions: a Boolean in the environment and
\* capture_raw_payloads in the file take any value, and an integer in the file
\* that is infinite leaves Hermes without the plugin, as nothing else does.
GarbageChangesNothing ==
  /\ plugin = "running" =>
       config = LoadConfig(
         [k \in Keys |-> IF env[k] # Absent /\ SaneEnv(k, env[k]) THEN env[k] ELSE Absent],
         [readable |-> TRUE,
          keys |-> [k \in Keys |-> IF file.readable /\ SaneInFile(k, file.keys[k])
                                   THEN file.keys[k] ELSE Absent]])
  /\ plugin = "failed" => file.readable /\ file.keys["timeoutMs"].type = "inf"

\* load_config: "fixed priority: environment > user config > defaults".  A
\* setting that the environment names soundly is not touched by the file.
EnvironmentWins ==
  plugin = "running" =>
    \A k \in Keys :
      env[k] \notin {Absent, Text("")} /\ SaneEnv(k, env[k]) =>
        config[k] = LoadConfig(env, [file EXCEPT !.keys[k] = Absent])[k]
                  /\ config[k] = LoadConfig(env, [file EXCEPT !.readable = FALSE])[k]

\* configuration.md: candidate and block "only take effect when
\* SKILL_GUARD_DRY_RUN=false".  With any files, garbage included, a call is
\* blocked for its decision only if the environment, or else a readable file,
\* turns dry_run off.
NothingBlocksUnasked ==
  last.answer = "blocked" =>
    \/ env["dryRun"] # Absent /\ env["dryRun"].value \notin TrueWords
    \/ /\ env["dryRun"] = Absent
       /\ file.readable
       /\ file.keys["dryRun"] = [type |-> "bool", value |-> FALSE]

----------------------------------------------------------------------------
(* The meaning of a rule file, without order, merging or short cuts.        *)

\* Three-valued logic: a leaf that raises is unknown.
NodeMeaning(node, values, ctx) ==
  CASE node.kind = "leaf" -> IF LeafRaises(node) THEN "unknown"
                             ELSE IF LeafHolds(node, ctx) THEN "true" ELSE "false"
    [] node.kind = "and" -> IF "false" \in values THEN "false"
                            ELSE IF "unknown" \in values THEN "unknown" ELSE "true"
    [] node.kind = "or" -> IF "true" \in values THEN "true"
                           ELSE IF "unknown" \in values THEN "unknown" ELSE "false"
    [] node.kind = "not" -> IF "true" \in values THEN "false"
                            ELSE IF "unknown" \in values THEN "unknown" ELSE "true"

Meaning(when, ctx) ==
  LET meaning[i \in DOMAIN when] ==
        NodeMeaning(when[i], {meaning[when[i].parts[j]] : j \in DOMAIN when[i].parts}, ctx)
  IN meaning[Len(when)]

\* The rules in force: the bundled ones, unless the user has disabled or
\* rewritten them; what he has rewritten last, unless it is disabled; and all
\* that he has added, one id or not.
InForce ==
  LET user == IF ruleFile.state = "good" THEN ruleFile.rules ELSE <<>>
      disabled == IF ruleFile.state = "good" THEN ruleFile.disabled ELSE {}
      bundled == Ids(DefaultRules)
  IN {r \in ToSet(DefaultRules) : r.id \notin disabled \cup Ids(user)}
       \cup {LastWith(user, id) : id \in (Ids(user) \cap bundled) \ disabled}
       \cup {r \in ToSet(user) : r.id \notin bundled}

\* rule-engine.md, "Loading order and merge semantics" and "Integration with
\* PreflightPolicy": unless the evaluation raises, the decision on a call is the
\* one that the highest severity among the enabled rules in force whose
\* condition is true calls for, whatever the order of files, rules and children.
RulesAgree ==
  last.answer # "none" /\ last.decision \in Decisions /\ InBoundary(last.call) =>
    LET ctx == FromToolCall(last.call.args, config)
        true == {r \in InForce : r.enabled /\ Meaning(r.when, ctx) = "true"}
        ranks == {Rank(r.severity) : r \in true}
    IN last.decision = Verdict(config, IF true = {} THEN "none" ELSE Severity[Max(ranks)])

Strictness(decision) ==
  CASE decision = "allow" -> 0 [] decision = "warn" -> 1
    [] decision = "candidate" -> 2 [] decision = "block" -> 3

Milder(mode) ==
  CASE mode = "audit" -> {"audit"}
    [] mode = "candidate" -> {"audit", "candidate"}
    [] mode = "block" -> Modes

\* A stricter set-up never lets more through: with rules left out, or under a
\* milder mode, the decision on the same call is at most as strict as it is.
StricterNeverWeaker ==
  last.answer # "none" /\ last.decision \in Decisions =>
    \A i \in DOMAIN rules, mode \in Milder(config.mode) :
      LET decision == Decide(last.call, RemoveAt(rules, i), [config EXCEPT !.mode = mode])
      IN Strictness(decision) <= Strictness(last.decision)

----------------------------------------------------------------------------
\* The places of a part, as seen from the value around it.
Below(n, places) == {<<n>> \o place : place \in places}

\* Where the texts and numbers of each value are.
LeafPlaces(payload) ==
  LET leaves[i \in DOMAIN payload] ==
        IF payload[i].kind \in {"map", "list"}
        THEN UNION {Below(n, leaves[payload[i].parts[n]]) : n \in DOMAIN payload[i].parts}
        ELSE {<<>>}
  IN leaves

\* The places of a payload that hold a secret text or are below a sensitive key.
SecretPlaces(payload) ==
  LET Sensitive(i, n) == payload[i].kind = "map" /\ payload[i].keys[n] \in SensitiveKeys
      secret[i \in DOMAIN payload] ==
        IF payload[i].kind \in {"map", "list"}
        THEN UNION {Below(n, IF Sensitive(i, n) THEN LeafPlaces(payload)[payload[i].parts[n]]
                             ELSE secret[payload[i].parts[n]]) : n \in DOMAIN payload[i].parts}
        ELSE IF payload[i].kind = "text" /\ payload[i].text \in Secrets THEN {<<>>} ELSE {}
  IN secret[Len(payload)]

RawPlaces(kept) == {k.place : k \in {s \in kept : s.shape = "raw"}}

\* runtime-safety.md, "Redaction", of the events: with raw capture on or off, at
\* whatever depth, no value is stored as it is that is a text with a secret in
\* it or stands below a sensitive key.  The keys of maps are, whatever they say,
\* and so is what is left of a secret that the preview of a result cuts short.
EventsAreClean ==
  last.answer # "none" =>
    \A event \in last.events : RawPlaces(event.kept) \cap SecretPlaces(event.payload) = {}

\* README, "Secret leakage": of the candidates, whose name, description and
\* target path are stored as they are.  The content of one has a secret in it
\* only where the pre hook could not store the candidate and fail_open let the
\* call run: then the post hook stores it, and takes it for promotable.
SecretContentNeedsFailure ==
  \/ last.answer = "none" \/ last.candidate = None
  \/ last.candidate.content = None \/ last.candidate.content \notin Secrets
  \/ last.answer = "pass" /\ config.failOpen

----------------------------------------------------------------------------
\* loader.py: "Fail closed: refuse to start with an unparseable rule file."  In
\* block mode the plugin does not run over a broken rule file.
BrokenRulesStopStart ==
  plugin = "running" /\ config.mode = "block" => ruleFile.state # "broken"
=============================================================================
