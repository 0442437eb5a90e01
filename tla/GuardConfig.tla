----------------------------- MODULE GuardConfig -----------------------------
(***************************************************************************)
(* load_config (config.py): environment over user file over defaults, and  *)
(* what each source's values are worth.  One setting of each way to be     *)
(* read is modelled; the others of config.py are read like one of these:   *)
(*   dryRun, failOpen, otel  a Boolean                                     *)
(*   timeoutMs               a bounded integer                             *)
(*   mode                    one of three words                            *)
(*   capture                 capture_raw_payloads: not checked in the file *)
(*   intents                 a set of names                                *)
(*   observability           derived from other settings                   *)
(* A raw value is what YAML or the environment gives: a type and a value.  *)
(* Words come stripped and in lower case; a fraction stands as the integer *)
(* that int() makes of it, and .inf has a type of its own.                 *)
(***************************************************************************)
EXTENDS Enforcement, Naturals, TLC

Absent == [type |-> "absent", value |-> FALSE]
Text(word) == [type |-> "text", value |-> word]

Keys == {"dryRun", "mode", "failOpen", "timeoutMs", "capture", "intents", "otel",
         "observability"}

Defaults ==
  [dryRun |-> TRUE, mode |-> "audit", failOpen |-> TRUE, timeoutMs |-> 150,
   capture |-> FALSE, intents |-> {}, otel |-> FALSE, observability |-> FALSE]

TrueWords == {"1", "true", "yes", "on"}

\* int() of a word, where it has one.
Numerals == ("0" :> 0) @@ ("1" :> 1) @@ ("150" :> 150) @@ ("10001" :> 10001)

\* The names between the commas.
Parts == ("" :> {}) @@ ("," :> {}) @@ ("capture" :> {"capture"})
           @@ ("capture,preflight" :> {"capture", "preflight"})

----------------------------------------------------------------------------
SafeBool(raw, default) == IF raw.type = "bool" THEN raw.value ELSE default

\* int(raw) as a set: empty where it raises what _safe_int catches.
AsInt(raw) ==
  CASE raw.type = "int"  -> {raw.value}
    [] raw.type = "bool" -> {IF raw.value THEN 1 ELSE 0}
    [] raw.type = "text" /\ raw.value \in DOMAIN Numerals -> {Numerals[raw.value]}
    [] OTHER -> {}

\* Mutation of SafeInt: the maximum is not looked at.
SafeIntUnbounded(raw, default, min, max) ==
  IF \E n \in AsInt(raw) : n >= min THEN CHOOSE n \in AsInt(raw) : TRUE ELSE default

SafeInt(raw, default, min, max) ==
  IF \E n \in AsInt(raw) : n \in min .. max
  THEN CHOOSE n \in AsInt(raw) : TRUE ELSE default

SafeMode(raw, default) ==
  IF raw.type = "text" /\ raw.value \in Modes THEN raw.value ELSE default

\* Mutation of EnvBool: a false word does not turn a setting off.
EnvBoolOr(var, default) == default \/ (var # Absent /\ var.value \in TrueWords)

\* Mutation of EnvBool: a variable that is not set counts as false.
EnvBoolUnset(var, default) == var # Absent /\ var.value \in TrueWords

\* Any word that does not say true says false.
EnvBool(var, default) == IF var = Absent THEN default ELSE var.value \in TrueWords

EnvInt(var, default) ==
  [type |-> "int",
   value |-> IF AsInt(var) = {} THEN default ELSE CHOOSE n \in AsInt(var) : TRUE]

ParseIntents(raw) ==
  CASE raw.type = "text" -> Parts[raw.value]
    [] raw.type = "list" -> raw.value
    [] OTHER -> {}

\* A value that nobody checks and that is used as a condition.
Truthy(raw, default) ==
  CASE raw = Absent -> default
    [] raw.type = "text" -> raw.value # ""
    [] raw.type = "bool" -> raw.value
    [] raw.type = "int" -> raw.value # 0
    [] raw.type = "inf" -> TRUE
    [] OTHER -> FALSE

----------------------------------------------------------------------------
\* No file, a file that is not YAML, and a root that is no mapping are alike.
LoadUserFile(file) == IF file.readable THEN file.keys ELSE [k \in Keys |-> Absent]

\* int(inf) raises an OverflowError, which _safe_int does not catch, and so do
\* _merge_config and load_config.  The environment has only texts.
ConfigRaises(file) == LoadUserFile(file)["timeoutMs"].type = "inf"

MergeFile(base, user) ==
  [dryRun        |-> SafeBool(user["dryRun"], base.dryRun),
   mode          |-> SafeMode(user["mode"], base.mode),
   failOpen      |-> SafeBool(user["failOpen"], base.failOpen),
   timeoutMs     |-> SafeInt(user["timeoutMs"], base.timeoutMs, 1, 10000),
   capture       |-> Truthy(user["capture"], base.capture),
   intents       |-> IF user["intents"] = Absent THEN base.intents
                     ELSE ParseIntents(user["intents"]),
   otel          |-> SafeBool(user["otel"], base.otel),
   observability |-> SafeBool(user["observability"], base.observability)]

MergeEnv(base, env) ==
  LET otel == EnvBool(env["otel"], base.otel)
  IN [dryRun        |-> EnvBool(env["dryRun"], base.dryRun),
      mode          |-> SafeMode(env["mode"], base.mode),
      failOpen      |-> EnvBool(env["failOpen"], base.failOpen),
      timeoutMs     |-> SafeInt(EnvInt(env["timeoutMs"], base.timeoutMs),
                                base.timeoutMs, 1, 10000),
      capture       |-> EnvBool(env["capture"], base.capture),
      intents       |-> IF env["intents"] \in {Absent, Text("")} THEN base.intents
                        ELSE ParseIntents(env["intents"]),
      otel          |-> otel,
      observability |-> EnvBool(env["observability"], base.observability \/ otel)]

LoadConfig(env, file) == MergeEnv(MergeFile(Defaults, LoadUserFile(file)), env)
=============================================================================
