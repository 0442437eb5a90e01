-------------------------- MODULE GuardedCallsProofs --------------------------
(***************************************************************************)
(* Theorems about GuardedCalls: for any environment, configuration file,   *)
(* rule file, bundled rules and call.                                      *)
(***************************************************************************)
EXTENDS GuardedCalls, SequenceLemmas, FiniteSetTheorems, TLAPS

(* The running plugin works with what Start loaded from the files that are  *)
(* still there; one that did not start has no hooks.                        *)
LoadedOnce ==
  /\ plugin = "running" =>
       /\ config = LoadConfig(env, file)
       /\ "pre" \in hooks => rules = LoadRules(DefaultRules, ruleFile, config.mode)
  /\ plugin # "running" => hooks = {}
  /\ plugin = "failed" => ConfigRaises(file)

(* The last call became what these rules and this configuration make of it. *)
Decided(call, stores) == last = Outcome(call, Decision(call), stores)
DecidedByLoaded ==
  \/ last = NoCall
  \/ plugin # "off" /\ \E call \in ToolCalls : \E stores \in SUBSET Writers(Decision(call)) :
                         Decided(call, stores)

IInv ==
  /\ env \in Environments /\ file \in ConfigFiles /\ ruleFile \in RuleFiles
  /\ LoadedOnce
  /\ DecidedByLoaded

LEMMA InitIInv == Init => IInv
  BY DEF Init, IInv, LoadedOnce, DecidedByLoaded

LEMMA StartIInv == IInv /\ Start => IInv'
  <1>1. SUFFICES ASSUME IInv, Start PROVE IInv'
    OBVIOUS
  <1>2. UNCHANGED <<env, file, ruleFile, last>> /\ last = NoCall /\ plugin' = "running"
    BY <1>1 DEF Start, IInv, DecidedByLoaded
  <1>3. config' = LoadConfig(env, file)
    BY <1>1, Zenon DEF Start
  <1>4. "pre" \in hooks' => rules' = LoadRules(DefaultRules, ruleFile, config'.mode)
    BY <1>1 DEF Start
  <1>5. QED
    BY <1>1, <1>2, <1>3, <1>4 DEF IInv, LoadedOnce, DecidedByLoaded, NoCall

LEMMA StartFailsIInv == IInv /\ StartFails => IInv'
  <1>1. SUFFICES ASSUME IInv, StartFails PROVE IInv'
    OBVIOUS
  <1>2. /\ UNCHANGED <<env, file, ruleFile, last, hooks>> /\ last = NoCall /\ hooks = {}
        /\ plugin' = "failed" /\ ConfigRaises(file)
    BY <1>1 DEF StartFails, IInv, DecidedByLoaded, LoadedOnce
  <1>3. ConfigRaises(file)'
    BY <1>2 DEF ConfigRaises, LoadUserFile
  <1>4. QED
    BY <1>1, <1>2, <1>3 DEF IInv, LoadedOnce, DecidedByLoaded, NoCall

\* What a call is decided and becomes depends on what no call changes.
LEMMA OutcomeStays ==
  ASSUME UNCHANGED <<plugin, config, hooks, rules>>, NEW call, NEW stores
  PROVE  /\ Outcome(call, Decision(call), stores)' = Outcome(call, Decision(call), stores)
         /\ Writers(Decision(call))' = Writers(Decision(call))
  BY DEF Outcome, Decision, Writers, Events, StoredCandidate

LEMMA CallIInv == ASSUME NEW call \in ToolCalls PROVE IInv /\ MakeCall(call) => IInv'
  <1>1. SUFFICES ASSUME IInv, MakeCall(call) PROVE IInv'
    OBVIOUS
  <1>2. UNCHANGED <<env, file, ruleFile, plugin, config, hooks, rules>> /\ plugin # "off"
    BY <1>1 DEF MakeCall
  <1>3. PICK stores \in SUBSET Writers(Decision(call)) : last' = Outcome(call, Decision(call), stores)
    BY <1>1 DEF MakeCall
  <1>4. Decided(call, stores)' /\ stores \in SUBSET (Writers(Decision(call))')
    BY <1>2, <1>3, OutcomeStays DEF Decided
  <1>5. LoadedOnce'
    BY <1>1, <1>2 DEF IInv, LoadedOnce, ConfigRaises, LoadUserFile
  <1>6. QED
    BY <1>1, <1>2, <1>4, <1>5 DEF IInv, DecidedByLoaded

\* What was loaded stays what decides.
LEMMA LoadedDecides == Spec => []IInv
  <1>1. IInv /\ [Next]_vars => IInv'
    <2>1. SUFFICES ASSUME IInv, [Next]_vars PROVE IInv'
      OBVIOUS
    <2>2. CASE Start
      BY <2>1, <2>2, StartIInv
    <2>3. CASE StartFails
      BY <2>1, <2>3, StartFailsIInv
    <2>4. ASSUME NEW call \in ToolCalls, MakeCall(call) PROVE IInv'
      BY <2>1, <2>4, CallIInv
    <2>5. CASE UNCHANGED vars
      <3>1. UNCHANGED <<env, file, ruleFile, plugin, config, hooks, rules, last>>
        BY <2>5 DEF vars
      <3>2. LoadedOnce'
        BY <2>1, <3>1 DEF IInv, LoadedOnce, ConfigRaises, LoadUserFile
      <3>3. ASSUME NEW call \in ToolCalls, NEW stores \in SUBSET Writers(Decision(call)),
                   Decided(call, stores)
            PROVE  Decided(call, stores)' /\ stores \in SUBSET (Writers(Decision(call))')
        BY <3>1, <3>3, OutcomeStays DEF Decided
      <3>4. DecidedByLoaded'
        BY <2>1, <3>1, <3>3 DEF IInv, DecidedByLoaded, NoCall
      <3>5. QED
        BY <2>1, <3>1, <3>2, <3>4 DEF IInv
    <2>6. QED
      BY <2>1, <2>2, <2>3, <2>4, <2>5 DEF Next
  <1>2. QED
    BY <1>1, InitIInv, PTL DEF Spec

\* Who decided on the last call, and what came of it.
LEMMA LastCallIs ==
  ASSUME IInv, last.answer # "none"
  PROVE  \E call \in ToolCalls : \E stores \in SUBSET Writers(Decision(call)) :
           /\ last = Outcome(call, Decision(call), stores)
           /\ last.call = call /\ last.decision = Decision(call)
           /\ last.answer = Answer(Decision(call), config, "pre" \in stores)
  <1>1. PICK call \in ToolCalls : \E stores \in SUBSET Writers(Decision(call)) : Decided(call, stores)
    BY DEF IInv, DecidedByLoaded, NoCall
  <1>2. PICK stores \in SUBSET Writers(Decision(call)) : Decided(call, stores)
    BY <1>1
  <1>3. QED
    BY <1>2 DEF Decided, Outcome

\* A decision of the policy comes from a running plugin.
LEMMA GuardedIs ==
  ASSUME IInv, NEW call, Decision(call) # "unguarded"
  PROVE  plugin = "running" /\ "pre" \in hooks /\ Decision(call) = Decide(call, rules, config)
  BY DEF Decision, IInv, LoadedOnce

----------------------------------------------------------------------------
(* Configuration.                                                           *)

\* What a reader makes of a value that it does not take: it keeps the default.
LEMMA SafeBoolIgnores ==
  ASSUME NEW raw, NEW default, raw.type # "bool"
  PROVE  SafeBool(raw, default) = default
  BY DEF SafeBool

LEMMA SafeModeIgnores ==
  ASSUME NEW raw, NEW default, ~ (raw.type = "text" /\ raw.value \in Modes)
  PROVE  SafeMode(raw, default) = default
  BY DEF SafeMode

(* A number that timeoutMs can be.                                          *)
InBounds(raw) == \E n \in AsInt(raw) : n \in 1 .. 10000

LEMMA SafeIntIgnores ==
  ASSUME NEW raw, NEW default, ~ InBounds(raw)
  PROVE  SafeInt(raw, default, 1, 10000) = default
  BY DEF SafeInt, InBounds

LEMMA SafeIntTakes ==
  ASSUME NEW raw, NEW default, NEW i, AsInt(raw) = {i}, InBounds(raw)
  PROVE  SafeInt(raw, default, 1, 10000) = i
  <1>1. SafeInt(raw, default, 1, 10000) = CHOOSE n \in AsInt(raw) : TRUE
    BY DEF SafeInt, InBounds
  <1>2. QED
    BY <1>1

LEMMA SafeIntOfDefault ==
  ASSUME NEW raw, NEW default, AsInt(raw) = {default}
  PROVE  SafeInt(raw, default, 1, 10000) = default
  BY DEF SafeInt

\* int() gives one number or raises.
LEMMA AsIntIs ==
  ASSUME NEW raw
  PROVE  AsInt(raw) = {} \/ \E n : AsInt(raw) = {n}
  BY DEF AsInt

\* What the environment names as a number, or the default, is a number.
LEMMA EnvIntIs ==
  ASSUME NEW var, NEW default
  PROVE  AsInt(EnvInt(var, default)) = {EnvInt(var, default).value}
  <1>1. ASSUME NEW raw, raw.type = "int"
        PROVE  AsInt(raw) = {raw.value}
    BY <1>1 DEF AsInt
  <1>2. EnvInt(var, default).type = "int"
    BY DEF EnvInt
  <1>3. QED
    BY <1>1, <1>2

\* One that is not in bounds is as good as none.
LEMMA EnvIntIgnored ==
  ASSUME NEW var, NEW default, ~ InBounds(var)
  PROVE  SafeInt(EnvInt(var, default), default, 1, 10000) = default
  <1> DEFINE raw == EnvInt(var, default)
  <1>1. raw.value = IF AsInt(var) = {} THEN default ELSE CHOOSE n \in AsInt(var) : TRUE
    BY DEF EnvInt
  <1>2. AsInt(raw) = {raw.value}
    BY EnvIntIs
  <1> HIDE DEF raw
  <1>3. CASE AsInt(var) = {}
    BY <1>1, <1>2, <1>3, SafeIntOfDefault DEF raw
  <1>4. CASE AsInt(var) # {}
    <2>1. raw.value \in AsInt(var)
      BY <1>1, <1>4
    <2>2. ~ InBounds(raw)
      BY <1>2, <2>1 DEF InBounds
    <2>3. QED
      BY <2>2, SafeIntIgnores DEF raw
  <1>5. QED
    BY <1>3, <1>4

\* One that is in bounds leaves nothing to the default.
LEMMA EnvIntTaken ==
  ASSUME NEW var, NEW m, NEW n, InBounds(var)
  PROVE  SafeInt(EnvInt(var, m), m, 1, 10000) = SafeInt(EnvInt(var, n), n, 1, 10000)
  <1>1. PICK i : AsInt(var) = {i}
    <2>1. AsInt(var) # {}
      BY DEF InBounds
    <2>2. QED
      BY <2>1, AsIntIs
  <1>2. EnvInt(var, m).value = i /\ EnvInt(var, n).value = i
    BY <1>1 DEF EnvInt
  <1>3. AsInt(EnvInt(var, m)) = {i} /\ AsInt(EnvInt(var, n)) = {i}
    BY <1>2, EnvIntIs
  <1>4. InBounds(EnvInt(var, m)) /\ InBounds(EnvInt(var, n))
    BY <1>1, <1>3 DEF InBounds
  <1>5. QED
    BY <1>3, <1>4, SafeIntTakes

LEMMA AbsentIs ==
  /\ Absent.type = "absent"
  /\ ~ InBounds(Absent)
  <1>1. Absent.type = "absent"
    BY DEF Absent
  <1>2. AsInt(Absent) = {}
    BY <1>1 DEF AsInt
  <1>3. QED
    BY <1>1, <1>2 DEF InBounds

\* Each reader makes the same of a value that the setting cannot take and of none.
LEMMA SafeBoolClean ==
  ASSUME NEW raw, NEW clean, NEW default, clean = IF raw.type = "bool" THEN raw ELSE Absent
  PROVE  SafeBool(raw, default) = SafeBool(clean, default)
  <1>1. CASE raw.type = "bool"
    BY <1>1
  <1>2. CASE raw.type # "bool"
    <2>1. clean.type # "bool"
      BY <1>2, AbsentIs
    <2>2. QED
      BY <1>2, <2>1, SafeBoolIgnores
  <1>3. QED
    BY <1>1, <1>2

LEMMA SafeModeClean ==
  ASSUME NEW raw, NEW clean, NEW default,
         clean = raw \/ (clean = Absent /\ ~ (raw.type = "text" /\ raw.value \in Modes))
  PROVE  SafeMode(raw, default) = SafeMode(clean, default)
  <1>1. CASE clean = raw
    BY <1>1
  <1>2. CASE clean = Absent /\ ~ (raw.type = "text" /\ raw.value \in Modes)
    <2>1. clean.type # "text"
      BY <1>2, AbsentIs
    <2>2. QED
      BY <1>2, <2>1, SafeModeIgnores
  <1>3. QED
    BY <1>1, <1>2

LEMMA IntClean ==
  ASSUME NEW raw, NEW clean, NEW default, clean = IF InBounds(raw) THEN raw ELSE Absent
  PROVE  /\ SafeInt(raw, default, 1, 10000) = SafeInt(clean, default, 1, 10000)
         /\ SafeInt(EnvInt(raw, default), default, 1, 10000)
              = SafeInt(EnvInt(clean, default), default, 1, 10000)
  <1>1. CASE InBounds(raw)
    BY <1>1
  <1>2. CASE ~ InBounds(raw)
    <2>1. ~ InBounds(clean)
      BY <1>2, AbsentIs
    <2>2. QED
      BY <1>2, <2>1, SafeIntIgnores, EnvIntIgnored
  <1>3. QED
    BY <1>1, <1>2

\* Values that a file cannot give a setting are as good as none.
LEMMA FileGarbage ==
  ASSUME NEW base, NEW user, NEW clean,
         \A k \in Keys : clean[k] = IF SaneInFile(k, user[k]) THEN user[k] ELSE Absent
  PROVE  MergeFile(base, user) = MergeFile(base, clean)
  <1>1. /\ clean["dryRun"] = IF user["dryRun"].type = "bool" THEN user["dryRun"] ELSE Absent
        /\ clean["failOpen"] = IF user["failOpen"].type = "bool" THEN user["failOpen"] ELSE Absent
        /\ clean["otel"] = IF user["otel"].type = "bool" THEN user["otel"] ELSE Absent
        /\ clean["observability"] =
             IF user["observability"].type = "bool" THEN user["observability"] ELSE Absent
    BY DEF Keys, SaneInFile
  <1>2. \/ clean["mode"] = user["mode"]
        \/ clean["mode"] = Absent /\ ~ (user["mode"].type = "text" /\ user["mode"].value \in Modes)
    BY DEF Keys, SaneInFile
  <1>3. clean["timeoutMs"] = IF InBounds(user["timeoutMs"]) THEN user["timeoutMs"] ELSE Absent
    BY DEF Keys, SaneInFile, InBounds
  <1>4. clean["capture"] = user["capture"] /\ clean["intents"] = user["intents"]
    BY DEF Keys, SaneInFile
  <1>5. /\ SafeBool(user["dryRun"], base.dryRun) = SafeBool(clean["dryRun"], base.dryRun)
        /\ SafeBool(user["failOpen"], base.failOpen) = SafeBool(clean["failOpen"], base.failOpen)
        /\ SafeBool(user["otel"], base.otel) = SafeBool(clean["otel"], base.otel)
        /\ SafeBool(user["observability"], base.observability)
             = SafeBool(clean["observability"], base.observability)
    BY <1>1, SafeBoolClean
  <1>6. SafeMode(user["mode"], base.mode) = SafeMode(clean["mode"], base.mode)
    BY <1>2, SafeModeClean
  <1>7. SafeInt(user["timeoutMs"], base.timeoutMs, 1, 10000)
          = SafeInt(clean["timeoutMs"], base.timeoutMs, 1, 10000)
    BY <1>3, IntClean
  <1>8. QED
    BY <1>4, <1>5, <1>6, <1>7 DEF MergeFile

\* Values that the environment cannot give a setting are as good as none.
LEMMA EnvGarbage ==
  ASSUME NEW base, NEW e, NEW clean,
         \A k \in Keys : clean[k] = IF e[k] # Absent /\ SaneEnv(k, e[k]) THEN e[k] ELSE Absent
  PROVE  MergeEnv(base, e) = MergeEnv(base, clean)
  <1> DEFINE Bool(x, k) == EnvBool(x[k], base[k])
             mode(x) == SafeMode(x["mode"], base.mode)
             timeoutMs(x) == SafeInt(EnvInt(x["timeoutMs"], base.timeoutMs), base.timeoutMs, 1, 10000)
             intents(x) == IF x["intents"] \in {Absent, Text("")} THEN base.intents
                           ELSE ParseIntents(x["intents"])
             observability(x) ==
               EnvBool(x["observability"], base.observability \/ EnvBool(x["otel"], base.otel))
  <1>1. /\ clean["dryRun"] = e["dryRun"] /\ clean["failOpen"] = e["failOpen"]
        /\ clean["capture"] = e["capture"] /\ clean["intents"] = e["intents"]
        /\ clean["otel"] = e["otel"] /\ clean["observability"] = e["observability"]
    BY DEF Keys, SaneEnv
  <1>2. clean["mode"] = e["mode"] \/ (clean["mode"] = Absent /\ e["mode"].value \notin Modes)
    BY DEF Keys, SaneEnv
  <1>3. clean["timeoutMs"] = IF InBounds(e["timeoutMs"]) THEN e["timeoutMs"] ELSE Absent
    <2>1. clean["timeoutMs"] = e["timeoutMs"]
            \/ (clean["timeoutMs"] = Absent /\ ~ InBounds(e["timeoutMs"]))
      BY DEF Keys, SaneEnv, InBounds
    <2>2. clean["timeoutMs"] = Absent \/ InBounds(e["timeoutMs"])
      BY DEF Keys, SaneEnv, InBounds
    <2>3. QED
      BY <2>1, <2>2
  <1>4. mode(e) = mode(clean)
    BY <1>2, SafeModeClean
  <1>5. timeoutMs(e) = timeoutMs(clean)
    BY <1>3, IntClean
  <1>6. intents(e) = intents(clean) /\ observability(e) = observability(clean)
    BY <1>1
  <1>7. ASSUME NEW k \in {"dryRun", "failOpen", "capture", "otel"}
        PROVE  Bool(e, k) = Bool(clean, k)
    BY <1>1
  <1>8. ASSUME NEW x
        PROVE  MergeEnv(base, x) =
                 [dryRun |-> Bool(x, "dryRun"), mode |-> mode(x), failOpen |-> Bool(x, "failOpen"),
                  timeoutMs |-> timeoutMs(x), capture |-> Bool(x, "capture"), intents |-> intents(x),
                  otel |-> Bool(x, "otel"), observability |-> observability(x)]
    BY DEF MergeEnv
  <1> HIDE DEF Bool, mode, timeoutMs, intents, observability
  <1>9. QED
    BY <1>4, <1>5, <1>6, <1>7, <1>8

\* load_config: a value that is not worth anything for a setting changes
\* nothing, in the environment and in the file, unless it is an infinite
\* integer, with which the plugin does not start; nothing else keeps it from it.
THEOREM GarbageIgnored == Spec => []GarbageChangesNothing
  <1>1. ASSUME IInv PROVE GarbageChangesNothing
    <2> DEFINE cleanEnv == [k \in Keys |-> IF env[k] # Absent /\ SaneEnv(k, env[k])
                                           THEN env[k] ELSE Absent]
               keys == [k \in Keys |-> IF file.readable /\ SaneInFile(k, file.keys[k])
                                       THEN file.keys[k] ELSE Absent]
               cleanFile == [readable |-> TRUE, keys |-> keys]
    <2>1. ASSUME NEW k \in Keys
          PROVE  keys[k] = IF SaneInFile(k, LoadUserFile(file)[k]) THEN LoadUserFile(file)[k] ELSE Absent
      BY DEF LoadUserFile
    <2>2. MergeFile(Defaults, LoadUserFile(file)) = MergeFile(Defaults, keys)
      <3> HIDE DEF keys
      <3> QED
        BY <2>1, FileGarbage
    <2>3. LoadUserFile(cleanFile) = keys
      BY DEF LoadUserFile
    <2>4. \A k \in Keys : cleanEnv[k] = IF env[k] # Absent /\ SaneEnv(k, env[k]) THEN env[k] ELSE Absent
      OBVIOUS
    <2> HIDE DEF cleanEnv, keys, cleanFile
    <2>5. LoadConfig(env, file) = LoadConfig(cleanEnv, cleanFile)
      BY <2>2, <2>3, <2>4, EnvGarbage DEF LoadConfig
    <2>6. plugin = "running" => config = LoadConfig(cleanEnv, cleanFile)
      BY <1>1, <2>5, Zenon DEF IInv, LoadedOnce
    <2>7. plugin = "failed" => file.readable /\ file.keys["timeoutMs"].type = "inf"
      <3>1. plugin = "failed" => ConfigRaises(file)
        BY <1>1 DEF IInv, LoadedOnce
      <3>2. "timeoutMs" \in Keys
        BY DEF Keys
      <3>3. Absent.type # "inf"
        BY AbsentIs
      <3>4. QED
        BY <3>1, <3>2, <3>3 DEF ConfigRaises, LoadUserFile
    <2>8. QED
      BY <2>6, <2>7, Zenon DEF GarbageChangesNothing, cleanEnv, keys, cleanFile
  <1>2. QED
    BY <1>1, LoadedDecides, PTL

LEMMA TextIs == ASSUME NEW v, v = Text(v.value) PROVE v.type = "text"
  BY DEF Text

\* Each setting that the environment names soundly is the same over any base.
LEMMA BoolDecides ==
  ASSUME NEW e, NEW m, NEW n, NEW k \in {"dryRun", "failOpen", "capture", "otel", "observability"},
         e[k] # Absent
  PROVE  MergeEnv(m, e)[k] = MergeEnv(n, e)[k]
  <1>1. ASSUME NEW var, var # Absent, NEW x, NEW y
        PROVE  EnvBool(var, x) = EnvBool(var, y)
    BY <1>1 DEF EnvBool
  <1>2. CASE k = "dryRun"
    <2>1. ASSUME NEW base PROVE MergeEnv(base, e)["dryRun"] = EnvBool(e["dryRun"], base.dryRun)
      BY DEF MergeEnv
    <2>2. QED
      BY <1>1, <1>2, <2>1
  <1>3. CASE k = "failOpen"
    <2>1. ASSUME NEW base PROVE MergeEnv(base, e)["failOpen"] = EnvBool(e["failOpen"], base.failOpen)
      BY DEF MergeEnv
    <2>2. QED
      BY <1>1, <1>3, <2>1
  <1>4. CASE k = "capture"
    <2>1. ASSUME NEW base PROVE MergeEnv(base, e)["capture"] = EnvBool(e["capture"], base.capture)
      BY DEF MergeEnv
    <2>2. QED
      BY <1>1, <1>4, <2>1
  <1>5. CASE k = "otel"
    <2>1. ASSUME NEW base PROVE MergeEnv(base, e)["otel"] = EnvBool(e["otel"], base.otel)
      BY DEF MergeEnv
    <2>2. QED
      BY <1>1, <1>5, <2>1
  <1>6. CASE k = "observability"
    <2> DEFINE default(base) == base.observability \/ EnvBool(e["otel"], base.otel)
    <2>1. ASSUME NEW base
          PROVE  MergeEnv(base, e)["observability"] = EnvBool(e["observability"], default(base))
      BY DEF MergeEnv
    <2> HIDE DEF default
    <2>2. QED
      BY <1>1, <1>6, <2>1
  <1>7. QED
    BY <1>2, <1>3, <1>4, <1>5, <1>6

LEMMA ModeDecides ==
  ASSUME NEW e, NEW m, NEW n, e["mode"] = Text(e["mode"].value), e["mode"].value \in Modes
  PROVE  MergeEnv(m, e)["mode"] = MergeEnv(n, e)["mode"]
  <1>1. ASSUME NEW base PROVE MergeEnv(base, e)["mode"] = SafeMode(e["mode"], base.mode)
    BY DEF MergeEnv
  <1>2. e["mode"].type = "text"
    BY TextIs
  <1>3. SafeMode(e["mode"], m.mode) = SafeMode(e["mode"], n.mode)
    BY <1>2 DEF SafeMode
  <1>4. QED
    BY <1>1, <1>3

LEMMA SaneTimeout == ASSUME NEW v, SaneEnv("timeoutMs", v) PROVE InBounds(v)
  BY DEF SaneEnv, InBounds

LEMMA TimeoutDecides ==
  ASSUME NEW e, NEW m, NEW n, InBounds(e["timeoutMs"])
  PROVE  MergeEnv(m, e)["timeoutMs"] = MergeEnv(n, e)["timeoutMs"]
  <1>1. ASSUME NEW base
        PROVE  MergeEnv(base, e)["timeoutMs"]
                 = SafeInt(EnvInt(e["timeoutMs"], base.timeoutMs), base.timeoutMs, 1, 10000)
    BY DEF MergeEnv
  <1> DEFINE x == m.timeoutMs
             y == n.timeoutMs
  <1>2. SafeInt(EnvInt(e["timeoutMs"], x), x, 1, 10000) = SafeInt(EnvInt(e["timeoutMs"], y), y, 1, 10000)
    <2> HIDE DEF x, y
    <2> QED
      BY EnvIntTaken
  <1>3. QED
    BY <1>1, <1>2

LEMMA IntentsDecide ==
  ASSUME NEW e, NEW m, NEW n, e["intents"] \notin {Absent, Text("")}
  PROVE  MergeEnv(m, e)["intents"] = MergeEnv(n, e)["intents"]
  BY DEF MergeEnv

\* A setting that the environment names soundly is the same with any two files.
LEMMA EnvironmentDecides ==
  ASSUME NEW e, NEW f, NEW g, NEW k \in Keys,
         e[k] = Text(e[k].value), e[k] \notin {Absent, Text("")}, SaneEnv(k, e[k])
  PROVE  LoadConfig(e, f)[k] = LoadConfig(e, g)[k]
  <1> DEFINE m == MergeFile(Defaults, LoadUserFile(f))
             n == MergeFile(Defaults, LoadUserFile(g))
  <1>1. LoadConfig(e, f) = MergeEnv(m, e) /\ LoadConfig(e, g) = MergeEnv(n, e)
    BY DEF LoadConfig
  <1> HIDE DEF m, n
  <1>2. CASE k \in {"dryRun", "failOpen", "capture", "otel", "observability"}
    <2>1. e[k] # Absent
      OBVIOUS
    <2>2. MergeEnv(m, e)[k] = MergeEnv(n, e)[k]
      BY <1>2, <2>1, BoolDecides, Zenon
    <2>3. QED
      BY <1>1, <2>2
  <1>3. CASE k = "mode"
    <2>1. e["mode"].value \in Modes
      BY <1>3 DEF SaneEnv
    <2>2. QED
      BY <1>1, <1>3, <2>1, ModeDecides
  <1>4. CASE k = "timeoutMs"
    <2>1. InBounds(e["timeoutMs"])
      <3>1. SaneEnv("timeoutMs", e["timeoutMs"])
        BY <1>4
      <3>2. QED
        BY <3>1, SaneTimeout
    <2>2. QED
      BY <1>1, <1>4, <2>1, TimeoutDecides
  <1>5. CASE k = "intents"
    BY <1>1, <1>5, IntentsDecide
  <1>6. QED
    BY <1>2, <1>3, <1>4, <1>5 DEF Keys

\* load_config, "environment > user config > defaults": what the environment
\* names soundly is not touched by the file.
THEOREM EnvironmentFirst == Spec => []EnvironmentWins
  <1>1. ASSUME IInv PROVE EnvironmentWins
    <2>1. SUFFICES ASSUME plugin = "running", NEW k \in Keys,
                          env[k] \notin {Absent, Text("")} /\ SaneEnv(k, env[k]), NEW f
                   PROVE  config[k] = LoadConfig(env, f)[k]
      BY Zenon DEF EnvironmentWins
    <2>2. config = LoadConfig(env, file)
      BY <1>1, <2>1 DEF IInv, LoadedOnce
    <2>3. env[k] = Text(env[k].value)
      BY <1>1, <2>1, EnvironmentsAssumption DEF IInv
    <2>4. QED
      BY <2>1, <2>2, <2>3, EnvironmentDecides
  <1>2. QED
    BY <1>1, LoadedDecides, PTL

\* Only a decision blocks, and only with dry_run off.
LEMMA BlockedMeansNotDryRun ==
  ASSUME IInv, NEW call, NEW stored, Answer(Decision(call), config, stored) = "blocked"
  PROVE  plugin = "running" /\ ~ config.dryRun
  <1>1. Decision(call) \in Enforcing
    BY DEF Answer, Enforcing
  <1>2. plugin = "running" /\ Decision(call) = Decide(call, rules, config)
    BY <1>1, GuardedIs DEF Enforcing
  <1>3. PICK severity : Decide(call, rules, config) = Verdict(config, severity)
    <2>1. \/ Decide(call, rules, config) \in {"allow", "raised"}
          \/ \E severity : Decide(call, rules, config) = Verdict(config, severity)
      BY DEF Decide
    <2>2. QED
      BY <1>1, <1>2, <2>1 DEF Enforcing
  <1>4. QED
    BY <1>1, <1>2, <1>3 DEF Verdict, Enforcing

\* pre_tool_call blocks nothing unless the environment, or else a readable
\* config.yaml, turns dry_run off.
THEOREM NothingBlocked == Spec => []NothingBlocksUnasked
  <1>1. ASSUME IInv PROVE NothingBlocksUnasked
    <2>1. SUFFICES ASSUME last.answer = "blocked"
                   PROVE  \/ env["dryRun"] # Absent /\ env["dryRun"].value \notin TrueWords
                          \/ /\ env["dryRun"] = Absent
                             /\ file.readable
                             /\ file.keys["dryRun"] = [type |-> "bool", value |-> FALSE]
      BY DEF NothingBlocksUnasked
    <2>2. PICK call \in ToolCalls : \E stored : last.answer = Answer(Decision(call), config, stored)
      BY <1>1, <2>1, LastCallIs
    <2>3. plugin = "running" /\ ~ config.dryRun
      BY <1>1, <2>1, <2>2, BlockedMeansNotDryRun
    <2> DEFINE user == LoadUserFile(file)
    <2>4. config.dryRun = EnvBool(env["dryRun"], SafeBool(user["dryRun"], TRUE))
      <3>1. config = LoadConfig(env, file)
        BY <1>1, <2>3 DEF IInv, LoadedOnce
      <3>2. LoadConfig(env, file).dryRun
              = EnvBool(env["dryRun"], MergeFile(Defaults, user).dryRun)
        BY DEF LoadConfig, MergeEnv
      <3>3. MergeFile(Defaults, user).dryRun = SafeBool(user["dryRun"], TRUE)
        BY DEF MergeFile, Defaults
      <3>4. QED
        BY <3>1, <3>2, <3>3
    <2>5. CASE env["dryRun"] # Absent
      BY <2>3, <2>4, <2>5 DEF EnvBool
    <2>6. CASE env["dryRun"] = Absent
      <3>1. ~ SafeBool(user["dryRun"], TRUE)
        BY <2>3, <2>4, <2>6 DEF EnvBool
      <3>2. user["dryRun"].type = "bool" /\ ~ user["dryRun"].value
        BY <3>1 DEF SafeBool
      <3>3. file.readable /\ user["dryRun"] = file.keys["dryRun"]
        BY <3>2 DEF LoadUserFile, Absent, Keys
      <3>4. ASSUME NEW raw, raw = [type |-> raw.type, value |-> raw.value],
                   raw.type = "bool", ~ raw.value, raw.value \in BOOLEAN
            PROVE  raw = [type |-> "bool", value |-> FALSE]
        BY <3>4
      <3>5. file \in ConfigFiles /\ "dryRun" \in Keys
        BY <1>1 DEF IInv, Keys
      <3> DEFINE raw == file.keys["dryRun"]
      <3>6. raw = [type |-> raw.type, value |-> raw.value] /\ (raw.type = "bool" => raw.value \in BOOLEAN)
        BY <3>5, FilesAssumption, Zenon
      <3>7. raw.type = "bool" /\ ~ raw.value
        BY <3>2, <3>3
      <3> HIDE DEF raw
      <3>8. raw = [type |-> "bool", value |-> FALSE]
        BY <3>4, <3>6, <3>7
      <3>9. QED
        BY <2>6, <3>3, <3>8 DEF raw
    <2>7. QED
      BY <2>5, <2>6
  <1>2. QED
    BY <1>1, LoadedDecides, PTL

----------------------------------------------------------------------------
(* What the loader makes of the rules.                                      *)

LEMMA ListIs ==
  ASSUME NEW s, IsList(s)
  PROVE  s \in Seq(ToSet(s)) /\ Len(s) \in Nat /\ DOMAIN s = 1 .. Len(s)
  <1> DEFINE n == Len(s)
             t == [i \in 1 .. n |-> s[i]]
  <1>1. n \in Nat /\ s = t
    BY DEF IsList
  <1>2. DOMAIN s = 1 .. n
    BY <1>1
  <1>3. \A i \in 1 .. n : s[i] \in ToSet(s)
    BY <1>2 DEF ToSet
  <1> HIDE DEF n
  <1>4. t \in Seq(ToSet(s))
    BY <1>1, <1>3
  <1>5. QED
    BY <1>1, <1>2, <1>4 DEF n

\* A rule put in its place.
LEMMA InsertedIs ==
  ASSUME NEW S, NEW s \in Seq(S), NEW c \in S
  PROVE  Inserted(s, c) \in Seq(S) /\ ToSet(Inserted(s, c)) = ToSet(s) \cup {c}
  <1> DEFINE U == {i \in DOMAIN s : ~ Before(c, s[i])}
             at == 1 + Cardinality(U)
  <1>1. Len(s) \in Nat /\ U \subseteq 1 .. Len(s)
    OBVIOUS
  <1>2. IsFiniteSet(1 .. Len(s)) /\ Cardinality(1 .. Len(s)) = Len(s)
    BY <1>1, FS_Interval
  <1>3. Cardinality(U) \in Nat /\ Cardinality(U) <= Len(s)
    BY <1>1, <1>2, FS_Subset, FS_CardinalityType
  <1> HIDE DEF U
  <1>4. at \in 1 .. Len(s) + 1
    BY <1>1, <1>3
  <1>5. Inserted(s, c) = InsertAt(s, at, c)
    BY DEF Inserted, U
  <1> HIDE DEF at
  <1>6. QED
    BY <1>4, <1>5, InsertAtIs

\* Sorting keeps the elements.
LEMMA SortedIs ==
  ASSUME NEW S, NEW s \in Seq(S)
  PROVE  Sorted(s) \in Seq(S) /\ ToSet(Sorted(s)) = ToSet(s)
  <1> DEFINE D == 0 .. Len(s)
             V == Seq(S)
             E(g, n) == IF n = 0 THEN <<>> ELSE Inserted(g[n - 1], s[n])
             upTo == CHOOSE g : g = [n \in D |-> E(g, n)]
             Body == [g \in [D -> V] |-> [n \in D |-> E(g, n)]]
             First(n) == {s[i] : i \in 1 .. n}
  <1>1. Len(s) \in Nat /\ D \in SUBSET (0 .. Len(s)) /\ V # {}
    OBVIOUS
  <1>2. DOMAIN s = 1 .. Len(s) /\ \A n \in D \ {0} : s[n] \in S /\ n - 1 \in D /\ n - 1 < n
    OBVIOUS
  <1>3. ASSUME NEW g \in [D -> V], NEW n \in D
        PROVE  E(g, n) \in V
    <2>1. CASE n = 0
      BY <2>1
    <2>2. CASE n # 0
      <3>1. g[n - 1] \in Seq(S) /\ s[n] \in S
        BY <1>2, <2>2
      <3>2. Inserted(g[n - 1], s[n]) \in Seq(S)
        BY <3>1, InsertedIs
      <3>3. QED
        BY <2>2, <3>2
    <2>3. QED
      BY <2>1, <2>2
  <1>4. Body \in [[D -> V] -> [D -> V]]
    BY <1>3
  <1>5. Recursive(Body, D, V)
    BY <1>1, <1>2, <1>4 DEF Recursive
  <1>6. PICK f \in [D -> V] : f = Body[f]
    <2> HIDE DEF D, V, Body
    <2> QED
      BY <1>5, Recursion
  <1>7. f = [n \in D |-> E(f, n)]
    BY <1>6
  <1>8. upTo = [n \in D |-> E(upTo, n)]
    <2> HIDE DEF D, E
    <2> QED
      BY <1>7
  <1>9. Sorted(s) = upTo[Len(s)]
    BY DEF Sorted
  <1> HIDE DEF upTo, Body
  <1> DEFINE T == {n \in D : upTo[n] \in V /\ ToSet(upTo[n]) = First(n)}
  <1>10. ASSUME NEW n \in D, \A j \in D : j < n => j \in T
         PROVE  n \in T
    <2>1. upTo[n] = E(upTo, n)
      BY <1>8
    <2>2. CASE n = 0
      <3>1. upTo[n] = <<>> /\ First(n) = {}
        BY <2>1, <2>2
      <3>2. <<>> \in V /\ ToSet(<<>>) = {}
        BY DEF ToSet
      <3>3. QED
        BY <3>1, <3>2
    <2>3. CASE n # 0
      <3>1. n - 1 \in D /\ n - 1 < n /\ s[n] \in S /\ n \in Nat
        BY <1>2, <2>3
      <3>2. upTo[n - 1] \in V /\ ToSet(upTo[n - 1]) = First(n - 1)
        BY <1>10, <3>1
      <3>3. First(n) = First(n - 1) \cup {s[n]}
        <4>1. 1 .. n = 1 .. (n - 1) \cup {n}
          BY <2>3, <3>1
        <4>2. QED
          BY <4>1
      <3>4. upTo[n] \in V /\ ToSet(upTo[n]) = ToSet(upTo[n - 1]) \cup {s[n]}
        <4>1. upTo[n] = Inserted(upTo[n - 1], s[n])
          BY <2>1, <2>3
        <4>2. upTo[n - 1] \in Seq(S)
          BY <3>2
        <4> DEFINE t == upTo[n - 1]
                   c == s[n]
        <4>3. t \in Seq(S) /\ c \in S
          BY <3>1, <4>2
        <4> HIDE DEF t, c
        <4>4. Inserted(t, c) \in Seq(S) /\ ToSet(Inserted(t, c)) = ToSet(t) \cup {c}
          BY <4>3, InsertedIs
        <4>5. QED
          BY <4>1, <4>4 DEF t, c
      <3>5. QED
        <4> HIDE DEF First
        <4> QED
          BY <3>2, <3>3, <3>4
    <2>4. QED
      BY <2>2, <2>3
  <1>11. D \subseteq T
    <2>1. D \in SUBSET Nat
      OBVIOUS
    <2> HIDE DEF D, T
    <2>2. QED
      BY <1>10, <2>1, StrongInduction
  <1>12. Len(s) \in T
    <2> HIDE DEF T
    <2> QED
      BY <1>1, <1>11
  <1>13. First(Len(s)) = ToSet(s)
    BY <1>2 DEF ToSet
  <1>14. QED
    BY <1>9, <1>12, <1>13

\* The last of the rules of an id is one of the rules.
LEMMA LastWithIs ==
  ASSUME NEW S, NEW user \in Seq(S), NEW id \in Ids(user)
  PROVE  LastWith(user, id) \in ToSet(user)
  <1> DEFINE U == {i \in DOMAIN user : user[i].id = id}
  <1>1. Len(user) \in Nat /\ DOMAIN user = 1 .. Len(user)
    OBVIOUS
  <1>2. U # {}
    BY DEF Ids
  <1>3. U \in SUBSET (0 .. Len(user))
    BY <1>1
  <1>4. U \subseteq DOMAIN user
    OBVIOUS
  <1>5. LastWith(user, id) = user[Max(U)]
    BY DEF LastWith
  <1> HIDE DEF U
  <1>6. Max(U) \in DOMAIN user
    BY <1>1, <1>2, <1>3, <1>4, MaxIs
  <1>7. QED
    BY <1>5, <1>6 DEF ToSet

(* The rules in force, as GuardedCalls!InForce has them, of any two lists.  *)
Together(defaults, disabled, user) ==
  {r \in ToSet(defaults) : r.id \notin disabled \cup Ids(user)}
    \cup {LastWith(user, id) : id \in (Ids(user) \cap Ids(defaults)) \ disabled}
    \cup {r \in ToSet(user) : r.id \notin Ids(defaults)}

\* The loader puts together these rules and no others.
LEMMA MergedIs ==
  ASSUME NEW S, NEW defaults \in Seq(S), NEW user \in Seq(S), NEW disabled
  PROVE  /\ Merged(defaults, disabled, user) \in Seq(S)
         /\ ToSet(Merged(defaults, disabled, user)) = Together(defaults, disabled, user)
  <1> DEFINE kept == Kept(defaults, disabled, user)
             New(r) == IF r.id \in Ids(user) THEN LastWith(user, r.id) ELSE r
             replaced == [i \in DOMAIN kept |-> New(kept[i])]
             extras == Picked(user, {i \in DOMAIN user : user[i].id \notin Ids(defaults)})
  <1>1. /\ ToSet(defaults) \subseteq S /\ ToSet(user) \subseteq S
        /\ ToSet(defaults) = {defaults[i] : i \in DOMAIN defaults}
        /\ ToSet(user) = {user[i] : i \in DOMAIN user}
    BY DEF ToSet
  <1>2. kept \in Seq(S) /\ ToSet(kept) = {r \in ToSet(defaults) : r.id \notin disabled}
    <2> DEFINE at == {i \in DOMAIN defaults : defaults[i].id \notin disabled}
    <2>1. kept = Picked(defaults, at)
      BY DEF Kept
    <2>2. {defaults[i] : i \in at \cap DOMAIN defaults} = {r \in ToSet(defaults) : r.id \notin disabled}
      BY <1>1
    <2> HIDE DEF at, kept
    <2>3. QED
      BY <2>1, <2>2, PickedIs
  <1>3. extras \in Seq(S) /\ ToSet(extras) = {r \in ToSet(user) : r.id \notin Ids(defaults)}
    <2> DEFINE at == {i \in DOMAIN user : user[i].id \notin Ids(defaults)}
    <2>1. {user[i] : i \in at \cap DOMAIN user} = {r \in ToSet(user) : r.id \notin Ids(defaults)}
      BY <1>1
    <2> HIDE DEF at
    <2>2. Picked(user, at) \in Seq(S) /\ ToSet(Picked(user, at)) = {r \in ToSet(user) : r.id \notin Ids(defaults)}
      BY <2>1, PickedIs
    <2>3. QED
      BY <2>2 DEF at
  <1>4. \A r \in S : New(r) \in S
    BY <1>1, LastWithIs
  <1> HIDE DEF kept, extras
  <1>5. replaced \in Seq(S) /\ ToSet(replaced) = {New(r) : r \in ToSet(kept)}
    <2> HIDE DEF New
    <2>1. Len(kept) \in Nat /\ DOMAIN kept = 1 .. Len(kept) /\ \A i \in DOMAIN kept : kept[i] \in S
      BY <1>2
    <2>2. \A i \in 1 .. Len(kept) : New(kept[i]) \in S
      BY <1>4, <2>1
    <2>3. replaced \in Seq(S)
      BY <2>1, <2>2
    <2>4. QED
      BY <2>3 DEF ToSet
  <1> HIDE DEF replaced
  <1>6. Merged(defaults, disabled, user) = Sorted(replaced \o extras)
    BY DEF Merged, kept, replaced, extras
  <1>7. replaced \o extras \in Seq(S) /\ ToSet(replaced \o extras) = ToSet(replaced) \cup ToSet(extras)
    BY <1>3, <1>5, ConcatProperties, ConcatToSet
  <1>8. /\ Merged(defaults, disabled, user) \in Seq(S)
        /\ ToSet(Merged(defaults, disabled, user)) = ToSet(replaced) \cup ToSet(extras)
    BY <1>6, <1>7, SortedIs
  <1>9. ToSet(replaced) = {r \in ToSet(defaults) : r.id \notin disabled \cup Ids(user)}
                            \cup {LastWith(user, id) : id \in (Ids(user) \cap Ids(defaults)) \ disabled}
    <2>1. \A r \in ToSet(defaults) : r.id \in Ids(defaults)
      BY <1>1 DEF Ids
    <2>2. \A id \in Ids(defaults) : \E r \in ToSet(defaults) : r.id = id
      BY <1>1 DEF Ids
    <2> HIDE DEF New
    <2>3. ToSet(replaced) = {New(r) : r \in {q \in ToSet(defaults) : q.id \notin disabled}}
      BY <1>2, <1>5
    <2>4. ASSUME NEW r \in ToSet(defaults), r.id \notin disabled
          PROVE  New(r) \in {q \in ToSet(defaults) : q.id \notin disabled \cup Ids(user)}
                   \cup {LastWith(user, id) : id \in (Ids(user) \cap Ids(defaults)) \ disabled}
      BY <2>1, <2>4 DEF New
    <2>5. ASSUME NEW r \in ToSet(defaults), r.id \notin disabled \cup Ids(user)
          PROVE  r \in ToSet(replaced)
      <3>1. New(r) = r
        BY <2>5 DEF New
      <3>2. QED
        BY <2>3, <2>5, <3>1
    <2>6. ASSUME NEW id \in (Ids(user) \cap Ids(defaults)) \ disabled
          PROVE  LastWith(user, id) \in ToSet(replaced)
      <3>1. PICK r \in ToSet(defaults) : r.id = id
        BY <2>2
      <3>2. New(r) = LastWith(user, id)
        BY <3>1 DEF New
      <3>3. QED
        BY <2>3, <3>1, <3>2
    <2>7. QED
      BY <2>3, <2>4, <2>5, <2>6
  <1>10. QED
    BY <1>3, <1>8, <1>9 DEF Together

----------------------------------------------------------------------------
(* What the engine makes of a condition.                                    *)

Values == {"true", "false", "error"}

(* A node as the schema has it, with this many nodes before it.             *)
IsNode(node, i) ==
  /\ node.kind \in {"leaf", "and", "or", "not"}
  /\ IsList(node.parts) /\ \A j \in DOMAIN node.parts : node.parts[j] \in 1 .. i - 1
  /\ node.kind = "not" => Len(node.parts) = 1

LEMMA FirstOfIs ==
  ASSUME NEW parts, IsList(parts), NEW values \in [DOMAIN parts -> Values],
         NEW settles, NEW otherwise
  PROVE  \/ /\ FirstOf(values, settles, otherwise) = otherwise
            /\ \A j \in DOMAIN parts : values[j] \notin settles
         \/ \E j \in DOMAIN parts :
              values[j] \in settles /\ FirstOf(values, settles, otherwise) = values[j]
  <1> DEFINE U == {j \in DOMAIN values : values[j] \in settles}
  <1>1. DOMAIN values = DOMAIN parts /\ U \in SUBSET Nat
    BY ListIs
  <1>2. CASE U = {}
    BY <1>1, <1>2 DEF FirstOf
  <1>3. CASE U # {}
    <2>1. FirstOf(values, settles, otherwise) = values[Min(U)]
      BY <1>3 DEF FirstOf
    <2>2. Min(U) \in U
      <3> HIDE DEF U
      <3> QED
        BY <1>1, <1>3, MinIs
    <2>3. QED
      BY <1>1, <2>1, <2>2
  <1>4. QED
    BY <1>2, <1>3

LEMMA NodeValueIs ==
  ASSUME NEW node, NEW i, IsNode(node, i), NEW values \in [DOMAIN node.parts -> Values], NEW ctx
  PROVE  NodeValue(node, values, ctx) \in Values
  <1>1. IsList(node.parts)
    BY DEF IsNode
  <1>2. CASE node.kind = "leaf"
    BY <1>2 DEF NodeValue, Values
  <1>3. CASE node.kind = "and"
    <2>1. NodeValue(node, values, ctx) = FirstOf(values, {"false", "error"}, "true")
      BY <1>3 DEF NodeValue
    <2>2. FirstOf(values, {"false", "error"}, "true") \in Values
      BY <1>1, FirstOfIs DEF Values
    <2>3. QED
      BY <2>1, <2>2
  <1>4. CASE node.kind = "or"
    <2>1. NodeValue(node, values, ctx) = FirstOf(values, {"true", "error"}, "false")
      BY <1>4 DEF NodeValue
    <2>2. FirstOf(values, {"true", "error"}, "false") \in Values
      BY <1>1, FirstOfIs DEF Values
    <2>3. QED
      BY <2>1, <2>2
  <1>5. CASE node.kind = "not"
    <2>1. 1 \in DOMAIN node.parts
      BY <1>1, <1>5, ListIs DEF IsNode
    <2>2. NodeValue(node, values, ctx) = Negated(values[1]) /\ values[1] \in Values
      BY <1>5, <2>1 DEF NodeValue
    <2>3. QED
      BY <2>2 DEF Negated, Values
  <1>6. QED
    BY <1>2, <1>3, <1>4, <1>5 DEF IsNode

\* A node that does not raise comes to what it means, if its parts that do not raise do.
LEMMA NodeAgrees ==
  ASSUME NEW node, NEW i, IsNode(node, i), NEW ctx,
         NEW values \in [DOMAIN node.parts -> Values], NEW m,
         \A j \in DOMAIN node.parts : values[j] # "error" => m[j] = values[j],
         NodeValue(node, values, ctx) # "error"
  PROVE  NodeMeaning(node, {m[j] : j \in DOMAIN node.parts}, ctx) = NodeValue(node, values, ctx)
  <1> DEFINE M == {m[j] : j \in DOMAIN node.parts}
             P == DOMAIN node.parts
  <1>1. IsList(node.parts) /\ \A j \in P : values[j] \in Values
    BY DEF IsNode
  <1>2. CASE node.kind = "leaf"
    BY <1>2 DEF NodeValue, NodeMeaning
  <1>3. CASE node.kind = "and"
    <2>1. NodeValue(node, values, ctx) = FirstOf(values, {"false", "error"}, "true")
      BY <1>3 DEF NodeValue
    <2>2. CASE \A j \in P : values[j] \notin {"false", "error"}
      <3>1. FirstOf(values, {"false", "error"}, "true") = "true"
        BY <1>1, <2>2, FirstOfIs
      <3>2. \A j \in P : m[j] = "true"
        BY <1>1, <2>2 DEF Values
      <3>3. "false" \notin M /\ "unknown" \notin M
        BY <3>2
      <3> HIDE DEF M, P
      <3>4. NodeMeaning(node, M, ctx) = "true"
        BY <1>3, <3>3 DEF NodeMeaning
      <3>5. QED
        BY <2>1, <3>1, <3>4 DEF M, P
    <2>3. CASE ~ \A j \in P : values[j] \notin {"false", "error"}
      <3>1. PICK j \in P : values[j] \in {"false", "error"}
                           /\ FirstOf(values, {"false", "error"}, "true") = values[j]
        BY <1>1, <2>3, FirstOfIs
      <3>2. values[j] = "false" /\ m[j] = "false"
        BY <2>1, <3>1
      <3>3. "false" \in M
        BY <3>2
      <3> HIDE DEF M, P
      <3>4. NodeMeaning(node, M, ctx) = "false"
        BY <1>3, <3>3 DEF NodeMeaning
      <3>5. QED
        BY <2>1, <3>1, <3>2, <3>4 DEF M, P
    <2>4. QED
      BY <2>2, <2>3
  <1>4. CASE node.kind = "or"
    <2>1. NodeValue(node, values, ctx) = FirstOf(values, {"true", "error"}, "false")
      BY <1>4 DEF NodeValue
    <2>2. CASE \A j \in P : values[j] \notin {"true", "error"}
      <3>1. FirstOf(values, {"true", "error"}, "false") = "false"
        BY <1>1, <2>2, FirstOfIs
      <3>2. \A j \in P : m[j] = "false"
        BY <1>1, <2>2 DEF Values
      <3>3. "true" \notin M /\ "unknown" \notin M
        BY <3>2
      <3> HIDE DEF M, P
      <3>4. NodeMeaning(node, M, ctx) = "false"
        BY <1>4, <3>3 DEF NodeMeaning
      <3>5. QED
        BY <2>1, <3>1, <3>4 DEF M, P
    <2>3. CASE ~ \A j \in P : values[j] \notin {"true", "error"}
      <3>1. PICK j \in P : values[j] \in {"true", "error"}
                           /\ FirstOf(values, {"true", "error"}, "false") = values[j]
        BY <1>1, <2>3, FirstOfIs
      <3>2. values[j] = "true" /\ m[j] = "true"
        BY <2>1, <3>1
      <3>3. "true" \in M
        BY <3>2
      <3> HIDE DEF M, P
      <3>4. NodeMeaning(node, M, ctx) = "true"
        BY <1>4, <3>3 DEF NodeMeaning
      <3>5. QED
        BY <2>1, <3>1, <3>2, <3>4 DEF M, P
    <2>4. QED
      BY <2>2, <2>3
  <1>5. CASE node.kind = "not"
    <2>1. P = {1}
      BY <1>1, <1>5, ListIs DEF IsNode
    <2>2. NodeValue(node, values, ctx) = Negated(values[1]) /\ values[1] \in Values
      BY <1>1, <1>5, <2>1 DEF NodeValue
    <2>3. values[1] \in {"true", "false"}
      BY <2>2 DEF Negated, Values
    <2>4. M = {values[1]}
      BY <2>1, <2>3
    <2> HIDE DEF M, P
    <2>5. NodeMeaning(node, M, ctx) = Negated(values[1])
      BY <1>5, <2>3, <2>4 DEF NodeMeaning, Negated
    <2>6. QED
      BY <2>2, <2>5 DEF M, P
  <1>6. QED
    BY <1>2, <1>3, <1>4, <1>5 DEF IsNode

\* A condition is true, false, or raises; and unless it raises, it is what it means.
LEMMA EvalIs ==
  ASSUME NEW when, IsCondition(when), NEW ctx
  PROVE  /\ EvalCondition(when, ctx) \in Values
         /\ EvalCondition(when, ctx) # "error" => EvalCondition(when, ctx) = Meaning(when, ctx)
  <1> DEFINE D == DOMAIN when
             Children(g, i) == [j \in DOMAIN when[i].parts |-> g[when[i].parts[j]]]
             E(g, i) == NodeValue(when[i], Children(g, i), ctx)
             value == CHOOSE g : g = [i \in D |-> E(g, i)]
             Body == [g \in [D -> Values] |-> [i \in D |-> E(g, i)]]
  <1>1. /\ Len(when) \in D /\ D \in SUBSET Nat /\ \E N \in Nat : D \subseteq 0 .. N
        /\ \A i \in D : IsNode(when[i], i)
    <2>1. IsList(when) /\ when # <<>> /\ \A i \in D : IsNode(when[i], i)
      BY DEF IsCondition, IsNode
    <2>2. Len(when) \in Nat /\ D = 1 .. Len(when)
      BY <2>1, ListIs
    <2>3. Len(when) # 0
      BY <2>1, <2>2, ListIs, EmptySeq
    <2>4. QED
      BY <2>1, <2>2, <2>3
  <1>2. ASSUME NEW i \in D, NEW j \in DOMAIN when[i].parts
        PROVE  when[i].parts[j] \in D /\ when[i].parts[j] < i
    <2>1. IsList(when) /\ D = 1 .. Len(when) /\ Len(when) \in Nat
      BY ListIs DEF IsCondition
    <2>2. when[i].parts[j] \in 1 .. i - 1
      BY <1>1 DEF IsNode
    <2>3. QED
      BY <2>1, <2>2
  <1>3. ASSUME NEW g \in [D -> Values], NEW i \in D
        PROVE  E(g, i) \in Values
    <2>1. Children(g, i) \in [DOMAIN when[i].parts -> Values]
      BY <1>2
    <2> HIDE DEF Children
    <2>2. QED
      BY <1>1, <2>1, NodeValueIs
  <1>4. Body \in [[D -> Values] -> [D -> Values]]
    <2> HIDE DEF E, D
    <2> QED
      BY <1>3
  <1>5. ASSUME NEW g \in [D -> Values], NEW h \in [D -> Values], NEW i \in D,
               \A j \in D : j < i => g[j] = h[j]
        PROVE  Body[g][i] = Body[h][i]
    <2>1. Children(g, i) = Children(h, i)
      BY <1>2, <1>5
    <2>2. Body[g][i] = E(g, i) /\ Body[h][i] = E(h, i)
      <3> HIDE DEF E, D
      <3> QED
        OBVIOUS
    <2>3. QED
      BY <2>1, <2>2
  <1>6. PICK f \in [D -> Values] : f = Body[f]
    <2>1. Values # {}
      BY DEF Values
    <2> HIDE DEF D, Body
    <2>2. Recursive(Body, D, Values)
      BY <1>1, <1>4, <1>5, <2>1 DEF Recursive
    <2>3. QED
      BY <2>2, Recursion
  <1>7. f = [i \in D |-> E(f, i)]
    <2> HIDE DEF E, D
    <2> QED
      BY <1>6
  <1>8. value = [i \in D |-> E(value, i)]
    <2> HIDE DEF D, E
    <2> QED
      BY <1>7
  <1>9. EvalCondition(when, ctx) = value[Len(when)]
    BY DEF EvalCondition
  <1> DEFINE W == {"true", "false", "unknown"}
             OfParts(g, i) == {g[when[i].parts[j]] : j \in DOMAIN when[i].parts}
             F(g, i) == NodeMeaning(when[i], OfParts(g, i), ctx)
             meaning == CHOOSE g : g = [i \in D |-> F(g, i)]
             MeaningBody == [g \in [D -> W] |-> [i \in D |-> F(g, i)]]
  <1>10. ASSUME NEW g \in [D -> W], NEW i \in D
         PROVE  F(g, i) \in W
    <2>1. when[i].kind \in {"leaf", "and", "or", "not"}
      BY <1>1 DEF IsNode
    <2> HIDE DEF OfParts
    <2>2. QED
      BY <2>1 DEF NodeMeaning
  <1>11. MeaningBody \in [[D -> W] -> [D -> W]]
    <2> HIDE DEF F, D, W
    <2> QED
      BY <1>10
  <1>12. ASSUME NEW g \in [D -> W], NEW h \in [D -> W], NEW i \in D,
                \A j \in D : j < i => g[j] = h[j]
         PROVE  MeaningBody[g][i] = MeaningBody[h][i]
    <2>1. OfParts(g, i) = OfParts(h, i)
      BY <1>2, <1>12
    <2>2. MeaningBody[g][i] = F(g, i) /\ MeaningBody[h][i] = F(h, i)
      <3> HIDE DEF F, D, W
      <3> QED
        OBVIOUS
    <2>3. QED
      BY <2>1, <2>2
  <1>13. PICK h \in [D -> W] : h = MeaningBody[h]
    <2>1. W # {}
      OBVIOUS
    <2> HIDE DEF D, MeaningBody, W
    <2>2. Recursive(MeaningBody, D, W)
      BY <1>1, <1>11, <1>12, <2>1 DEF Recursive
    <2>3. QED
      BY <2>2, Recursion
  <1>14. h = [i \in D |-> F(h, i)]
    <2> HIDE DEF F, D, W
    <2> QED
      BY <1>13
  <1>15. meaning = [i \in D |-> F(meaning, i)]
    <2> HIDE DEF D, F
    <2> QED
      BY <1>14
  <1>16. Meaning(when, ctx) = meaning[Len(when)]
    BY DEF Meaning
  <1> DEFINE T == {i \in D : value[i] \in Values /\ (value[i] # "error" => meaning[i] = value[i])}
  <1> HIDE DEF value, meaning, Body, MeaningBody
  <1>17. ASSUME NEW i \in D, \A j \in D : j < i => j \in T
         PROVE  i \in T
    <2> DEFINE node == when[i]
               values == Children(value, i)
               m == [j \in DOMAIN node.parts |-> meaning[node.parts[j]]]
    <2>1. \A j \in DOMAIN node.parts : node.parts[j] \in T
      BY <1>2, <1>17
    <2>2. values \in [DOMAIN node.parts -> Values]
      BY <2>1
    <2>3. \A j \in DOMAIN node.parts : values[j] # "error" => m[j] = values[j]
      BY <2>1
    <2>4. OfParts(meaning, i) = {m[j] : j \in DOMAIN node.parts}
      OBVIOUS
    <2>5. value[i] = NodeValue(node, values, ctx) /\ meaning[i] = NodeMeaning(node, OfParts(meaning, i), ctx)
      BY <1>8, <1>15
    <2>6. IsNode(node, i)
      BY <1>1
    <2> HIDE DEF node, values, m, OfParts, D
    <2>7. NodeValue(node, values, ctx) \in Values
      BY <2>2, <2>6, NodeValueIs
    <2>8. NodeValue(node, values, ctx) # "error"
            => NodeMeaning(node, {m[j] : j \in DOMAIN node.parts}, ctx) = NodeValue(node, values, ctx)
      BY <2>2, <2>3, <2>6, NodeAgrees
    <2>9. QED
      BY <2>4, <2>5, <2>7, <2>8
  <1>18. D \subseteq T
    <2> HIDE DEF D, T
    <2> QED
      BY <1>1, <1>17, StrongInduction
  <1>19. Len(when) \in T
    <2> HIDE DEF T
    <2> QED
      BY <1>1, <1>18
  <1>20. QED
    BY <1>9, <1>16, <1>19

----------------------------------------------------------------------------
(* What the schema makes sure of for every rule.                            *)
IsRule(r) == IsCondition(r.when) /\ r.severity \in ToSet(Severity)

\* Rules that were loaded are the rules in force, each as the schema has it.
LEMMA LoadedRulesAre ==
  ASSUME IInv, NEW mode, rules = LoadRules(DefaultRules, ruleFile, mode)
  PROVE  \E S : /\ rules \in Seq(S) /\ ToSet(rules) = InForce
                /\ \A r \in S : IsRule(r)
  <1> DEFINE good == ruleFile.state = "good"
             user == IF good THEN ruleFile.rules ELSE <<>>
             disabled == IF good THEN ruleFile.disabled ELSE {}
             S == ToSet(DefaultRules) \cup ToSet(user)
  <1>1. ASSUME NEW list, IsRules(list)
        PROVE  list \in Seq(ToSet(list)) /\ \A r \in ToSet(list) : IsRule(r)
    <2>1. IsList(list) /\ \A i \in DOMAIN list : IsRule(list[i])
      BY <1>1 DEF IsRules, IsRule
    <2>2. QED
      BY <2>1, ListIs DEF ToSet
  <1>2. DefaultRules \in Seq(ToSet(DefaultRules)) /\ \A r \in ToSet(DefaultRules) : IsRule(r)
    BY <1>1, RulesAssumption
  <1>3. user \in Seq(ToSet(user)) /\ \A r \in ToSet(user) : IsRule(r)
    <2>1. CASE good
      <3>1. user = ruleFile.rules /\ IsRules(ruleFile.rules)
        BY <2>1, RulesAssumption DEF IInv
      <3> HIDE DEF user
      <3>2. QED
        BY <1>1, <3>1
    <2>2. CASE ~ good
      <3>1. user = <<>>
        BY <2>2
      <3> HIDE DEF user
      <3>2. QED
        BY <3>1 DEF ToSet
    <2>3. QED
      BY <2>1, <2>2
  <1>4. rules = Merged(DefaultRules, disabled, user)
    BY DEF LoadRules
  <1>5. InForce = Together(DefaultRules, disabled, user)
    BY DEF InForce, Together
  <1> HIDE DEF user, disabled
  <1>6. DefaultRules \in Seq(S) /\ user \in Seq(S)
    BY <1>2, <1>3
  <1>7. \A r \in S : IsRule(r)
    BY <1>2, <1>3
  <1> HIDE DEF S
  <1>8. rules \in Seq(S) /\ ToSet(rules) = InForce
    BY <1>4, <1>5, <1>6, MergedIs
  <1>9. QED
    BY <1>7, <1>8

----------------------------------------------------------------------------
(* Severities in their order, 0 where no rule fires.                        *)
Level(n) == IF n = 0 THEN "none" ELSE Severity[n]

LEMMA RankIs ==
  /\ ToSet(Severity) = {"info", "warn", "candidate", "block"}
  /\ \A s \in ToSet(Severity) : Rank(s) \in 1 .. 4 /\ Severity[Rank(s)] = s
  <1>1. DOMAIN Severity = 1 .. 4 /\ 1 .. 4 = {1, 2, 3, 4}
    BY DEF Severity
  <1>2. /\ Severity[1] = "info" /\ Severity[2] = "warn"
        /\ Severity[3] = "candidate" /\ Severity[4] = "block"
    BY DEF Severity
  <1>3. ToSet(Severity) = {"info", "warn", "candidate", "block"}
    BY <1>1, <1>2 DEF ToSet
  <1>4. ASSUME NEW s \in ToSet(Severity)
        PROVE  Rank(s) \in 1 .. 4 /\ Severity[Rank(s)] = s
    <2>1. \E n \in 1 .. 4 : Severity[n] = s
      BY <1>1, <1>4 DEF ToSet
    <2>2. QED
      BY <2>1 DEF Rank
  <1>5. QED
    BY <1>3, <1>4

(* The ranks of the rules that fire.                                        *)
Ranks(list, ctx) == {Rank(list[i].severity) : i \in Fired(list, ctx)}

\* The policy sees the highest of them.
LEMMA DecideIs ==
  ASSUME NEW S, NEW list \in Seq(S), \A r \in S : IsRule(r), NEW call, NEW cfg
  PROVE  LET ctx == FromToolCall(call.args, cfg)
         IN  /\ Ranks(list, ctx) \in SUBSET (1 .. 4)
             /\ Decide(call, list, cfg) =
                  IF ~ InBoundary(call) THEN "allow"
                  ELSE IF Raises(list, ctx) THEN "raised"
                  ELSE Verdict(cfg, IF Ranks(list, ctx) = {} THEN "none"
                                    ELSE Severity[Max(Ranks(list, ctx))])
  <1> DEFINE ctx == FromToolCall(call.args, cfg)
             fired == Fired(list, ctx)
  <1>1. fired \subseteq DOMAIN list
    BY DEF Fired
  <1>2. \A i \in fired : IsRule(list[i])
    BY <1>1
  <1>3. \A i \in fired : Rank(list[i].severity) \in 1 .. 4
    BY <1>2, RankIs DEF IsRule
  <1>4. Ranks(list, ctx) \in SUBSET (1 .. 4) /\ (Ranks(list, ctx) = {} <=> fired = {})
    BY <1>3 DEF Ranks
  <1>5. TopSeverity(list, fired) = Severity[Max(Ranks(list, ctx))]
    BY DEF TopSeverity, Ranks
  <1>6. Decide(call, list, cfg) =
          IF ~ InBoundary(call) THEN "allow"
          ELSE IF Raises(list, ctx) THEN "raised"
          ELSE Verdict(cfg, IF fired = {} THEN "none" ELSE TopSeverity(list, fired))
    <2> HIDE DEF fired
    <2>1. CASE ~ InBoundary(call)
      BY <2>1 DEF Decide
    <2>2. CASE InBoundary(call) /\ Raises(list, ctx)
      BY <2>2 DEF Decide
    <2>3. CASE InBoundary(call) /\ ~ Raises(list, ctx)
      BY <2>3 DEF Decide, fired
    <2>4. QED
      BY <2>1, <2>2, <2>3
  <1> HIDE DEF ctx, fired
  <1>7. QED
    BY <1>4, <1>5, <1>6 DEF ctx

LEMMA StrictnessIs ==
  ASSUME NEW cfg, cfg.mode \in Modes, NEW n \in 0 .. 4
  PROVE  Strictness(Verdict(cfg, Level(n))) =
           IF n = 0 THEN 0
           ELSE IF cfg.dryRun THEN 1
           ELSE IF n = 1 THEN 0
           ELSE IF cfg.mode = "block" THEN 3
           ELSE IF cfg.mode = "candidate" /\ n = 2 THEN 2 ELSE n - 1
  <1> DEFINE severity == Level(n)
  <1>1. /\ n = 0 => severity = "none"
        /\ n = 1 => severity = "info"
        /\ n = 2 => severity = "warn"
        /\ n = 3 => severity = "candidate"
        /\ n = 4 => severity = "block"
    BY DEF Level, Severity
  <1>2. n \in {0, 1, 2, 3, 4}
    OBVIOUS
  <1> HIDE DEF severity
  <1>3. CASE n = 0
    BY <1>1, <1>3 DEF Verdict, Strictness, severity
  <1>4. CASE n # 0 /\ cfg.dryRun
    <2>1. Verdict(cfg, severity) = "warn"
      BY <1>1, <1>2, <1>4 DEF Verdict
    <2>2. QED
      BY <1>4, <2>1 DEF Strictness, severity
  <1>5. CASE n # 0 /\ ~ cfg.dryRun
    <2>1. Verdict(cfg, severity) = Escalated(cfg.mode, severity)
      BY <1>1, <1>2, <1>5 DEF Verdict
    <2>2. CASE n = 1
      <3>1. Escalated(cfg.mode, severity) = "allow"
        BY <1>1, <2>2 DEF Escalated
      <3>2. QED
        BY <1>5, <2>1, <2>2, <3>1 DEF Strictness, severity
    <2>3. CASE n # 1 /\ cfg.mode = "block"
      <3>1. Escalated(cfg.mode, severity) = "block"
        BY <1>1, <1>2, <1>5, <2>3 DEF Escalated
      <3>2. QED
        BY <1>5, <2>1, <2>3, <3>1 DEF Strictness, severity
    <2>4. CASE n = 2 /\ cfg.mode = "candidate"
      <3>1. Escalated(cfg.mode, severity) = "candidate"
        BY <1>1, <2>4 DEF Escalated
      <3>2. QED
        BY <1>5, <2>1, <2>4, <3>1 DEF Strictness, severity
    <2>5. CASE n \in {2, 3, 4} /\ cfg.mode # "block" /\ ~ (n = 2 /\ cfg.mode = "candidate")
      <3>1. Escalated(cfg.mode, severity) = severity
        BY <1>1, <2>5 DEF Escalated
      <3>2. Strictness(severity) = n - 1
        BY <1>1, <2>5 DEF Strictness
      <3>3. QED
        BY <1>5, <2>1, <2>5, <3>1, <3>2 DEF severity
    <2>6. QED
      BY <1>2, <1>5, <2>2, <2>3, <2>4, <2>5
  <1>6. QED
    BY <1>3, <1>4, <1>5

\* More severe rules and a stricter mode make no decision less strict.
LEMMA Monotone ==
  ASSUME NEW a, NEW b, a.dryRun = b.dryRun, b.mode \in Modes, a.mode \in Milder(b.mode),
         NEW m \in 0 .. 4, NEW n \in 0 .. 4, m <= n
  PROVE  Strictness(Verdict(a, Level(m))) <= Strictness(Verdict(b, Level(n)))
  <1>1. \/ b.mode = "audit" /\ a.mode = "audit"
        \/ b.mode = "candidate" /\ a.mode \in {"audit", "candidate"}
        \/ b.mode = "block" /\ a.mode \in Modes
    BY DEF Milder, Modes
  <1>2. a.mode \in Modes
    BY <1>1 DEF Modes
  <1> DEFINE x == Strictness(Verdict(a, Level(m)))
             y == Strictness(Verdict(b, Level(n)))
  <1>3. x = IF m = 0 THEN 0
            ELSE IF a.dryRun THEN 1
            ELSE IF m = 1 THEN 0
            ELSE IF a.mode = "block" THEN 3
            ELSE IF a.mode = "candidate" /\ m = 2 THEN 2 ELSE m - 1
    BY <1>2, StrictnessIs
  <1>4. y = IF n = 0 THEN 0
            ELSE IF b.dryRun THEN 1
            ELSE IF n = 1 THEN 0
            ELSE IF b.mode = "block" THEN 3
            ELSE IF b.mode = "candidate" /\ n = 2 THEN 2 ELSE n - 1
    BY StrictnessIs
  <1> SUFFICES x <= y
    OBVIOUS
  <1> HIDE DEF x, y
  <1>5. m \in {0, 1, 2, 3, 4} /\ n \in {0, 1, 2, 3, 4}
    OBVIOUS
  <1>6. CASE a.dryRun
    <2>1. x = (IF m = 0 THEN 0 ELSE 1) /\ y = (IF n = 0 THEN 0 ELSE 1)
      BY <1>3, <1>4, <1>6
    <2>2. QED
      BY <2>1
  <1>7. CASE ~ a.dryRun
    <2> DEFINE p(mode, k) == IF k = 0 \/ k = 1 THEN 0
                             ELSE IF mode = "block" THEN 3
                             ELSE IF mode = "candidate" /\ k = 2 THEN 2 ELSE k - 1
    <2>1. x = p(a.mode, m) /\ y = p(b.mode, n)
      BY <1>3, <1>4, <1>7
    <2>2. ASSUME NEW k \in 0 .. 4
          PROVE  /\ p("audit", k) <= p("candidate", k) /\ p("candidate", k) <= p("block", k)
                 /\ p("audit", k) \in Int /\ p("candidate", k) \in Int /\ p("block", k) \in Int
      OBVIOUS
    <2>3. p(a.mode, m) <= p(b.mode, m)
      BY <1>1, <2>2 DEF Modes
    <2>4. p(b.mode, m) <= p(b.mode, n)
      OBVIOUS
    <2>5. QED
      BY <1>1, <2>1, <2>2, <2>3, <2>4 DEF Modes
  <1>8. QED
    BY <1>6, <1>7

LEMMA LoadedConfigIs ==
  ASSUME NEW e, NEW f, NEW mode
  PROVE  LET cfg == LoadConfig(e, f)
             milder == [cfg EXCEPT !.mode = mode]
         IN  cfg.mode \in Modes /\ milder.mode = mode /\ milder.dryRun = cfg.dryRun
  <1> DEFINE base == MergeFile(Defaults, LoadUserFile(f))
  <1>1. ASSUME NEW raw, NEW default \in Modes
        PROVE  SafeMode(raw, default) \in Modes
    BY DEF SafeMode
  <1>2. base.mode \in Modes
    <2>1. base.mode = SafeMode(LoadUserFile(f)["mode"], "audit")
      BY DEF MergeFile, Defaults
    <2>2. "audit" \in Modes
      BY DEF Modes
    <2>3. QED
      BY <1>1, <2>1, <2>2
  <1> HIDE DEF base
  <1>3. MergeEnv(base, e).mode \in Modes
    <2>1. MergeEnv(base, e).mode = SafeMode(e["mode"], base.mode)
      BY DEF MergeEnv
    <2>2. QED
      BY <1>1, <1>2, <2>1
  <1>4. LET milder == [MergeEnv(base, e) EXCEPT !.mode = mode]
        IN  milder.mode = mode /\ milder.dryRun = MergeEnv(base, e).dryRun
    BY DEF MergeEnv
  <1>5. LoadConfig(e, f) = MergeEnv(base, e)
    BY DEF LoadConfig, base
  <1>6. QED
    BY <1>3, <1>4, <1>5

\* PreflightPolicy.evaluate: with rules left out, or under a milder mode, no
\* decision on the same call is stricter.
THEOREM Stricter == Spec => []StricterNeverWeaker
  <1>1. ASSUME IInv PROVE StricterNeverWeaker
    <2>1. SUFFICES ASSUME last.answer # "none", last.decision \in Decisions,
                          NEW i \in DOMAIN rules, NEW mode \in Milder(config.mode)
                   PROVE  Strictness(Decide(last.call, RemoveAt(rules, i), [config EXCEPT !.mode = mode]))
                            <= Strictness(last.decision)
      BY DEF StricterNeverWeaker
    <2>2. PICK call \in ToolCalls : last.call = call /\ last.decision = Decision(call)
      BY <1>1, <2>1, LastCallIs
    <2>3. plugin = "running" /\ "pre" \in hooks /\ last.decision = Decide(call, rules, config)
      BY <1>1, <2>1, <2>2, GuardedIs DEF Decisions
    <2>4. last.call = call /\ last.decision = Decide(call, rules, config) /\ "pre" \in hooks
      BY <2>2, <2>3
    <2>5. /\ config = LoadConfig(env, file)
          /\ rules = LoadRules(DefaultRules, ruleFile, config.mode)
      BY <1>1, <2>3, <2>4 DEF IInv, LoadedOnce
    <2> DEFINE list == RemoveAt(rules, i)
               milder == [config EXCEPT !.mode = mode]
               ctx == FromToolCall(call.args, config)
    <2>6. config.mode \in Modes /\ milder.mode = mode /\ milder.dryRun = config.dryRun
      BY <2>5, LoadedConfigIs
    <2>7. PICK S : rules \in Seq(S) /\ \A r \in S : IsRule(r)
      BY <1>1, <2>5, LoadedRulesAre
    <2>8. list \in Seq(S) /\ ToSet(list) \subseteq ToSet(rules)
      <3>1. i \in 1 .. Len(rules)
        BY <2>7
      <3>2. QED
        BY <2>7, <3>1, RemoveAtElements, RemoveAtToSet
    <2>9. FromToolCall(call.args, milder) = ctx
      BY <2>6 DEF FromToolCall
    <2>10. \A j \in DOMAIN list : \E k \in DOMAIN rules : list[j] = rules[k]
      BY <2>8 DEF ToSet
    <2> HIDE DEF list, milder, ctx
    <2>11. Raises(list, ctx) => Raises(rules, ctx)
      BY <2>10 DEF Raises
    <2>12. Ranks(list, ctx) \subseteq Ranks(rules, ctx)
      <3>1. ASSUME NEW j \in Fired(list, ctx)
            PROVE  \E k \in Fired(rules, ctx) : list[j] = rules[k]
        BY <2>10, <3>1 DEF Fired
      <3>2. QED
        BY <3>1 DEF Ranks
    <2> DEFINE a == Ranks(list, ctx)
               b == Ranks(rules, ctx)
    <2>13. a \in SUBSET (1 .. 4) /\ b \in SUBSET (1 .. 4)
      <3>1. b \in SUBSET (1 .. 4)
        BY <2>7, DecideIs DEF ctx
      <3>2. QED
        BY <2>12, <3>1
    <2>14. Decide(call, list, milder) =
             IF ~ InBoundary(call) THEN "allow"
             ELSE IF Raises(list, ctx) THEN "raised"
             ELSE Verdict(milder, IF a = {} THEN "none" ELSE Severity[Max(a)])
      BY <2>7, <2>8, <2>9, DecideIs
    <2>15. last.decision =
             IF ~ InBoundary(call) THEN "allow"
             ELSE IF Raises(rules, ctx) THEN "raised"
             ELSE Verdict(config, IF b = {} THEN "none" ELSE Severity[Max(b)])
      <3>1. Decide(call, rules, config) =
              IF ~ InBoundary(call) THEN "allow"
              ELSE IF Raises(rules, ctx) THEN "raised"
              ELSE Verdict(config, IF b = {} THEN "none" ELSE Severity[Max(b)])
        BY <2>7, DecideIs DEF ctx
      <3>2. QED
        BY <2>4, <3>1
    <2>16. CASE ~ InBoundary(call)
      <3>1. Decide(call, list, milder) = "allow" /\ last.decision = "allow"
        BY <2>14, <2>15, <2>16
      <3>2. Strictness("allow") = 0
        BY DEF Strictness
      <3>3. QED
        BY <2>4, <3>1, <3>2 DEF list, milder
    <2>17. CASE InBoundary(call)
      <3> DEFINE m == IF a = {} THEN 0 ELSE Max(a)
                 n == IF b = {} THEN 0 ELSE Max(b)
      <3>1. ~ Raises(rules, ctx) /\ ~ Raises(list, ctx)
        BY <2>1, <2>11, <2>15, <2>17 DEF Decisions
      <3>2. m \in 0 .. 4 /\ n \in 0 .. 4 /\ m <= n
        <4>1. a # {} => Max(a) \in 1 .. 4 /\ Max(a) \in a
          BY <2>13, MaxIs
        <4>2. b # {} => Max(b) \in 1 .. 4 /\ \A x \in b : x <= Max(b)
          BY <2>13, MaxIs
        <4>3. a \subseteq b
          BY <2>12
        <4> HIDE DEF a, b
        <4>4. m \in 0 .. 4 /\ n \in 0 .. 4
          BY <4>1, <4>2
        <4>5. CASE a = {}
          BY <4>4, <4>5
        <4>6. CASE a # {}
          <5>1. Max(a) <= Max(b) /\ b # {}
            BY <4>1, <4>2, <4>3, <4>6
          <5>2. m = Max(a) /\ n = Max(b)
            BY <4>6, <5>1
          <5> HIDE DEF m, n
          <5>3. QED
            BY <4>4, <5>1, <5>2
        <4>7. QED
          BY <4>5, <4>6
      <3> HIDE DEF a, b
      <3>3. Decide(call, list, milder) = Verdict(milder, Level(m))
        <4>1. Level(m) = IF a = {} THEN "none" ELSE Severity[Max(a)]
          BY <2>13, MaxIs DEF Level
        <4>2. QED
          BY <2>14, <2>17, <3>1, <4>1
      <3>4. last.decision = Verdict(config, Level(n))
        <4>1. Level(n) = IF b = {} THEN "none" ELSE Severity[Max(b)]
          BY <2>13, MaxIs DEF Level
        <4>2. QED
          BY <2>15, <2>17, <3>1, <4>1
      <3> HIDE DEF m, n
      <3>5. QED
        BY <2>1, <2>4, <2>6, <3>2, <3>3, <3>4, Monotone DEF list, milder
    <2>18. QED
      BY <2>16, <2>17
  <1>2. QED
    BY <1>1, LoadedDecides, PTL

\* The rules that fire are those in force that are enabled and true.
LEMMA FiredIs ==
  ASSUME NEW S, NEW list \in Seq(S), \A r \in S : IsRule(r), NEW ctx, ~ Raises(list, ctx)
  PROVE  {list[i] : i \in Fired(list, ctx)}
           = {r \in ToSet(list) : r.enabled /\ Meaning(r.when, ctx) = "true"}
  <1>1. \A i \in DOMAIN list : IsCondition(list[i].when)
    BY DEF IsRule
  <1>2. \A i \in DOMAIN list : list[i].enabled => EvalCondition(list[i].when, ctx) # "error"
    BY DEF Raises, RuleRaises
  <1>3. ASSUME NEW i \in DOMAIN list, list[i].enabled
        PROVE  EvalCondition(list[i].when, ctx) = Meaning(list[i].when, ctx)
    BY <1>1, <1>2, <1>3, EvalIs
  <1>4. \A i \in DOMAIN list :
          i \in Fired(list, ctx) <=> list[i].enabled /\ Meaning(list[i].when, ctx) = "true"
    BY <1>3 DEF Fired
  <1>5. Fired(list, ctx) \subseteq DOMAIN list
    BY DEF Fired
  <1>6. QED
    BY <1>4, <1>5 DEF ToSet

\* RuleLoader, RuleEngine and PreflightPolicy together: a decision is the one
\* that the rules in force call for, whatever their order, and the order in which
\* a condition's parts are evaluated.
THEOREM DecisionsAgree == Spec => []RulesAgree
  <1>1. ASSUME IInv PROVE RulesAgree
    <2> DEFINE ctx == FromToolCall(last.call.args, config)
               true == {r \in InForce : r.enabled /\ Meaning(r.when, ctx) = "true"}
               ranks == {Rank(r.severity) : r \in true}
    <2>1. SUFFICES ASSUME last.answer # "none", last.decision \in Decisions, InBoundary(last.call)
                   PROVE  last.decision =
                            Verdict(config, IF true = {} THEN "none" ELSE Severity[Max(ranks)])
      BY DEF RulesAgree
    <2>2. PICK call \in ToolCalls : last.call = call /\ last.decision = Decision(call)
      BY <1>1, <2>1, LastCallIs
    <2>3. plugin = "running" /\ "pre" \in hooks /\ last.decision = Decide(call, rules, config)
      BY <1>1, <2>1, <2>2, GuardedIs DEF Decisions
    <2>4. last.call = call /\ last.decision = Decide(call, rules, config) /\ "pre" \in hooks
      BY <2>2, <2>3
    <2>5. rules = LoadRules(DefaultRules, ruleFile, config.mode)
      BY <1>1, <2>3, <2>4 DEF IInv, LoadedOnce
    <2>6. PICK S : rules \in Seq(S) /\ ToSet(rules) = InForce /\ \A r \in S : IsRule(r)
      BY <1>1, <2>5, LoadedRulesAre
    <2>7. ctx = FromToolCall(call.args, config)
      BY <2>4
    <2> HIDE DEF ctx
    <2> DEFINE b == Ranks(rules, ctx)
    <2>8. last.decision =
            IF ~ InBoundary(call) THEN "allow"
            ELSE IF Raises(rules, ctx) THEN "raised"
            ELSE Verdict(config, IF b = {} THEN "none" ELSE Severity[Max(b)])
      <3>1. Decide(call, rules, config) =
              IF ~ InBoundary(call) THEN "allow"
              ELSE IF Raises(rules, ctx) THEN "raised"
              ELSE Verdict(config, IF b = {} THEN "none" ELSE Severity[Max(b)])
        BY <2>6, <2>7, DecideIs
      <3>2. QED
        BY <2>4, <3>1
    <2>9. ~ Raises(rules, ctx)
      BY <2>1, <2>4, <2>8 DEF Decisions
    <2>10. true = {rules[i] : i \in Fired(rules, ctx)}
      BY <2>6, <2>9, FiredIs
    <2>11. ranks = b /\ (true = {} <=> b = {})
      BY <2>10 DEF Ranks
    <2> HIDE DEF true, ranks, b
    <2>12. QED
      BY <2>1, <2>4, <2>8, <2>9, <2>11
  <1>2. QED
    BY <1>1, LoadedDecides, PTL

----------------------------------------------------------------------------
(* What is kept of a payload.                                               *)

Places == Seq(Nat)
Kinds == [place : Places, shape : {"redacted", "raw", "summary", "key"}]

LEMMA ConsIs ==
  ASSUME NEW n \in Nat, NEW q \in Places
  PROVE  /\ <<n>> \o q \in Places
         /\ \A m \in Nat, r \in Places : <<n>> \o q = <<m>> \o r => n = m /\ q = r
  <1> DEFINE s == <<n>> \o q
  <1>1. /\ s \in Places /\ Len(s) = 1 + Len(q) /\ s[1] = n
        /\ \A i \in 1 .. Len(q) : s[i + 1] = q[i]
    BY DEF Places
  <1>2. ASSUME NEW m \in Nat, NEW r \in Places, s = <<m>> \o r
        PROVE  n = m /\ q = r
    <2> DEFINE t == <<m>> \o r
    <2>1. /\ Len(t) = 1 + Len(r) /\ t[1] = m
          /\ \A i \in 1 .. Len(r) : t[i + 1] = r[i]
      BY DEF Places
    <2>2. s = t
      BY <1>2
    <2> HIDE DEF s, t
    <2>3. Len(q) = Len(r) /\ n = m
      BY <1>1, <2>1, <2>2 DEF Places
    <2>4. \A i \in 1 .. Len(q) : q[i] = r[i]
      BY <1>1, <2>1, <2>2, <2>3
    <2>5. QED
      BY <2>3, <2>4, SeqEqual DEF Places
  <1> HIDE DEF s
  <1>3. QED
    BY <1>1, <1>2 DEF s

LEMMA UnderIs ==
  ASSUME NEW n \in Nat, NEW kept \in SUBSET Kinds
  PROVE  /\ Under(n, kept) \in SUBSET Kinds
         /\ RawPlaces(Under(n, kept)) = {<<n>> \o q : q \in RawPlaces(kept)}
         /\ RawPlaces(kept) \in SUBSET Places
  <1>1. \A k \in kept : k \in Kinds
    OBVIOUS
  <1>2. ASSUME NEW k \in kept
        PROVE  [place |-> <<n>> \o k.place, shape |-> k.shape] \in Kinds
    <2>1. k.place \in Places /\ k.shape \in {"redacted", "raw", "summary", "key"}
      BY <1>1 DEF Kinds
    <2>2. <<n>> \o k.place \in Places
      BY <2>1, ConsIs
    <2>3. QED
      BY <2>1, <2>2 DEF Kinds
  <1>3. Under(n, kept) \in SUBSET Kinds
    BY <1>2 DEF Under
  <1>4. RawPlaces(kept) \in SUBSET Places
    BY <1>1 DEF RawPlaces, Kinds
  <1>5. RawPlaces(Under(n, kept)) = {<<n>> \o q : q \in RawPlaces(kept)}
    <2>1. ASSUME NEW p \in RawPlaces(Under(n, kept))
          PROVE  p \in {<<n>> \o q : q \in RawPlaces(kept)}
      <3>1. PICK u \in Under(n, kept) : u.shape = "raw" /\ p = u.place
        BY <2>1 DEF RawPlaces
      <3>2. PICK k \in kept : u = [place |-> <<n>> \o k.place, shape |-> k.shape]
        BY <3>1 DEF Under
      <3>3. k.shape = "raw" /\ p = <<n>> \o k.place
        BY <3>1, <3>2
      <3>4. k.place \in RawPlaces(kept)
        BY <3>3 DEF RawPlaces
      <3>5. QED
        BY <3>3, <3>4
    <2>2. ASSUME NEW q \in RawPlaces(kept)
          PROVE  <<n>> \o q \in RawPlaces(Under(n, kept))
      <3>1. PICK k \in kept : k.shape = "raw" /\ q = k.place
        BY <2>2 DEF RawPlaces
      <3> DEFINE u == [place |-> <<n>> \o k.place, shape |-> k.shape]
      <3>2. u \in Under(n, kept)
        BY DEF Under
      <3>3. u.shape = "raw" /\ u.place = <<n>> \o q
        BY <3>1
      <3> HIDE DEF u
      <3>4. QED
        BY <3>2, <3>3 DEF RawPlaces
    <2>3. QED
      BY <2>1, <2>2
  <1>6. QED
    BY <1>3, <1>4, <1>5

LEMMA BelowIs ==
  ASSUME NEW n \in Nat, NEW places \in SUBSET Places
  PROVE  Below(n, places) \in SUBSET Places
  <1>1. \A q \in places : <<n>> \o q \in Places
    BY ConsIs
  <1>2. QED
    BY <1>1 DEF Below

LEMMA LeafIs ==
  ASSUME NEW shape \in {"redacted", "raw", "summary"}
  PROVE  /\ Leaf(shape) \in SUBSET Kinds
         /\ shape = "redacted" => RawPlaces(Leaf(shape)) = {}
  <1>1. <<>> \in Places
    BY DEF Places
  <1>2. Leaf(shape) \in SUBSET Kinds
    BY <1>1 DEF Leaf, Kinds
  <1>3. shape = "redacted" => RawPlaces(Leaf(shape)) = {}
    BY DEF Leaf, RawPlaces
  <1>4. QED
    BY <1>2, <1>3

LEMMA KeyIs == ASSUME NEW n \in Nat PROVE KeptKey(n) \in SUBSET Kinds
  <1>1. <<n>> \in Places
    BY DEF Places
  <1>2. QED
    BY <1>1 DEF KeptKey, Kinds

\* A value of a payload, with this many before it.
IsValue(value, i) ==
  /\ value.kind \in {"text", "number", "map", "list"}
  /\ value.kind \in {"map", "list"} =>
       /\ IsList(value.parts)
       /\ \A n \in DOMAIN value.parts : value.parts[n] \in 1 .. i - 1

\* The parts of a value come before it.
LEMMA PartsAre ==
  ASSUME NEW payload, IsPayload(payload), NEW i \in DOMAIN payload,
         payload[i].kind \in {"map", "list"}, NEW n \in DOMAIN payload[i].parts
  PROVE  n \in Nat /\ payload[i].parts[n] \in DOMAIN payload /\ payload[i].parts[n] < i
  <1>1. IsList(payload) /\ DOMAIN payload = 1 .. Len(payload) /\ Len(payload) \in Nat
    BY ListIs DEF IsPayload
  <1>2. IsList(payload[i].parts) /\ payload[i].parts[n] \in 1 .. i - 1
    BY DEF IsPayload
  <1>3. n \in Nat
    BY <1>2, ListIs
  <1>4. QED
    BY <1>1, <1>2, <1>3

LEMMA LeafPlacesAre ==
  ASSUME NEW payload, IsPayload(payload), NEW i \in DOMAIN payload
  PROVE  LeafPlaces(payload)[i] \in SUBSET Places
  <1> DEFINE D == DOMAIN payload
             V == SUBSET Places
             E(g, j) == IF payload[j].kind \in {"map", "list"}
                        THEN UNION {Below(n, g[payload[j].parts[n]]) : n \in DOMAIN payload[j].parts}
                        ELSE {<<>>}
             leaves == CHOOSE g : g = [j \in D |-> E(g, j)]
             Body == [g \in [D -> V] |-> [j \in D |-> E(g, j)]]
  <1>1. D \in SUBSET Nat /\ \E N \in Nat : D \subseteq 0 .. N
    <2>1. IsList(payload)
      BY DEF IsPayload
    <2>2. D = 1 .. Len(payload) /\ Len(payload) \in Nat
      BY <2>1, ListIs
    <2>3. QED
      BY <2>2
  <1>2. ASSUME NEW j \in D, payload[j].kind \in {"map", "list"}, NEW n \in DOMAIN payload[j].parts
        PROVE  n \in Nat /\ payload[j].parts[n] \in D /\ payload[j].parts[n] < j
    BY <1>2, PartsAre
  <1>3. ASSUME NEW g \in [D -> V], NEW j \in D
        PROVE  E(g, j) \in V
    <2>1. CASE payload[j].kind \in {"map", "list"}
      <3>1. ASSUME NEW n \in DOMAIN payload[j].parts
            PROVE  Below(n, g[payload[j].parts[n]]) \in V
        BY <1>2, <2>1, BelowIs
      <3>2. QED
        BY <2>1, <3>1
    <2>2. CASE payload[j].kind \notin {"map", "list"}
      BY <2>2 DEF Places
    <2>3. QED
      BY <2>1, <2>2
  <1>4. Body \in [[D -> V] -> [D -> V]]
    <2> HIDE DEF E, D, V
    <2> QED
      BY <1>3
  <1>5. ASSUME NEW g \in [D -> V], NEW h \in [D -> V], NEW j \in D,
               \A k \in D : k < j => g[k] = h[k]
        PROVE  Body[g][j] = Body[h][j]
    <2>1. E(g, j) = E(h, j)
      BY <1>2, <1>5
    <2>2. Body[g][j] = E(g, j) /\ Body[h][j] = E(h, j)
      <3> HIDE DEF E, D, V
      <3> QED
        OBVIOUS
    <2>3. QED
      BY <2>1, <2>2
  <1>6. PICK f \in [D -> V] : f = Body[f]
    <2>1. V # {}
      OBVIOUS
    <2> HIDE DEF D, Body, V
    <2>2. Recursive(Body, D, V)
      BY <1>1, <1>4, <1>5, <2>1 DEF Recursive
    <2>3. QED
      BY <2>2, Recursion
  <1>7. f = [j \in D |-> E(f, j)]
    <2> HIDE DEF E, D, V
    <2> QED
      BY <1>6
  <1>8. leaves = [j \in D |-> E(leaves, j)]
    <2> HIDE DEF D, E
    <2> QED
      BY <1>7
  <1>9. LeafPlaces(payload) = leaves
    BY DEF LeafPlaces
  <1> HIDE DEF leaves, Body
  <1> DEFINE T == {j \in D : leaves[j] \in V}
  <1>10. ASSUME NEW j \in D, \A k \in D : k < j => k \in T
         PROVE  j \in T
    <2>1. leaves[j] = E(leaves, j)
      BY <1>8
    <2>2. CASE payload[j].kind \in {"map", "list"}
      <3>1. ASSUME NEW n \in DOMAIN payload[j].parts
            PROVE  Below(n, leaves[payload[j].parts[n]]) \in V
        <4>1. n \in Nat /\ leaves[payload[j].parts[n]] \in SUBSET Places
          BY <1>2, <1>10, <2>2
        <4>2. QED
          BY <4>1, BelowIs
      <3>2. QED
        BY <2>1, <2>2, <3>1
    <2>3. CASE payload[j].kind \notin {"map", "list"}
      <3>1. leaves[j] = {<<>>} /\ <<>> \in Places
        BY <2>1, <2>3 DEF Places
      <3> HIDE DEF E
      <3>2. QED
        BY <3>1
    <2>4. QED
      BY <2>2, <2>3
  <1>11. D \subseteq T
    <2> HIDE DEF D, T
    <2> QED
      BY <1>1, <1>10, StrongInduction
  <1>12. QED
    BY <1>9, <1>11

\* What is kept of the whole as it is stands nowhere where a secret is.
LEMMA RedactedIs ==
  ASSUME NEW payload, IsPayload(payload), NEW raw
  PROVE  RawPlaces(RedactValue(payload, raw)) \cap SecretPlaces(payload) = {}
  <1> DEFINE D == DOMAIN payload
             V == SUBSET Kinds
             PartOf(g, i, n, key) ==
               Under(n, IF Hidden(payload[payload[i].parts[n]], key)
                        THEN Leaf("redacted") ELSE g[payload[i].parts[n]])
             E(g, i) ==
               CASE payload[i].kind = "text" -> Leaf(IF raw THEN "raw" ELSE "summary")
                 [] payload[i].kind = "number" -> Leaf("raw")
                 [] payload[i].kind = "map" ->
                      UNION {KeptKey(n) \cup PartOf(g, i, n, payload[i].keys[n]) :
                               n \in DOMAIN payload[i].parts}
                 [] payload[i].kind = "list" ->
                      UNION {PartOf(g, i, n, NoKey) :
                               n \in {m \in DOMAIN payload[i].parts : m <= ListLimit}}
             kept == CHOOSE g : g = [i \in D |-> E(g, i)]
             Body == [g \in [D -> V] |-> [i \in D |-> E(g, i)]]
  <1>1. /\ Len(payload) \in D /\ D \in SUBSET Nat /\ \E N \in Nat : D \subseteq 0 .. N
        /\ \A i \in D : IsValue(payload[i], i)
    <2>1. IsList(payload) /\ payload # <<>> /\ \A i \in D : IsValue(payload[i], i)
      BY DEF IsPayload, IsValue
    <2>2. Len(payload) \in Nat /\ D = 1 .. Len(payload)
      BY <2>1, ListIs
    <2>3. Len(payload) # 0
      BY <2>1, <2>2, ListIs, EmptySeq
    <2>4. QED
      BY <2>1, <2>2, <2>3
  <1>2. ASSUME NEW i \in D, payload[i].kind \in {"map", "list"}, NEW n \in DOMAIN payload[i].parts
        PROVE  n \in Nat /\ payload[i].parts[n] \in D /\ payload[i].parts[n] < i
    BY <1>2, PartsAre
  <1>3. ASSUME NEW i \in D, payload[i].kind \in {"map", "list"}, NEW n \in DOMAIN payload[i].parts,
               NEW g, g[payload[i].parts[n]] \in V, NEW key
        PROVE  PartOf(g, i, n, key) \in V
    <2> DEFINE k == IF Hidden(payload[payload[i].parts[n]], key)
                    THEN Leaf("redacted") ELSE g[payload[i].parts[n]]
    <2>1. k \in SUBSET Kinds
      BY <1>3, LeafIs
    <2>2. n \in Nat
      BY <1>2, <1>3
    <2> HIDE DEF k
    <2>3. Under(n, k) \in SUBSET Kinds
      BY <2>1, <2>2, UnderIs
    <2>4. QED
      BY <2>3 DEF k
  <1>4. ASSUME NEW g, NEW i \in D,
               payload[i].kind \in {"map", "list"} =>
                 \A n \in DOMAIN payload[i].parts : g[payload[i].parts[n]] \in V
        PROVE  E(g, i) \in V
    <2> HIDE DEF PartOf, D
    <2>1. CASE payload[i].kind = "text"
      BY <2>1, LeafIs
    <2>2. CASE payload[i].kind = "number"
      BY <2>2, LeafIs
    <2>3. CASE payload[i].kind = "map"
      <3>1. \A n \in DOMAIN payload[i].parts : PartOf(g, i, n, payload[i].keys[n]) \in V
        BY <1>3, <1>4, <2>3
      <3>2. \A n \in DOMAIN payload[i].parts : KeptKey(n) \in V
        BY <1>2, <2>3, KeyIs
      <3>3. E(g, i) = UNION {KeptKey(n) \cup PartOf(g, i, n, payload[i].keys[n]) :
                               n \in DOMAIN payload[i].parts}
        BY <2>3
      <3> HIDE DEF E
      <3>4. QED
        BY <3>1, <3>2, <3>3
    <2>4. CASE payload[i].kind = "list"
      <3>1. \A n \in DOMAIN payload[i].parts : PartOf(g, i, n, NoKey) \in V
        BY <1>3, <1>4, <2>4
      <3>2. E(g, i) = UNION {PartOf(g, i, n, NoKey) :
                               n \in {m \in DOMAIN payload[i].parts : m <= ListLimit}}
        BY <2>4
      <3> HIDE DEF E
      <3>3. QED
        BY <3>1, <3>2
    <2>5. QED
      BY <1>1, <2>1, <2>2, <2>3, <2>4 DEF IsValue
  <1>5. ASSUME NEW g \in [D -> V], NEW i \in D
        PROVE  E(g, i) \in V
    <2> HIDE DEF E, D, V
    <2> QED
      BY <1>2, <1>4
  <1>6. Body \in [[D -> V] -> [D -> V]]
    <2> HIDE DEF E, D, V
    <2> QED
      BY <1>5
  <1>7. ASSUME NEW g \in [D -> V], NEW h \in [D -> V], NEW i \in D,
               \A j \in D : j < i => g[j] = h[j]
        PROVE  Body[g][i] = Body[h][i]
    <2>1. E(g, i) = E(h, i)
      <3>1. CASE payload[i].kind \in {"map", "list"}
        <4>1. ASSUME NEW n \in DOMAIN payload[i].parts, NEW key
              PROVE  PartOf(g, i, n, key) = PartOf(h, i, n, key)
          <5>1. g[payload[i].parts[n]] = h[payload[i].parts[n]]
            BY <1>2, <1>7, <3>1
          <5>2. QED
            BY <5>1
        <4> HIDE DEF PartOf
        <4>2. {KeptKey(n) \cup PartOf(g, i, n, payload[i].keys[n]) : n \in DOMAIN payload[i].parts}
                = {KeptKey(n) \cup PartOf(h, i, n, payload[i].keys[n]) : n \in DOMAIN payload[i].parts}
          BY <4>1
        <4>3. {PartOf(g, i, n, NoKey) : n \in {m \in DOMAIN payload[i].parts : m <= ListLimit}}
                = {PartOf(h, i, n, NoKey) : n \in {m \in DOMAIN payload[i].parts : m <= ListLimit}}
          BY <4>1
        <4>4. QED
          BY <3>1, <4>2, <4>3
      <3>2. CASE payload[i].kind \in {"text", "number"}
        BY <3>2
      <3>3. QED
        BY <1>1, <3>1, <3>2 DEF IsValue
    <2>2. Body[g][i] = E(g, i) /\ Body[h][i] = E(h, i)
      <3> HIDE DEF E, D, V
      <3> QED
        OBVIOUS
    <2>3. QED
      BY <2>1, <2>2
  <1>8. PICK f \in [D -> V] : f = Body[f]
    <2>1. V # {}
      OBVIOUS
    <2> HIDE DEF D, Body, V
    <2>2. Recursive(Body, D, V)
      BY <1>1, <1>6, <1>7, <2>1 DEF Recursive
    <2>3. QED
      BY <2>2, Recursion
  <1>9. f = [i \in D |-> E(f, i)]
    <2> HIDE DEF E, D, V
    <2> QED
      BY <1>8
  <1>10. kept = [i \in D |-> E(kept, i)]
    <2> HIDE DEF D, E
    <2> QED
      BY <1>9
  <1>11. RedactValue(payload, raw) =
           IF Hidden(payload[Len(payload)], NoKey) THEN Leaf("redacted") ELSE kept[Len(payload)]
    BY DEF RedactValue
  <1> HIDE DEF Body
  <1> DEFINE U == SUBSET Places
             leaves == LeafPlaces(payload)
             Sensitive(i, n) == payload[i].kind = "map" /\ payload[i].keys[n] \in SensitiveKeys
             SecretPart(g, i, n) ==
               Below(n, IF Sensitive(i, n) THEN leaves[payload[i].parts[n]]
                        ELSE g[payload[i].parts[n]])
             F(g, i) == IF payload[i].kind \in {"map", "list"}
                        THEN UNION {SecretPart(g, i, n) : n \in DOMAIN payload[i].parts}
                        ELSE IF payload[i].kind = "text" /\ payload[i].text \in Secrets THEN {<<>>} ELSE {}
             secret == CHOOSE g : g = [i \in D |-> F(g, i)]
             SecretBody == [g \in [D -> U] |-> [i \in D |-> F(g, i)]]
  <1>12. \A i \in D : leaves[i] \in U
    BY LeafPlacesAre
  <1> HIDE DEF leaves
  <1>13. ASSUME NEW g, NEW i \in D,
                payload[i].kind \in {"map", "list"} =>
                  \A n \in DOMAIN payload[i].parts : g[payload[i].parts[n]] \in U
         PROVE  F(g, i) \in U
    <2>1. CASE payload[i].kind \in {"map", "list"}
      <3>1. ASSUME NEW n \in DOMAIN payload[i].parts
            PROVE  SecretPart(g, i, n) \in U
        <4> DEFINE k == IF Sensitive(i, n) THEN leaves[payload[i].parts[n]] ELSE g[payload[i].parts[n]]
        <4>1. k \in SUBSET Places /\ n \in Nat
          <5> HIDE DEF D
          <5> QED
            BY <1>2, <1>12, <1>13, <2>1
        <4> HIDE DEF k
        <4>2. Below(n, k) \in SUBSET Places
          BY <4>1, BelowIs
        <4>3. QED
          BY <4>2 DEF k
      <3>2. F(g, i) = UNION {SecretPart(g, i, n) : n \in DOMAIN payload[i].parts}
        BY <2>1
      <3> HIDE DEF F, SecretPart
      <3>3. QED
        BY <3>1, <3>2
    <2>2. CASE payload[i].kind \notin {"map", "list"}
      <3>1. <<>> \in Places
        BY DEF Places
      <3>2. QED
        BY <2>2, <3>1
    <2>3. QED
      BY <2>1, <2>2
  <1>14. ASSUME NEW g \in [D -> U], NEW i \in D
         PROVE  F(g, i) \in U
    <2> HIDE DEF F, D, U
    <2> QED
      BY <1>2, <1>13
  <1>15. SecretBody \in [[D -> U] -> [D -> U]]
    <2> HIDE DEF F, D, U
    <2> QED
      BY <1>14
  <1>16. ASSUME NEW g \in [D -> U], NEW h \in [D -> U], NEW i \in D,
                \A j \in D : j < i => g[j] = h[j]
         PROVE  SecretBody[g][i] = SecretBody[h][i]
    <2>1. F(g, i) = F(h, i)
      <3>1. CASE payload[i].kind \in {"map", "list"}
        <4>1. ASSUME NEW n \in DOMAIN payload[i].parts
              PROVE  SecretPart(g, i, n) = SecretPart(h, i, n)
          <5>1. g[payload[i].parts[n]] = h[payload[i].parts[n]]
            BY <1>2, <1>16, <3>1
          <5>2. QED
            BY <5>1
        <4> HIDE DEF SecretPart
        <4>2. QED
          BY <3>1, <4>1
      <3>2. CASE payload[i].kind \notin {"map", "list"}
        BY <3>2
      <3>3. QED
        BY <3>1, <3>2
    <2>2. SecretBody[g][i] = F(g, i) /\ SecretBody[h][i] = F(h, i)
      <3> HIDE DEF F, D, U
      <3> QED
        OBVIOUS
    <2>3. QED
      BY <2>1, <2>2
  <1>17. PICK h \in [D -> U] : h = SecretBody[h]
    <2>1. U # {}
      OBVIOUS
    <2> HIDE DEF D, SecretBody, U
    <2>2. Recursive(SecretBody, D, U)
      BY <1>1, <1>15, <1>16, <2>1 DEF Recursive
    <2>3. QED
      BY <2>2, Recursion
  <1>18. h = [i \in D |-> F(h, i)]
    <2> HIDE DEF F, D, U
    <2> QED
      BY <1>17
  <1>19. secret = [i \in D |-> F(secret, i)]
    <2> HIDE DEF D, F
    <2> QED
      BY <1>18
  <1>20. SecretPlaces(payload) = secret[Len(payload)]
    BY DEF SecretPlaces, leaves
  <1> HIDE DEF kept, secret, SecretBody
  <1> DEFINE SecretText(i) == payload[i].kind = "text" /\ payload[i].text \in Secrets
             Clean(i) == SecretText(i) \/ RawPlaces(kept[i]) \cap secret[i] = {}
             T == {i \in D : kept[i] \in V /\ secret[i] \in U /\ Clean(i)}
  <1>21. ASSUME NEW i \in D, \A j \in D : j < i => j \in T
         PROVE  i \in T
    <2>1. ASSUME payload[i].kind \in {"map", "list"}, NEW n \in DOMAIN payload[i].parts
          PROVE  payload[i].parts[n] \in T
      BY <1>2, <1>21, <2>1
    <2>2. kept[i] = E(kept, i) /\ secret[i] = F(secret, i)
      <3> HIDE DEF E, F, D
      <3> QED
        BY <1>10, <1>19
    <2>3. kept[i] \in V
      <3>1. E(kept, i) \in V
        <4> HIDE DEF E
        <4> QED
          BY <1>4, <2>1
      <3>2. QED
        BY <2>2, <3>1
    <2>4. secret[i] \in U
      <3>1. F(secret, i) \in U
        <4> HIDE DEF F
        <4> QED
          BY <1>13, <2>1
      <3>2. QED
        BY <2>2, <3>1
    <2>5. Clean(i)
      <3>1. CASE payload[i].kind \in {"text", "number"}
        <4>1. SecretText(i) \/ secret[i] = {}
          BY <2>2, <3>1
        <4>2. QED
          BY <4>1
      <3>2. CASE payload[i].kind \in {"map", "list"}
        <4>1. SUFFICES ASSUME NEW p \in RawPlaces(kept[i]), p \in secret[i]
                       PROVE  FALSE
          OBVIOUS
        <4>2. PICK n \in DOMAIN payload[i].parts :
                \E key : /\ p \in RawPlaces(PartOf(kept, i, n, key))
                         /\ payload[i].kind = "map" => key = payload[i].keys[n]
          <5>1. CASE payload[i].kind = "map"
            <6>1. kept[i] = UNION {KeptKey(n) \cup PartOf(kept, i, n, payload[i].keys[n]) :
                                     n \in DOMAIN payload[i].parts}
              BY <2>2, <5>1
            <6>2. PICK k \in kept[i] : k.shape = "raw" /\ p = k.place
              BY <4>1 DEF RawPlaces
            <6> HIDE DEF PartOf
            <6>3. PICK n \in DOMAIN payload[i].parts :
                    k \in KeptKey(n) \cup PartOf(kept, i, n, payload[i].keys[n])
              BY <6>1, <6>2
            <6>4. k \notin KeptKey(n)
              BY <6>2 DEF KeptKey
            <6>5. QED
              BY <5>1, <6>2, <6>3, <6>4 DEF RawPlaces
          <5>2. CASE payload[i].kind = "list"
            <6>1. kept[i] = UNION {PartOf(kept, i, n, NoKey) :
                                     n \in {m \in DOMAIN payload[i].parts : m <= ListLimit}}
              BY <2>2, <5>2
            <6> HIDE DEF PartOf
            <6>2. QED
              BY <4>1, <5>2, <6>1 DEF RawPlaces
          <5>3. QED
            BY <3>2, <5>1, <5>2
        <4>3. PICK key : /\ p \in RawPlaces(PartOf(kept, i, n, key))
                         /\ payload[i].kind = "map" => key = payload[i].keys[n]
          BY <4>2
        <4> DEFINE j == payload[i].parts[n]
        <4>4. n \in Nat /\ j \in T
          BY <1>2, <2>1, <3>2
        <4>5. ~ Hidden(payload[j], key) /\ \E q \in RawPlaces(kept[j]) : p = <<n>> \o q
          <5> DEFINE k == IF Hidden(payload[j], key) THEN Leaf("redacted") ELSE kept[j]
          <5>1. k \in SUBSET Kinds
            BY <4>4, LeafIs
          <5>2. p \in RawPlaces(Under(n, k))
            BY <4>3
          <5>3. \E q \in RawPlaces(k) : p = <<n>> \o q
            <6> HIDE DEF k
            <6>1. RawPlaces(Under(n, k)) = {<<n>> \o q : q \in RawPlaces(k)}
              BY <4>4, <5>1, UnderIs
            <6>2. QED
              BY <5>2, <6>1
          <5>4. RawPlaces(Leaf("redacted")) = {}
            BY LeafIs
          <5>5. QED
            BY <5>3, <5>4
        <4>6. PICK q \in RawPlaces(kept[j]) : p = <<n>> \o q
          BY <4>5
        <4>7. PICK m \in DOMAIN payload[i].parts : p \in SecretPart(secret, i, m)
          <5>1. secret[i] = UNION {SecretPart(secret, i, m) : m \in DOMAIN payload[i].parts}
            BY <2>2, <3>2
          <5> HIDE DEF SecretPart
          <5>2. QED
            BY <4>1, <5>1
        <4> DEFINE l == payload[i].parts[m]
                   those == IF Sensitive(i, m) THEN leaves[l] ELSE secret[l]
        <4>8. m \in Nat /\ l \in D /\ l \in T
          BY <1>2, <2>1, <3>2
        <4>9. those \in SUBSET Places
          BY <1>12, <4>8
        <4>10. PICK r \in those : p = <<m>> \o r
          BY <4>7 DEF Below
        <4>11. n = m /\ q = r
          <5>1. q \in Places
            BY <4>4, UnderIs
          <5>2. r \in Places
            BY <4>9
          <5>3. <<n>> \o q = <<m>> \o r
            BY <4>6, <4>10
          <5> HIDE DEF j, l, those
          <5>4. QED
            BY <4>4, <4>8, <5>1, <5>2, <5>3, ConsIs
        <4>12. ~ Sensitive(i, n) /\ ~ SecretText(j)
          BY <4>3, <4>5 DEF Hidden
        <4>13. q \in secret[j]
          BY <4>10, <4>11, <4>12
        <4>14. QED
          BY <4>4, <4>6, <4>12, <4>13
      <3>3. QED
        BY <1>1, <3>1, <3>2 DEF IsValue
    <2> HIDE DEF V, U, Clean, D
    <2>6. QED
      BY <2>3, <2>4, <2>5
  <1>22. D \subseteq T
    <2> HIDE DEF D, T
    <2> QED
      BY <1>1, <1>21, StrongInduction
  <1>23. Len(payload) \in T
    <2> HIDE DEF T
    <2> QED
      BY <1>1, <1>22
  <1>24. CASE Hidden(payload[Len(payload)], NoKey)
    BY <1>11, <1>24, LeafIs
  <1>25. CASE ~ Hidden(payload[Len(payload)], NoKey)
    <2>1. ~ SecretText(Len(payload))
      BY <1>25 DEF Hidden
    <2>2. QED
      BY <1>11, <1>20, <1>23, <1>25, <2>1
  <1>26. QED
    BY <1>24, <1>25

LEMMA ThreeMore ==
  ASSUME NEW S, NEW s \in Seq(S), NEW t \in Seq(S), NEW n \in Nat,
         Len(s) = n - 1, Len(t) = 3
  PROVE  /\ \A i \in 1 .. n - 1 : (s \o t)[i] = s[i]
         /\ (s \o t)[n] = t[1] /\ (s \o t)[n + 1] = t[2] /\ (s \o t)[n + 2] = t[3]
  <1>1. \A i \in 1 .. n + 2 : (s \o t)[i] = IF i <= n - 1 THEN s[i] ELSE t[i - (n - 1)]
    <2>1. \A i \in 1 .. Len(s) + Len(t) : (s \o t)[i] = IF i <= Len(s) THEN s[i] ELSE t[i - Len(s)]
      BY ConcatProperties, Zenon
    <2>2. Len(s) + Len(t) = n + 2
      OBVIOUS
    <2>3. QED
      BY <2>1, <2>2, Zenon
  <1>2. n \in 1 .. n + 2 /\ n + 1 \in 1 .. n + 2 /\ n + 2 \in 1 .. n + 2
    <2>1. n - 1 \in Nat
      BY LenProperties
    <2>2. QED
      BY <2>1
  <1>3. n - (n - 1) = 1 /\ (n + 1) - (n - 1) = 2 /\ (n + 2) - (n - 1) = 3
    OBVIOUS
  <1> DEFINE u == s \o t
  <1> HIDE DEF u
  <1>4. \A i \in 1 .. n + 2 : u[i] = IF i <= n - 1 THEN s[i] ELSE t[i - (n - 1)]
    BY <1>1 DEF u
  <1>5. u[n] = t[1] /\ u[n + 1] = t[2] /\ u[n + 2] = t[3]
    <2>1. ~ (n <= n - 1) /\ ~ (n + 1 <= n - 1) /\ ~ (n + 2 <= n - 1)
      OBVIOUS
    <2>2. /\ u[n] = t[n - (n - 1)] /\ u[n + 1] = t[(n + 1) - (n - 1)]
          /\ u[n + 2] = t[(n + 2) - (n - 1)]
      BY <1>2, <1>4, <2>1
    <2>3. QED
      BY <1>3, <2>2
  <1>6. \A i \in 1 .. n - 1 : u[i] = s[i]
    BY <1>4
  <1>7. QED
    BY <1>5, <1>6 DEF u

\* The post hook's arguments are a payload as well.
LEMMA PostPayloadIs ==
  ASSUME NEW call \in ToolCalls
  PROVE  IsPayload(PostPayload(call))
  <1> DEFINE payload == call.payload
             n == Len(payload)
             whole == Last(payload)
             preview == SubSeq(call.result, 1, Min({FieldLimit, Len(call.result)}))
             keys == whole.keys \o <<"result", "result_preview">>
             parts == whole.parts \o <<n, n + 1>>
             added == <<TextValue(call.result), TextValue(preview), Map(keys, parts)>>
             all == Front(payload) \o added
  <1>1. IsPayload(payload) /\ whole.kind = "map"
    BY PayloadsAssumption
  <1>2. /\ n \in Nat \ {0} /\ DOMAIN payload = 1 .. n /\ whole = payload[n]
        /\ payload \in Seq(ToSet(payload))
    <2>1. IsList(payload) /\ payload # <<>>
      BY <1>1 DEF IsPayload
    <2>2. payload \in Seq(ToSet(payload)) /\ n \in Nat /\ DOMAIN payload = 1 .. n
      BY <2>1, ListIs
    <2>3. n # 0
      BY <2>1, <2>2, EmptySeq
    <2>4. QED
      BY <2>2, <2>3 DEF Last
  <1>3. /\ IsList(whole.parts)
        /\ \A m \in DOMAIN whole.parts : whole.parts[m] \in 1 .. n - 1
    BY <1>1, <1>2 DEF IsPayload
  <1>4. IsList(parts) /\ \A m \in DOMAIN parts : parts[m] \in 1 .. (n + 2) - 1
    <2> DEFINE old == whole.parts
    <2>1. old \in Seq(1 .. n - 1)
      <3>1. old \in Seq(ToSet(old)) /\ DOMAIN old = 1 .. Len(old) /\ Len(old) \in Nat
        BY <1>3, ListIs
      <3>2. QED
        BY <1>3, <3>1
    <2>2. old \in Seq(1 .. n + 1) /\ <<n, n + 1>> \in Seq(1 .. n + 1)
      BY <1>2, <2>1
    <2> HIDE DEF n, old
    <2>3. old \o <<n, n + 1>> \in Seq(1 .. n + 1)
      BY <2>2
    <2>4. parts \in Seq(1 .. n + 1)
      BY <2>3 DEF old
    <2>5. ASSUME NEW S, NEW s \in Seq(S)
          PROVE  IsList(s) /\ \A m \in DOMAIN s : s[m] \in S
      BY DEF IsList
    <2>6. (n + 2) - 1 = n + 1
      BY <1>2
    <2> HIDE DEF parts
    <2>7. QED
      BY <2>4, <2>5, <2>6
  <1> HIDE DEF keys, parts, preview
  <1>5. /\ Front(payload) \in Seq(ToSet(payload)) /\ Len(Front(payload)) = n - 1
        /\ \A i \in 1 .. n - 1 : Front(payload)[i] = payload[i]
    BY <1>2 DEF Front
  <1>6. /\ IsList(all) /\ Len(all) = n + 2
        /\ \A i \in 1 .. n - 1 : all[i] = payload[i]
        /\ all[n] = TextValue(call.result) /\ all[n + 1] = TextValue(preview)
        /\ all[n + 2] = Map(keys, parts)
    <2> DEFINE S == ToSet(payload) \cup {TextValue(call.result), TextValue(preview), Map(keys, parts)}
    <2>1. added \in Seq(S) /\ Len(added) = 3 /\ Front(payload) \in Seq(S)
      BY <1>5
    <2> HIDE DEF S
    <2>2. all \in Seq(S) /\ Len(all) = n + 2
      BY <1>2, <1>5, <2>1
    <2>3. /\ \A i \in 1 .. n - 1 : all[i] = Front(payload)[i]
          /\ all[n] = added[1] /\ all[n + 1] = added[2] /\ all[n + 2] = added[3]
      <3> HIDE DEF n, added
      <3> QED
        BY <1>2, <1>5, <2>1, ThreeMore
    <2>4. /\ \A i \in 1 .. n - 1 : all[i] = payload[i]
          /\ all[n] = added[1] /\ all[n + 1] = added[2] /\ all[n + 2] = added[3]
      <3> HIDE DEF added, all
      <3> QED
        BY <1>5, <2>3
    <2>5. IsList(all)
      BY <2>2 DEF IsList
    <2>6. QED
      BY <2>2, <2>4, <2>5
  <1> HIDE DEF all, added, whole
  <1>7. ASSUME NEW i \in 1 .. n + 2 PROVE IsValue(all[i], i)
    <2>1. CASE i \in 1 .. n - 1
      <3>1. IsValue(payload[i], i)
        BY <1>1, <1>2, <2>1 DEF IsPayload, IsValue
      <3>2. QED
        BY <1>6, <2>1, <3>1
    <2>2. CASE i \in {n, n + 1}
      <3>1. \A text : TextValue(text).kind = "text"
        BY DEF TextValue
      <3>2. all[i].kind = "text"
        BY <1>6, <2>2, <3>1
      <3>3. QED
        BY <3>2 DEF IsValue
    <2>3. CASE i = n + 2
      <3>1. Map(keys, parts).kind = "map" /\ Map(keys, parts).parts = parts
        BY DEF Map
      <3>2. all[i] = Map(keys, parts)
        BY <1>6, <2>3
      <3>3. QED
        BY <1>4, <2>3, <3>1, <3>2 DEF IsValue
    <2>4. QED
      BY <1>2, <2>1, <2>2, <2>3
  <1>8. IsPayload(all)
    <2>1. DOMAIN all = 1 .. n + 2 /\ all # <<>>
      BY <1>2, <1>6, ListIs
    <2>2. QED
      BY <1>6, <1>7, <2>1 DEF IsPayload, IsValue
  <1>9. PostPayload(call) = IF call.result = None THEN payload ELSE all
    BY DEF PostPayload, all, added, keys, parts, preview, whole
  <1>10. QED
    BY <1>1, <1>8, <1>9

\* Redactor.redact: no text with a secret in it, and nothing below a sensitive
\* key, is stored as it is in an event, whatever was called and however it was
\* answered.
THEOREM EventsKeepNoSecret == Spec => []EventsAreClean
  <1>1. ASSUME IInv PROVE EventsAreClean
    <2>1. SUFFICES ASSUME last.answer # "none", NEW event \in last.events
                   PROVE  RawPlaces(event.kept) \cap SecretPlaces(event.payload) = {}
      BY DEF EventsAreClean
    <2>2. PICK call \in ToolCalls : \E stores : last = Outcome(call, Decision(call), stores)
      BY <1>1, <2>1, LastCallIs
    <2>3. \E answer : event \in Events(call, Decision(call), answer)
      BY <2>1, <2>2 DEF Outcome
    <2>4. \E raw : \/ event = [payload |-> call.payload, kept |-> RedactValue(call.payload, raw)]
                   \/ event = [payload |-> PostPayload(call),
                               kept |-> RedactValue(PostPayload(call), raw)]
      BY <2>3 DEF Events
    <2>5. \E payload, raw : IsPayload(payload) /\ event.payload = payload
                              /\ event.kept = RedactValue(payload, raw)
      BY <2>4, PayloadsAssumption, PostPayloadIs
    <2>6. QED
      BY <2>5, RedactedIs
  <1>2. QED
    BY <1>1, LoadedDecides, PTL

\* preflight.py and capture.py: a candidate with a secret in its content comes
\* only from a call that fail_open let run although it was to be routed.
THEOREM SecretContentOnlyOnFailure == Spec => []SecretContentNeedsFailure
  <1>1. ASSUME IInv PROVE SecretContentNeedsFailure
    <2>1. SUFFICES ASSUME last.answer # "none", last.candidate # None,
                          last.candidate.content # None, last.candidate.content \in Secrets
                   PROVE  last.answer = "pass" /\ config.failOpen
      BY DEF SecretContentNeedsFailure
    <2>2. PICK call \in ToolCalls : \E stores \in SUBSET Writers(Decision(call)) :
            /\ last = Outcome(call, Decision(call), stores)
            /\ last.answer = Answer(Decision(call), config, "pre" \in stores)
      BY <1>1, <2>1, LastCallIs
    <2>3. PICK stores \in SUBSET Writers(Decision(call)) :
            /\ last = Outcome(call, Decision(call), stores)
            /\ last.answer = Answer(Decision(call), config, "pre" \in stores)
      BY <2>2
    <2>4. last.candidate = StoredCandidate(call, last.answer, stores)
      BY <2>3 DEF Outcome
    <2>5. "pre" \notin stores
      <3>1. SUFFICES ASSUME "pre" \in stores PROVE FALSE
        OBVIOUS
      <3>2. last.candidate = Candidate(call, "pre")
        BY <2>4, <3>1 DEF StoredCandidate
      <3> DEFINE content == Joined(call.args, <<"content", "description">>)
      <3>3. Candidate(call, "pre").content
              = IF Promotable(content) /\ content # <<>> THEN content ELSE None
        BY DEF Candidate
      <3>4. Promotable(content) => content \notin Secrets
        BY DEF Promotable
      <3> HIDE DEF content
      <3>5. QED
        BY <2>1, <3>2, <3>3, <3>4
    <2>6. "post" \in stores /\ last.answer = "pass"
      BY <2>1, <2>4, <2>5 DEF StoredCandidate
    <2>7. Decision(call) = "candidate"
      BY <2>6 DEF Writers
    <2>8. QED
      BY <2>3, <2>5, <2>6, <2>7 DEF Answer
  <1>2. QED
    BY <1>1, LoadedDecides, PTL
=============================================================================
