--------------------------- MODULE HookFlowProofs ---------------------------
(***************************************************************************)
(* Theorems about HookFlow: what pre_tool_call answers, for any set of     *)
(* concurrent calls, any number of workers and any size of the cache.      *)
(***************************************************************************)
EXTENDS HookFlow, SequenceLemmas, FiniteSetTheorems, TLAPS

(* The part of TypeOK that the answers depend on.                           *)
AnswerTypes ==
  /\ config \in [mode : Modes, dryRun : BOOLEAN, failOpen : BOOLEAN]
  /\ stage \in [Calls -> Stages]
  /\ outcome \in [Calls -> Decisions \cup {"pending", "raised"}]
  /\ decision \in [Calls -> Decisions \cup {"unknown"}]
  /\ answer \in [Calls -> Answers \cup {"pending"}]

(* A hook that has not returned has answered nothing, so that no decision   *)
(* changes under an answer.                                                 *)
Unanswered(c) == stage[c] \in {"idle"} \cup PreStages => answer[c] = "pending"

(* What the stages of pre_tool_call know of the decision they work with.    *)
StageKnows(c) ==
  /\ stage[c] = "cache" => decision[c] \in Decisions
  /\ stage[c] \in {"event", "audit", "find", "create"} => decision[c] \in Enforcing

(* dry_run leaves no enforcing decision, with a worker or with a hook.      *)
DryRunDecides(c) ==
  config.dryRun => outcome[c] \notin Enforcing /\ decision[c] \notin Enforcing

(* What an answer says of the decision and of the queue.                    *)
AnswerKnows(c) ==
  /\ answer[c] = "pass" /\ ~ config.failOpen => decision[c] \in {"allow", "warn"}
  /\ answer[c] = "routed" => c \in candidates
  /\ answer[c] \in {"routed", "blocked"} => decision[c] \in Enforcing

CallInv(c) ==
  /\ Unanswered(c)
  /\ StageKnows(c)
  /\ DryRunDecides(c)
  /\ AnswerKnows(c)

IInv == AnswerTypes /\ \A c \in Calls : CallInv(c)

----------------------------------------------------------------------------
\* The policy returns a decision, and under dry_run one that lets the call go.
LEMMA VerdictDecides ==
  ASSUME NEW s \in Severities
  PROVE  /\ Verdict(config, s) \in Decisions
         /\ config.dryRun => Verdict(config, s) \notin Enforcing
  BY DEF Severities, Verdict, Escalated, Decisions, Enforcing

LEMMA InitIInv == Init => IInv
  BY DEF Init, IInv, AnswerTypes, CallInv, Unanswered, StageKnows, DryRunDecides,
         AnswerKnows, Stages, Answers, Decisions, Enforcing

\* A step that touches no hook and loses no candidate keeps the invariant.
LEMMA OtherStep ==
  ASSUME IInv, candidates \subseteq candidates',
         UNCHANGED <<config, stage, outcome, decision, answer>>
  PROVE  IInv'
  BY DEF IInv, AnswerTypes, CallInv, Unanswered, StageKnows, DryRunDecides, AnswerKnows

\* A step of the hook of call c leaves the other calls as they are, and keeps
\* the invariant if it keeps it for c.
LEMMA HookStep ==
  ASSUME IInv, NEW c \in Calls,
         NEW s \in Stages, stage' = [stage EXCEPT ![c] = s],
         NEW a \in Answers \cup {"pending"}, answer' = [answer EXCEPT ![c] = a],
         NEW d \in Decisions \cup {"unknown"}, decision' = [decision EXCEPT ![c] = d],
         UNCHANGED <<config, outcome>>, candidates \subseteq candidates',
         CallInv(c)'
  PROVE  IInv'
  <1>1. AnswerTypes'
    BY DEF IInv, AnswerTypes
  <1>2. ASSUME NEW b \in Calls, b # c
        PROVE  CallInv(b)'
    <2>1. /\ stage'[b] = stage[b] /\ answer'[b] = answer[b]
          /\ decision'[b] = decision[b] /\ outcome'[b] = outcome[b]
      BY <1>2 DEF IInv, AnswerTypes
    <2>2. QED
      BY <2>1 DEF IInv, CallInv, Unanswered, StageKnows, DryRunDecides, AnswerKnows
  <1>3. QED
    BY <1>1, <1>2 DEF IInv

\* The three ways a hook ends: what it answers is what it knows.
LEMMA ReturnKeeps ==
  ASSUME IInv, NEW c \in Calls, NEW a \in Answers, Return(c, a),
         UNCHANGED <<config, outcome, decision>>, candidates \subseteq candidates',
         a = "pass" => config.failOpen \/ decision[c] \in {"allow", "warn"},
         a = "routed" => c \in candidates',
         a \in {"routed", "blocked"} => decision[c] \in Enforcing
  PROVE  IInv'
  <1> DEFINE s == IF a = "pass" THEN "passed" ELSE "end"
  <1>1. /\ s \in Stages /\ s \notin {"idle"} \cup PreStages
        /\ s \notin {"cache", "event", "audit", "find", "create"}
    BY DEF Stages, PreStages
  <1>2. /\ stage' = [stage EXCEPT ![c] = s]
        /\ answer' = [answer EXCEPT ![c] = a]
        /\ decision' = [decision EXCEPT ![c] = decision[c]]
    BY DEF Return, Goto, IInv, AnswerTypes
  <1>3. stage'[c] = s /\ answer'[c] = a
    BY <1>2 DEF IInv, AnswerTypes
  <1>4. CallInv(c)'
    <2>1. Unanswered(c)' /\ StageKnows(c)'
      BY <1>1, <1>3 DEF Unanswered, StageKnows
    <2>2. DryRunDecides(c)'
      BY DEF IInv, CallInv, DryRunDecides
    <2>3. AnswerKnows(c)'
      BY <1>3 DEF AnswerKnows
    <2>4. QED
      BY <2>1, <2>2, <2>3 DEF CallInv
  <1>5. decision[c] \in Decisions \cup {"unknown"}
    BY DEF IInv, AnswerTypes
  <1> HIDE DEF s
  <1>6. QED
    BY <1>1, <1>2, <1>4, <1>5, HookStep

LEMMA FailedKeeps ==
  ASSUME IInv, NEW c \in Calls, Failed(c),
         UNCHANGED <<config, outcome, decision, candidates>>
  PROVE  IInv'
  <1>1. CASE config.failOpen
    <2>1. Return(c, "pass") /\ "pass" \in Answers
      BY <1>1 DEF Failed, Answers
    <2>2. QED
      BY <1>1, <2>1, ReturnKeeps
  <1>2. CASE ~ config.failOpen
    <2>1. Return(c, "refused") /\ "refused" \in Answers
      BY <1>2 DEF Failed, Answers
    <2>2. QED
      BY <2>1, ReturnKeeps
  <1>3. QED
    BY <1>1, <1>2

\* A step of a hook from one of its stages to another, the decision as it is.
LEMMA GotoKeeps ==
  ASSUME IInv, NEW c \in Calls, NEW s \in Stages, Goto(c, s),
         UNCHANGED <<config, outcome, decision, answer>>, candidates \subseteq candidates',
         s \in {"idle"} \cup PreStages => answer[c] = "pending",
         s = "cache" => decision[c] \in Decisions,
         s \in {"event", "audit", "find", "create"} => decision[c] \in Enforcing
  PROVE  IInv'
  <1>1. /\ stage' = [stage EXCEPT ![c] = s]
        /\ answer' = [answer EXCEPT ![c] = answer[c]]
        /\ decision' = [decision EXCEPT ![c] = decision[c]]
    BY DEF Goto, IInv, AnswerTypes
  <1>2. stage'[c] = s
    BY <1>1 DEF IInv, AnswerTypes
  <1>3. CallInv(c)'
    BY <1>2 DEF IInv, CallInv, Unanswered, StageKnows, DryRunDecides, AnswerKnows
  <1>4. /\ answer[c] \in Answers \cup {"pending"}
        /\ decision[c] \in Decisions \cup {"unknown"}
    BY DEF IInv, AnswerTypes
  <1>5. QED
    BY <1>1, <1>3, <1>4, HookStep

----------------------------------------------------------------------------
LEMMA PreHookKeeps ==
  ASSUME IInv, NEW c \in Calls, PreHook(c)
  PROVE  IInv'
  <1> USE DEF pool, rows
  <1>0. /\ CallInv(c)
        /\ decision[c] \in Decisions \cup {"unknown"}
        /\ outcome[c] \in Decisions \cup {"pending", "raised"}
    BY DEF IInv, AnswerTypes
  <1>1. CASE HasResult(c)
    <2>1. /\ stage' = [stage EXCEPT ![c] = "cache"]
          /\ answer' = [answer EXCEPT ![c] = answer[c]]
          /\ decision' = [decision EXCEPT ![c] = outcome[c]]
      BY <1>1 DEF HasResult, Goto, IInv, AnswerTypes
    <2>2. stage'[c] = "cache" /\ decision'[c] = outcome[c]
      BY <2>1 DEF IInv, AnswerTypes
    <2>3. answer[c] = "pending" /\ outcome[c] \in Decisions
      BY <1>0, <1>1 DEF HasResult, CallInv, Unanswered, PreStages
    <2>4. CallInv(c)'
      BY <1>0, <1>1, <2>2, <2>3
      DEF HasResult, CallInv, Unanswered, StageKnows, DryRunDecides, AnswerKnows
    <2>5. "cache" \in Stages /\ answer[c] \in Answers \cup {"pending"}
      BY <2>3 DEF Stages, PreStages
    <2>6. QED
      BY <1>1, <2>1, <2>3, <2>4, <2>5, HookStep DEF HasResult
  <1>2. CASE HookRaises(c)
    BY <1>2, FailedKeeps DEF HookRaises
  <1>3. CASE Timeout(c)
    BY <1>3, FailedKeeps DEF Timeout
  <1>4. CASE PutDecision(c)
    <2>1. stage[c] = "cache" /\ decision[c] \in Decisions /\ answer[c] = "pending"
      BY <1>0, <1>4 DEF PutDecision, CallInv, Unanswered, StageKnows, PreStages
    <2>2. CASE decision[c] \in Enforcing
      <3>1. Goto(c, "event") /\ UNCHANGED answer /\ "event" \in Stages
        BY <1>4, <2>2 DEF PutDecision, Stages, PreStages
      <3>2. QED
        BY <1>4, <2>1, <2>2, <3>1, GotoKeeps DEF PutDecision
    <2>3. CASE decision[c] \notin Enforcing
      <3>1. Return(c, "pass") /\ "pass" \in Answers
        BY <1>4, <2>3 DEF PutDecision, Answers
      <3>2. decision[c] \in {"allow", "warn"}
        BY <2>1, <2>3 DEF Decisions, Enforcing
      <3>3. QED
        BY <1>4, <3>1, <3>2, ReturnKeeps DEF PutDecision
    <2>4. QED
      BY <2>2, <2>3
  <1>5. CASE PersistEvent(c)
    <2>1. decision[c] \in Enforcing /\ answer[c] = "pending" /\ "audit" \in Stages
      BY <1>0, <1>5 DEF PersistEvent, CallInv, Unanswered, StageKnows, PreStages, Stages
    <2>2. QED
      BY <1>5, <2>1, GotoKeeps DEF PersistEvent
  <1>6. CASE PersistAudit(c)
    <2>1. /\ decision[c] \in Enforcing /\ answer[c] = "pending"
          /\ "find" \in Stages /\ "blocked" \in Answers
      BY <1>0, <1>6
      DEF PersistAudit, CallInv, Unanswered, StageKnows, PreStages, Stages, Answers
    <2>2. CASE decision[c] = "candidate"
      BY <1>6, <2>1, <2>2, GotoKeeps DEF PersistAudit
    <2>3. CASE decision[c] # "candidate"
      BY <1>6, <2>1, <2>3, ReturnKeeps DEF PersistAudit
    <2>4. QED
      BY <2>2, <2>3
  <1>7. CASE FindCandidate(c)
    <2>1. /\ decision[c] \in Enforcing /\ answer[c] = "pending"
          /\ "create" \in Stages /\ "routed" \in Answers
      BY <1>0, <1>7
      DEF FindCandidate, CallInv, Unanswered, StageKnows, PreStages, Stages, Answers
    <2>2. CASE c \in candidates
      BY <1>7, <2>1, <2>2, ReturnKeeps DEF FindCandidate
    <2>3. CASE c \notin candidates
      BY <1>7, <2>1, <2>3, GotoKeeps DEF FindCandidate
    <2>4. QED
      BY <2>2, <2>3
  <1>8. CASE PersistCandidate(c)
    <2>1. decision[c] \in Enforcing /\ "routed" \in Answers
      BY <1>0, <1>8 DEF PersistCandidate, CallInv, StageKnows, Answers
    <2>2. QED
      BY <1>8, <2>1, ReturnKeeps DEF PersistCandidate
  <1>9. CASE PersistFails(c)
    BY <1>9, FailedKeeps DEF PersistFails
  <1>10. QED
    BY <1>1, <1>2, <1>3, <1>4, <1>5, <1>6, <1>7, <1>8, <1>9 DEF PreHook

\* post_tool_call touches neither a decision nor an answer.
LEMMA PostHookKeeps ==
  ASSUME IInv, NEW c \in Calls, PostHook(c)
  PROVE  IInv'
  <1> USE DEF pool, rows
  <1>1. /\ PostStages \cup {"end"} \subseteq Stages
        /\ (PostStages \cup {"end"}) \cap ({"idle"} \cup PreStages) = {}
    BY DEF Stages, PreStages, PostStages
  <1>2. PICK s \in PostStages \cup {"end"} : Goto(c, s)
    BY DEF PostHook, PopDecision, PopRaises, PostEvent, PostAudit, Finalise, PostFind,
           PostCandidate, PostStages
  <1>3. /\ UNCHANGED <<config, outcome, decision, answer>>
        /\ candidates \subseteq candidates'
    BY DEF PostHook, PopDecision, PopRaises, PostEvent, PostAudit, Finalise, PostFind, PostCandidate
  <1>4. s \in Stages /\ s \notin {"cache", "event", "audit", "find", "create"}
    BY <1>1 DEF PreStages
  <1>5. QED
    BY <1>1, <1>2, <1>3, <1>4, GotoKeeps

LEMMA EvaluateKeeps ==
  ASSUME IInv, NEW c \in Calls, Evaluate(c)
  PROVE  IInv'
  <1> USE DEF pool, rows
  <1>1. PICK o \in Decisions \cup {"raised"} :
          /\ outcome' = [outcome EXCEPT ![c] = o]
          /\ config.dryRun => o \notin Enforcing
    <2>1. CASE outcome' = [outcome EXCEPT ![c] = "raised"]
      <3>1. "raised" \in Decisions \cup {"raised"} /\ "raised" \notin Enforcing
        BY DEF Enforcing
      <3>2. QED
        BY <2>1, <3>1, Zenon
    <2>2. CASE \E s \in Severities : outcome' = [outcome EXCEPT ![c] = Verdict(config, s)]
      BY <2>2, VerdictDecides
    <2>3. QED
      BY <2>1, <2>2 DEF Evaluate
  <1>2. UNCHANGED <<config, stage, decision, answer, candidates>>
    BY DEF Evaluate
  <1>3. AnswerTypes'
    BY <1>1, <1>2 DEF IInv, AnswerTypes
  <1>4. ASSUME NEW b \in Calls
        PROVE  CallInv(b)'
    <2>1. config.dryRun => outcome'[b] \notin Enforcing
      BY <1>1 DEF IInv, AnswerTypes, CallInv, DryRunDecides
    <2>2. QED
      BY <1>2, <2>1
      DEF IInv, CallInv, Unanswered, StageKnows, DryRunDecides, AnswerKnows
  <1>5. QED
    BY <1>3, <1>4 DEF IInv

LEMMA RestartKeeps ==
  ASSUME IInv, Restart
  PROVE  IInv'
  <1> USE DEF pool, rows
  <1>1. UNCHANGED <<config, outcome, decision, answer, candidates>>
    BY DEF Restart
  <1>2. \A c \in Calls : stage'[c] \in {"lost", stage[c]}
    BY DEF Restart
  <1>3. "lost" \in Stages /\ "lost" \notin {"idle"} \cup PreStages
    BY DEF Stages, PreStages
  <1>4. AnswerTypes'
    <2>1. stage' \in [Calls -> Stages]
      BY <1>3 DEF Restart, IInv, AnswerTypes
    <2>2. QED
      BY <1>1, <2>1 DEF IInv, AnswerTypes
  <1>5. ASSUME NEW c \in Calls
        PROVE  CallInv(c)'
    <2>1. Unanswered(c)' /\ StageKnows(c)'
      BY <1>1, <1>2, <1>3 DEF IInv, CallInv, Unanswered, StageKnows
    <2>2. DryRunDecides(c)' /\ AnswerKnows(c)'
      BY <1>1 DEF IInv, CallInv, DryRunDecides, AnswerKnows
    <2>3. QED
      BY <2>1, <2>2 DEF CallInv
  <1>6. QED
    BY <1>4, <1>5 DEF IInv

LEMMA NextIInv == IInv /\ [Next]_vars => IInv'
  <1> SUFFICES ASSUME IInv, [Next]_vars
               PROVE  IInv'
    OBVIOUS
  <1> USE DEF pool, rows
  <1>1. CASE UNCHANGED vars
    BY <1>1, OtherStep DEF vars
  <1>2. CASE TakeJob \/ Expire
    BY <1>2, OtherStep DEF TakeJob, Expire
  <1>3. CASE Restart
    BY <1>3, RestartKeeps
  <1>4. ASSUME NEW c \in Calls, Submit(c)
        PROVE  IInv'
    <2>1. answer[c] = "pending" /\ "wait" \in Stages
      BY <1>4 DEF Submit, IInv, CallInv, Unanswered, Stages, PreStages
    <2>2. Goto(c, "wait")
      BY <1>4 DEF Submit, Goto
    <2>3. QED
      BY <1>4, <2>1, <2>2, GotoKeeps DEF Submit
  <1>5. ASSUME NEW c \in Calls, Evaluate(c)
        PROVE  IInv'
    BY <1>5, EvaluateKeeps
  <1>6. ASSUME NEW c \in Calls, PreHook(c)
        PROVE  IInv'
    BY <1>6, PreHookKeeps
  <1>7. ASSUME NEW c \in Calls, PostHook(c)
        PROVE  IInv'
    BY <1>7, PostHookKeeps
  <1>8. ASSUME NEW c \in Calls, CreateFromEvent(c)
        PROVE  IInv'
    BY <1>8, OtherStep DEF CreateFromEvent
  <1>9. QED
    BY <1>1, <1>2, <1>3, <1>4, <1>5, <1>6, <1>7, <1>8 DEF Next

\* What the hooks, the pool and the answers know of each other.
THEOREM Invariant == Spec => []IInv
  BY InitIInv, NextIInv, PTL DEF Spec

----------------------------------------------------------------------------
\* With fail_open=false no exception, timeout or lost write in pre_tool_call
\* (intents/preflight.py) lets a call through that was not decided to be let
\* through, whatever the other calls do to the pool, the cache and the store.
THEOREM FailsClosed == Spec => []FailClosed
  <1>1. IInv => FailClosed
    BY DEF IInv, CallInv, AnswerKnows, FailClosed
  <1>2. QED
    BY <1>1, Invariant, PTL

\* A call answered with "routed this skill to the candidate queue" is in the
\* queue, although the row is looked for and written in two transactions.
THEOREM RoutedCallIsQueued == Spec => []RoutedIsQueued
  <1>1. IInv => RoutedIsQueued
    BY DEF IInv, CallInv, AnswerKnows, RoutedIsQueued
  <1>2. QED
    BY <1>1, Invariant, PTL

\* Under dry_run no call is blocked for the decision of PreflightPolicy.evaluate,
\* in any mode and with any rules.
THEOREM DryRunAlwaysWins == Spec => []DryRunWins
  <1>1. IInv => DryRunWins
    BY DEF IInv, CallInv, AnswerKnows, DryRunDecides, DryRunWins
  <1>2. QED
    BY <1>1, Invariant, PTL

----------------------------------------------------------------------------
(* How often a decision is audited.                                         *)

\* The one way to two audit rows: a candidate decision that could not be stored.
LetThrough(c) == config.failOpen /\ decision[c] = "candidate" /\ answer[c] = "pass"

\* What has been audited, by the stage of the call: nothing before the pre hook
\* stores a decision, and one row at most when the post hook starts.
AuditInv(c) ==
  /\ audits[c] \in 0 .. 2
  /\ stage[c] \in {"idle", "wait", "cache", "event", "audit"} => audits[c] = 0
  /\ stage[c] \in {"find", "create"} => audits[c] # 2 /\ decision[c] = "candidate"
  /\ stage[c] \in {"passed", "postEvent", "postAudit"} =>
       audits[c] # 2 /\ (audits[c] = 1 => LetThrough(c))
  /\ audits[c] = 2 => LetThrough(c)

AuditsInv ==
  /\ audits \in [Calls -> 0 .. 2]
  /\ \A c \in Calls : AuditInv(c)

\* A step of call c leaves the audits of the others as they are.
LEMMA OthersAudits ==
  ASSUME AnswerTypes, AuditsInv, NEW c \in Calls,
         NEW s, stage' = [stage EXCEPT ![c] = s] \/ stage' = stage,
         NEW a, answer' = [answer EXCEPT ![c] = a] \/ answer' = answer,
         NEW d, decision' = [decision EXCEPT ![c] = d] \/ decision' = decision,
         NEW n \in 0 .. 2, audits' = [audits EXCEPT ![c] = n] \/ audits' = audits,
         UNCHANGED config, AuditInv(c)'
  PROVE  AuditsInv'
  <1>1. audits' \in [Calls -> 0 .. 2]
    BY DEF AuditsInv
  <1>2. ASSUME NEW b \in Calls, b # c
        PROVE  AuditInv(b)'
    <2>1. /\ stage'[b] = stage[b] /\ answer'[b] = answer[b]
          /\ decision'[b] = decision[b] /\ audits'[b] = audits[b]
      BY <1>2 DEF AnswerTypes, AuditsInv
    <2>2. AuditInv(b)
      BY DEF AuditsInv
    <2>3. QED
      BY <2>1, <2>2 DEF AuditInv, LetThrough
  <1>3. QED
    BY <1>1, <1>2 DEF AuditsInv

\* A step of pre_tool_call.
LEMMA PreHookAudits ==
  ASSUME AnswerTypes, AuditsInv, NEW c \in Calls, PreHook(c)
  PROVE  AuditsInv'
  <1> USE DEF pool, rows
  <1>1. AuditInv(c) /\ audits[c] \in 0 .. 2
    BY DEF AuditsInv
  <1>2. CASE HasResult(c)
    <2>1. audits[c] = 0
      BY <1>1, <1>2 DEF HasResult, AuditInv
    <2>2. stage'[c] = "cache" /\ audits' = audits
      BY <1>2 DEF HasResult, Goto, AnswerTypes
    <2>3. AuditInv(c)'
      BY <2>1, <2>2 DEF AuditInv
    <2>4. QED
      BY <1>1, <1>2, <2>3, OthersAudits DEF HasResult, Goto
  <1>3. CASE HookRaises(c) \/ Timeout(c)
    <2>1. PICK a : Return(c, a) /\ UNCHANGED <<config, decision, audits>>
      BY <1>3 DEF HookRaises, Timeout, Failed
    <2>2. audits[c] = 0
      BY <1>1, <1>3 DEF HookRaises, Timeout, AuditInv
    <2>3. AuditInv(c)'
      BY <2>1, <2>2 DEF Return, Goto, AuditInv, AnswerTypes
    <2>4. QED
      BY <1>1, <2>1, <2>3, OthersAudits DEF Return, Goto
  <1>4. CASE PutDecision(c)
    <2>1. audits[c] = 0
      BY <1>1, <1>4 DEF PutDecision, AuditInv
    <2>2. AuditInv(c)'
      BY <1>4, <2>1 DEF PutDecision, Return, Goto, AuditInv, AnswerTypes
    <2>3. QED
      BY <1>1, <1>4, <2>2, OthersAudits DEF PutDecision, Return, Goto
  <1>5. CASE PersistEvent(c)
    <2>1. AuditInv(c)'
      BY <1>1, <1>5 DEF PersistEvent, Goto, AuditInv, AnswerTypes
    <2>2. QED
      BY <1>1, <1>5, <2>1, OthersAudits DEF PersistEvent, Goto
  <1>6. CASE PersistAudit(c)
    <2>1. audits[c] = 0
      BY <1>1, <1>6 DEF PersistAudit, AuditInv
    <2>2. audits' = [audits EXCEPT ![c] = 1] \/ audits' = audits
      BY <1>6, <2>1 DEF PersistAudit, Audited
    <2>3. audits'[c] \in {0, 1}
      BY <2>1, <2>2 DEF AuditsInv
    <2>4. AuditInv(c)'
      BY <1>6, <2>3 DEF PersistAudit, Return, Goto, AuditInv, AnswerTypes
    <2>5. QED
      BY <1>6, <2>2, <2>4, OthersAudits DEF PersistAudit, Return, Goto
  <1>7. CASE FindCandidate(c) \/ PersistCandidate(c) \/ PersistFails(c)
    <2>1. /\ stage[c] \in {"find", "create"}
          /\ UNCHANGED <<config, decision, audits>>
      BY <1>7 DEF FindCandidate, PersistCandidate, PersistFails
    <2>2. audits[c] \in {0, 1} /\ decision[c] = "candidate"
      BY <1>1, <2>1 DEF AuditInv
    <2>3. CASE Goto(c, "create") /\ UNCHANGED answer
      <3>1. AuditInv(c)'
        BY <2>1, <2>2, <2>3 DEF Goto, AuditInv, AnswerTypes
      <3>2. QED
        BY <1>1, <2>1, <2>3, <3>1, OthersAudits DEF Goto
    <2>4. CASE Return(c, "routed") \/ Failed(c)
      <3>1. PICK a \in {"routed", "refused", "pass"} :
              Return(c, a) /\ (a = "pass" => config.failOpen)
        BY <2>4 DEF Failed
      <3>2. AuditInv(c)'
        BY <2>1, <2>2, <3>1 DEF Return, Goto, AuditInv, LetThrough, AnswerTypes
      <3>3. QED
        BY <1>1, <2>1, <3>1, <3>2, OthersAudits DEF Return, Goto
    <2>5. QED
      BY <1>7, <2>3, <2>4 DEF FindCandidate, PersistCandidate, PersistFails
  <1>8. QED
    BY <1>2, <1>3, <1>4, <1>5, <1>6, <1>7 DEF PreHook

\* A step of post_tool_call.
LEMMA PostHookAudits ==
  ASSUME AnswerTypes, AuditsInv, NEW c \in Calls, PostHook(c)
  PROVE  AuditsInv'
  <1> USE DEF pool, rows
  <1>1. AuditInv(c) /\ audits[c] \in 0 .. 2
    BY DEF AuditsInv
  <1>2. CASE PostAudit(c)
    <2>1. stage[c] = "postAudit" /\ audits[c] \in {0, 1}
      BY <1>1, <1>2 DEF PostAudit, AuditInv
    <2>2. CASE audits' = audits
      <3>1. AuditInv(c)'
        BY <1>1, <1>2, <2>2 DEF PostAudit, Goto, AuditInv, LetThrough, AnswerTypes
      <3>2. QED
        BY <1>1, <1>2, <2>2, <3>1, OthersAudits DEF PostAudit, Goto
    <2>3. CASE audits' = [audits EXCEPT ![c] = @ + 1]
      <3>1. audits'[c] = audits[c] + 1
        BY <2>3 DEF AuditsInv
      <3>2. AuditInv(c)'
        BY <1>1, <1>2, <2>1, <3>1 DEF PostAudit, Goto, AuditInv, LetThrough, AnswerTypes
      <3>3. PICK n \in 0 .. 2 : n = audits[c] + 1
        BY <2>1
      <3>4. QED
        BY <1>2, <2>3, <3>2, <3>3, OthersAudits DEF PostAudit, Goto
    <2>4. QED
      BY <1>2, <2>2, <2>3 DEF PostAudit, Audited
  <1>3. CASE ~ PostAudit(c)
    <2>1. /\ stage[c] \in {"passed", "postEvent", "finalise", "postFind", "postCreate"}
          /\ UNCHANGED <<config, decision, answer, audits>>
      BY <1>3 DEF PostHook, PopDecision, PopRaises, PostEvent, Finalise, PostFind, PostCandidate
    <2>2. PICK s : /\ Goto(c, s)
                   /\ s \in {"postEvent", "postAudit", "finalise", "postFind", "postCreate", "end"}
                   /\ s \in {"postEvent", "postAudit"} => stage[c] \in {"passed", "postEvent"}
      BY <1>3 DEF PostHook, PopDecision, PopRaises, PostEvent, Finalise, PostFind, PostCandidate
    <2>3. AuditInv(c)'
      BY <1>1, <2>1, <2>2 DEF Goto, AuditInv, LetThrough, AnswerTypes
    <2>4. QED
      BY <1>1, <2>1, <2>2, <2>3, OthersAudits DEF Goto
  <1>4. QED
    BY <1>2, <1>3

LEMMA NextAudits == IInv /\ AuditsInv /\ [Next]_vars => AuditsInv'
  <1> SUFFICES ASSUME IInv, AuditsInv, [Next]_vars
               PROVE  AuditsInv'
    OBVIOUS
  <1> USE DEF pool, rows
  <1>1. AnswerTypes
    BY DEF IInv
  <1>2. CASE UNCHANGED <<config, stage, decision, answer, audits>>
    BY <1>2 DEF AuditsInv, AuditInv, LetThrough
  <1>3. ASSUME NEW c \in Calls, Submit(c)
        PROVE  AuditsInv'
    <2>1. AuditInv(c) /\ audits[c] \in 0 .. 2
      BY DEF AuditsInv
    <2>2. AuditInv(c)'
      BY <1>1, <1>3, <2>1 DEF Submit, AuditInv, AnswerTypes
    <2>3. QED
      BY <1>1, <1>3, <2>1, <2>2, OthersAudits DEF Submit
  <1>4. CASE Restart
    <2>1. UNCHANGED <<config, decision, answer, audits>>
      BY <1>4 DEF Restart
    <2>2. ASSUME NEW c \in Calls
          PROVE  AuditInv(c)'
      <3>1. AuditInv(c) /\ stage'[c] \in {stage[c], "lost"}
        BY <1>4 DEF AuditsInv, Restart
      <3>2. QED
        BY <2>1, <3>1 DEF AuditInv, LetThrough
    <2>3. QED
      BY <2>1, <2>2 DEF AuditsInv
  <1>5. QED
    BY <1>1, <1>2, <1>3, <1>4, PreHookAudits, PostHookAudits
       DEF Next, vars, TakeJob, Expire, Evaluate, CreateFromEvent

\* A decision is audited once, unless it is a candidate decision that could not
\* be stored and was let through (preflight.py:149-166, capture.py:75-76).
THEOREM DecisionAuditedOnce == Spec => []AuditedOnce
  <1>1. Init => AuditsInv
    BY DEF Init, AuditsInv, AuditInv
  <1>2. AuditsInv => AuditedOnce
    BY DEF AuditsInv, AuditInv, LetThrough, AuditedOnce
  <1>3. QED
    BY <1>1, <1>2, Invariant, NextAudits, PTL DEF Spec

----------------------------------------------------------------------------
(* The types: the pool never runs more than its workers, and the cache is   *)
(* an OrderedDict within its bound.                                         *)

PoolInv ==
  /\ queue \in Seq(Calls)
  /\ running \in SUBSET Calls /\ IsFiniteSet(running) /\ Cardinality(running) <= Workers

\* A call has an entry only after its pre hook put one: none is put twice.
CacheInv ==
  /\ cache \in Seq(Calls) /\ IsInjective(cache) /\ Len(cache) <= MaxEntries
  /\ \A c \in Calls : stage[c] \in {"idle", "wait", "cache"} => c \notin ToSet(cache)

RowsTyped ==
  /\ anonymous \in SUBSET Calls
  /\ got \in [Calls -> Decisions \cup {"unknown"}]
  /\ events \in SUBSET Calls
  /\ candidates \in SUBSET Calls

LEMMA NextPool == PoolInv /\ [Next]_vars => PoolInv'
  <1> SUFFICES ASSUME PoolInv, [Next]_vars
               PROVE  PoolInv'
    OBVIOUS
  <1> USE DEF pool, rows
  <1>1. /\ queue \in Seq(Calls) /\ running \in SUBSET Calls /\ IsFiniteSet(running)
        /\ Cardinality(running) \in Nat /\ Cardinality(running) <= Workers /\ Workers \in Nat
    BY FS_CardinalityType, PoolAssumption DEF PoolInv
  <1>2. CASE UNCHANGED pool
    BY <1>2 DEF PoolInv
  <1>3. ASSUME NEW c \in Calls, Submit(c)
        PROVE  PoolInv'
    BY <1>1, <1>3 DEF Submit, PoolInv
  <1>4. CASE TakeJob
    <2>1. /\ Head(queue) \in Calls /\ queue' \in Seq(Calls)
          /\ running' = running \cup {Head(queue)} /\ Cardinality(running) < Workers
      BY <1>1, <1>4 DEF TakeJob
    <2>2. /\ IsFiniteSet(running')
          /\ \/ Cardinality(running') = Cardinality(running)
             \/ Cardinality(running') = Cardinality(running) + 1
      BY <1>1, <2>1, FS_AddElement
    <2>3. QED
      BY <1>1, <2>1, <2>2 DEF PoolInv
  <1>5. ASSUME NEW c \in Calls, Evaluate(c)
        PROVE  PoolInv'
    <2>1. c \in running /\ running' = running \ {c} /\ queue' = queue
      BY <1>5 DEF Evaluate
    <2>2. IsFiniteSet(running') /\ Cardinality(running') = Cardinality(running) - 1
      BY <1>1, <2>1, FS_RemoveElement
    <2>3. QED
      BY <1>1, <2>1, <2>2 DEF PoolInv
  <1>6. ASSUME NEW c \in Calls, Timeout(c)
        PROVE  PoolInv'
    <2>1. queue' = Without(queue, c) /\ running' = running
      BY <1>6 DEF Timeout
    <2>2. QED
      BY <1>1, <2>1, WithoutTyped DEF PoolInv
  <1>7. CASE Restart
    <2>1. queue' = <<>> /\ running' = {}
      BY <1>7 DEF Restart
    <2>2. QED
      BY <1>1, <2>1, FS_EmptySet DEF PoolInv
  <1>8. ASSUME NEW c \in Calls, PreHook(c), ~ Timeout(c)
        PROVE  UNCHANGED pool
    BY <1>8 DEF PreHook, HasResult, HookRaises, PutDecision, PersistEvent, PersistAudit,
                FindCandidate, PersistCandidate, PersistFails
  <1>9. ASSUME NEW c \in Calls, PostHook(c)
        PROVE  UNCHANGED pool
    BY <1>9 DEF PostHook, PopDecision, PopRaises, PostEvent, PostAudit, Finalise, PostFind,
                PostCandidate
  <1>10. QED
    BY <1>2, <1>3, <1>4, <1>5, <1>6, <1>7, <1>8, <1>9
       DEF Next, vars, Expire, CreateFromEvent

\* max_entries bounds what popitem leaves, and the newest entries stay.
LEMMA BoundedIs ==
  ASSUME NEW s \in Seq(Calls), IsInjective(s)
  PROVE  /\ Bounded(s) \in Seq(Calls) /\ IsInjective(Bounded(s))
         /\ Len(Bounded(s)) <= MaxEntries
         /\ ToSet(Bounded(s)) \subseteq ToSet(s)
  <1>1. Len(s) \in Nat /\ MaxEntries \in Nat
    BY CacheAssumption
  <1>2. CASE Len(s) > MaxEntries
    <2>1. PICK n \in 0 .. Len(s) : n = Len(s) - MaxEntries
      BY <1>1, <1>2
    <2>2. Bounded(s) = SubSeq(s, n + 1, Len(s)) /\ Len(s) - n = MaxEntries
      BY <1>1, <1>2, <2>1 DEF Bounded
    <2>3. /\ SubSeq(s, n + 1, Len(s)) \in Seq(Calls)
          /\ IsInjective(SubSeq(s, n + 1, Len(s)))
          /\ Len(SubSeq(s, n + 1, Len(s))) = Len(s) - n
          /\ ToSet(SubSeq(s, n + 1, Len(s))) \subseteq ToSet(s)
      BY SuffixIs
    <2>4. QED
      BY <1>1, <2>2, <2>3
  <1>3. CASE ~ (Len(s) > MaxEntries)
    BY <1>1, <1>3 DEF Bounded
  <1>4. QED
    BY <1>2, <1>3

LEMMA NextCache == AnswerTypes /\ CacheInv /\ [Next]_vars => CacheInv'
  <1> SUFFICES ASSUME AnswerTypes, CacheInv, [Next]_vars
               PROVE  CacheInv'
    OBVIOUS
  <1> USE DEF pool, rows
  <1> DEFINE Early == {"idle", "wait", "cache"}
  <1>1. /\ stage \in [Calls -> Stages]
        /\ cache \in Seq(Calls) /\ IsInjective(cache) /\ Len(cache) <= MaxEntries
        /\ Len(cache) \in Nat /\ MaxEntries \in Nat
    BY CacheAssumption DEF AnswerTypes, CacheInv
  <1>2. ASSUME cache' \in Seq(Calls), IsInjective(cache'), Len(cache') <= MaxEntries,
               ToSet(cache') \subseteq ToSet(cache),
               \A c \in Calls : stage'[c] \in Early => stage[c] \in Early
        PROVE  CacheInv'
    BY <1>2 DEF CacheInv
  <1>3. ASSUME UNCHANGED cache, \A c \in Calls : stage'[c] \in Early => stage[c] \in Early
        PROVE  CacheInv'
    BY <1>1, <1>2, <1>3
  <1>4. CASE UNCHANGED <<cache, stage>>
    BY <1>3, <1>4
  <1>5. ASSUME NEW c \in Calls, Submit(c)
        PROVE  CacheInv'
    BY <1>1, <1>3, <1>5 DEF Submit
  <1>6. ASSUME NEW c \in Calls, HasResult(c) \/ HookRaises(c) \/ Timeout(c) \/ PersistEvent(c)
               \/ PersistAudit(c) \/ FindCandidate(c) \/ PersistCandidate(c) \/ PersistFails(c)
        PROVE  CacheInv'
    <2>1. UNCHANGED cache
      BY <1>6 DEF HasResult, HookRaises, Timeout, PersistEvent, PersistAudit, FindCandidate,
                  PersistCandidate, PersistFails
    <2>2. \E s : stage' = [stage EXCEPT ![c] = s] /\ (s \in Early => stage[c] \in Early)
      BY <1>6 DEF HasResult, HookRaises, Timeout, PersistEvent, PersistAudit, FindCandidate,
                  PersistCandidate, PersistFails, Failed, Return, Goto
    <2>3. QED
      BY <1>1, <1>3, <2>1, <2>2
  <1>7. ASSUME NEW c \in Calls, PutDecision(c)
        PROVE  CacheInv'
    <2>1. stage[c] = "cache" /\ cache' = Bounded(Append(cache, c))
      BY <1>7 DEF PutDecision
    <2>2. PICK s : stage' = [stage EXCEPT ![c] = s] /\ s \notin Early
      BY <1>7 DEF PutDecision, Return, Goto
    <2>3. c \notin ToSet(cache)
      BY <2>1 DEF CacheInv
    <2>4. /\ Append(cache, c) \in Seq(Calls) /\ IsInjective(Append(cache, c))
          /\ ToSet(Append(cache, c)) = ToSet(cache) \cup {c}
      BY <1>1, <2>3, AppendIs
    <2>5. /\ cache' \in Seq(Calls) /\ IsInjective(cache') /\ Len(cache') <= MaxEntries
          /\ ToSet(cache') \subseteq ToSet(cache) \cup {c}
      BY <2>1, <2>4, BoundedIs
    <2>6. ASSUME NEW d \in Calls, stage'[d] \in Early
          PROVE  d \notin ToSet(cache')
      BY <1>1, <2>2, <2>5, <2>6 DEF CacheInv
    <2>7. QED
      BY <2>5, <2>6 DEF CacheInv
  <1>8. ASSUME NEW c \in Calls, PostHook(c)
        PROVE  CacheInv'
    <2>1. cache' = cache \/ cache' = Without(cache, c)
      BY <1>8 DEF PostHook, PopDecision, PopRaises, PostEvent, PostAudit, Finalise, PostFind,
                  PostCandidate
    <2>2. PICK s : stage' = [stage EXCEPT ![c] = s] /\ s \notin Early
      BY <1>8 DEF PostHook, PopDecision, PopRaises, PostEvent, PostAudit, Finalise, PostFind,
                  PostCandidate, Goto
    <2>3. /\ Without(cache, c) \in Seq(Calls) /\ IsInjective(Without(cache, c))
          /\ ToSet(Without(cache, c)) = ToSet(cache) \ {c}
          /\ Len(Without(cache, c)) <= MaxEntries
      BY <1>1, WithoutIs
    <2>4. \A d \in Calls : stage'[d] \in Early => stage[d] \in Early
      BY <1>1, <2>2
    <2>5. QED
      BY <1>1, <1>2, <2>1, <2>3, <2>4
  <1>9. CASE Expire
    <2>1. cache # <<>> /\ cache' = Tail(cache) /\ stage' = stage
      BY <1>9 DEF Expire
    <2>2. /\ cache' \in Seq(Calls) /\ IsInjective(cache') /\ Len(cache') = Len(cache) - 1
          /\ ToSet(cache') \subseteq ToSet(cache)
      BY <1>1, <2>1, TailIs
    <2>3. QED
      BY <1>1, <1>2, <2>1, <2>2
  <1>10. CASE Restart
    <2>1. cache' = <<>> /\ \A c \in Calls : stage'[c] \in {stage[c], "lost"}
      BY <1>10 DEF Restart
    <2>2. /\ cache' \in Seq(Calls) /\ IsInjective(cache') /\ Len(cache') = 0
          /\ ToSet(cache') = {}
      BY <2>1 DEF IsInjective, ToSet
    <2>3. QED
      BY <1>1, <1>2, <2>1, <2>2
  <1>11. QED
    BY <1>4, <1>5, <1>6, <1>7, <1>8, <1>9, <1>10
       DEF Next, vars, TakeJob, Evaluate, CreateFromEvent, PreHook

LEMMA NextRows == AnswerTypes /\ RowsTyped /\ [Next]_vars => RowsTyped'
  <1> SUFFICES ASSUME AnswerTypes, RowsTyped, [Next]_vars
               PROVE  RowsTyped'
    OBVIOUS
  <1> USE DEF pool, rows
  <1>1. CASE UNCHANGED <<anonymous, got, events, candidates>>
    BY <1>1 DEF RowsTyped
  <1>2. ASSUME NEW c \in Calls, PreHook(c)
        PROVE  RowsTyped'
    BY <1>2 DEF PreHook, HasResult, HookRaises, Timeout, PutDecision, PersistEvent,
                PersistAudit, FindCandidate, PersistCandidate, PersistFails, Recorded,
                RowsTyped
  <1>3. ASSUME NEW c \in Calls, PostHook(c)
        PROVE  RowsTyped'
    BY <1>3 DEF PostHook, PopDecision, PopRaises, PostEvent, PostAudit, Finalise, PostFind,
                PostCandidate, Recorded, RowsTyped, AnswerTypes
  <1>4. ASSUME NEW c \in Calls, CreateFromEvent(c)
        PROVE  RowsTyped'
    BY <1>4 DEF CreateFromEvent, RowsTyped
  <1>5. QED
    BY <1>1, <1>2, <1>3, <1>4
       DEF Next, vars, TakeJob, Expire, Restart, Submit, Evaluate

\* The pool never evaluates more calls than it has workers, and the cache holds
\* a call once and max_entries calls at most, whatever times out, expires or
\* restarts; the rest of TypeOK with it.
THEOREM HookTypeCorrect == Spec => []TypeOK
  <1>1. Init => PoolInv /\ CacheInv /\ RowsTyped
    <2>1. SUFFICES ASSUME Init
                   PROVE  PoolInv /\ CacheInv /\ RowsTyped
      OBVIOUS
    <2>2. PoolInv
      BY <2>1, FS_EmptySet, PoolAssumption DEF Init, PoolInv
    <2>3. CacheInv
      BY <2>1, CacheAssumption DEF Init, CacheInv, IsInjective, ToSet
    <2>4. RowsTyped
      BY <2>1 DEF Init, RowsTyped
    <2>5. QED
      BY <2>2, <2>3, <2>4
  <1>2. Init => AuditsInv
    BY DEF Init, AuditsInv, AuditInv
  <1>3. IInv => AnswerTypes
    BY DEF IInv
  <1>4. IInv /\ AuditsInv /\ PoolInv /\ CacheInv /\ RowsTyped => TypeOK
    BY Zenon DEF IInv, AnswerTypes, AuditsInv, PoolInv, CacheInv, RowsTyped, TypeOK
  <1>5. QED
    BY <1>1, <1>2, <1>3, <1>4, Invariant, NextAudits, NextPool, NextCache, NextRows, PTL
       DEF Spec
=============================================================================
