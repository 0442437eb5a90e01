---------------------------- MODULE PromotionFlow ----------------------------
(***************************************************************************)
(* Who calls the candidate tables of CandidateStore, and in which order:   *)
(*   - reviewers: the skill_guard_candidates, skill_guard_promote and      *)
(*     skill_guard_relations tools and the same commands of the CLI;       *)
(*   - hooks: post_tool_call, which finalises a promotion attempt when it  *)
(*     observes the official skill_manage tool;                            *)
(*   - scanners: AutoPromoter.scan, which lists the approved candidates    *)
(*     once, and for each that passes the gates opens an attempt and, in a *)
(*     second transaction, transitions the candidate to promoted.  A scan  *)
(*     that is not enabled, or is a dry run, writes nothing: no scanner.   *)
(* mark_dangling_candidates has no caller in the program and is left out.  *)
(***************************************************************************)
EXTENDS CandidateStore, FiniteSets

CONSTANTS Reviewers, Hooks, Scanners,
          RelationTypes,  \* skill_relations.relation_type
          Gates,          \* the types a gate is required for: conflict, duplicate
          MaxRelations    \* bound: the rows of skill_relations at one time

ASSUME GatesAssumption == Gates \subseteq RelationTypes

\* A connection serves one call: no client is a scanner and something else.
ASSUME CallersAssumption ==
  /\ Clients = Reviewers \cup Hooks \cup Scanners
  /\ Scanners \cap (Reviewers \cup Hooks) = {}

\* Candidates are numbered in the order they are created.
ASSUME CandidatesAssumption == Candidates \subseteq Nat /\ IsFiniteSet(Candidates)

VARIABLES
  scan,       \* what each scanner has still to visit, and where it is
  relations,  \* the rows of skill_relations
  clear       \* history: the candidates that were, at some moment since they
              \* were approved, in no relation a gate looks for

flowVars == <<vars, scan, relations, clear>>

NotScanning == [stage |-> "off", queue |-> <<>>]
Stages == {"off", "visit", "passed", "attempt", "attempted", "transition"}

FlowTypeOK ==
  /\ TypeOK
  /\ scan \in [Scanners -> [stage : Stages, queue : Seq(Candidates)]]
  /\ relations \in SUBSET [source : Candidates, target : Candidates, type : RelationTypes]
  /\ clear \in SUBSET Candidates

FlowInit ==
  /\ Init
  /\ scan = [k \in Scanners |-> NotScanning]
  /\ relations = {}
  /\ clear = {}

----------------------------------------------------------------------------
(* Relations.                                                              *)

\* Mutation of Related: the SELECT looks at the source side only.
RelatedAsSource(c) == {r \in relations : r.source = c}

\* find_related_candidates
Related(c) == {r \in relations : r.source = c \/ r.target = c}

\* The relation gates of _evaluate_candidate stop c.
Gated(c) == \E r \in Related(c) : r.type \in Gates

\* The handler wants both candidates in the table, add_relation two different
\* ones, and the table no row twice.
AddRelation(k, r) ==
  /\ op[k] = Idle
  /\ r.source # r.target
  /\ status[r.source] # "none" /\ status[r.target] # "none"
  /\ r \notin relations
  /\ Cardinality(relations) < MaxRelations
  /\ relations' = relations \cup {r}
  /\ UNCHANGED <<vars, scan>>

RemoveRelation(k, r) ==
  /\ op[k] = Idle
  /\ r \in relations
  /\ relations' = relations \ {r}
  /\ UNCHANGED <<vars, scan>>

Relate(k) ==
  \E c, d \in Candidates, t \in RelationTypes :
    LET r == [source |-> c, target |-> d, type |-> t]
    IN AddRelation(k, r) \/ RemoveRelation(k, r)

----------------------------------------------------------------------------
(* Reviewers.                                                              *)

\* stage, approve, reject and archive.
ReviewTargets == {"candidate", "approved", "rejected", "archived"}

CreateNext(k, p) ==
  \E c \in Candidates :
    /\ \A d \in Candidates : d < c => status[d] # "none"
    /\ CreateCandidate(k, c, p)

Review(k) ==
  /\ UNCHANGED <<scan, relations>>
  /\ \/ \E p \in BOOLEAN : CreateNext(k, p)
     \/ \E c \in Candidates, to \in ReviewTargets : StartTransition(k, c, to)
     \/ CommitTransition(k)
     \/ \E c \in Candidates : StartPromote(k, c)
     \/ \E a \in Attempts : CommitPromote(k, a)
     \/ Abort(k)

(* Hooks.  The attempt is the one the call names or, failing that, the      *)
(* newest pending one of the skill's name: any pending attempt.             *)
Observe(k) ==
  /\ UNCHANGED <<scan, relations>>
  /\ \/ \E a \in Attempts, succeeded \in BOOLEAN : StartComplete(k, a, succeeded)
     \/ CompleteSucceeded(k)
     \/ CompleteFailed(k)
     \/ Abort(k)

----------------------------------------------------------------------------
(* Scanners.                                                               *)

Current(k) == Head(scan[k].queue)
Goto(k, stage) == scan' = [scan EXCEPT ![k].stage = stage]
NextCandidate(k) == scan' = [scan EXCEPT ![k] = [stage |-> "visit", queue |-> Tail(@.queue)]]
StopScan(k) == scan' = [scan EXCEPT ![k] = NotScanning]

\* Mutation of NewestFirst: ORDER BY created_at ASC.
OldestFirst(cs) ==
  {q \in [1 .. Cardinality(cs) -> cs] : \A i, j \in DOMAIN q : i < j => q[i] < q[j]}

\* list_candidates orders by created_at, newest first: the one sequence that does.
NewestFirst(cs) ==
  {q \in [1 .. Cardinality(cs) -> cs] : \A i, j \in DOMAIN q : i < j => q[i] > q[j]}

BeginScan(k) ==
  /\ scan[k].stage = "off"
  /\ \E q \in NewestFirst({c \in Candidates : status[c] = "approved"}) :
       scan' = [scan EXCEPT ![k] = [stage |-> "visit", queue |-> q]]
  /\ UNCHANGED vars

Visiting(k) == scan[k].stage = "visit" /\ scan[k].queue # <<>>

\* _evaluate_candidate reads the relations: no gate stops the candidate ...
PassGates(k) ==
  /\ Visiting(k)
  /\ ~ Gated(Current(k))
  /\ Goto(k, "passed")
  /\ UNCHANGED vars

\* ... or one does.
GateHolds(k) ==
  /\ Visiting(k)
  /\ Gated(Current(k))
  /\ NextCandidate(k)
  /\ UNCHANGED vars

\* The time gate comes before them: reviewed_at is too recent.
TooYoung(k) == Visiting(k) /\ NextCandidate(k) /\ UNCHANGED vars

\* Mutation of OpenAttempt: the candidate is transitioned before the attempt.
TransitionFirst(k) ==
  /\ scan[k].stage = "passed"
  /\ StartTransition(k, Current(k), "promoted")
  /\ Goto(k, "transition")

\* _promote: create_promotion_attempt ...
OpenAttempt(k) ==
  /\ scan[k].stage = "passed"
  /\ StartPromote(k, Current(k))
  /\ Goto(k, "attempt")

AttemptOpened(k) ==
  /\ scan[k].stage = "attempt"
  /\ \E a \in Attempts : CommitPromote(k, a)
  /\ Goto(k, "attempted")

\* ... then transition_candidate.
PromoteCurrent(k) ==
  /\ scan[k].stage = "attempted"
  /\ StartTransition(k, Current(k), "promoted")
  /\ Goto(k, "transition")

CurrentPromoted(k) ==
  /\ scan[k].stage = "transition"
  /\ CommitTransition(k)
  /\ NextCandidate(k)

\* create_promotion_attempt and transition_candidate raise on a candidate that
\* is no longer approved, or is not promotable.  Nothing in scan catches it:
\* the candidates after it are not visited.
ScanRaises(k) ==
  /\ \/ scan[k].stage = "passed" /\ ~ MayPromote(Current(k))
     \/ scan[k].stage = "attempted" /\ ~ MayTransition(Current(k), "promoted")
  /\ StopScan(k)
  /\ UNCHANGED vars

\* A transaction fails, or the process dies between two of them.
ScanAborts(k) ==
  /\ scan[k].stage # "off"
  /\ StopScan(k)
  /\ op' = [op EXCEPT ![k] = Idle]
  /\ UNCHANGED <<status, promotable, reviewedAt, promotedAt, transitions, attempts>>

EndScan(k) ==
  /\ scan[k].stage = "visit" /\ scan[k].queue = <<>>
  /\ StopScan(k)
  /\ UNCHANGED vars

Scan(k) ==
  /\ UNCHANGED relations
  /\ \/ BeginScan(k) \/ PassGates(k) \/ GateHolds(k) \/ TooYoung(k)
     \/ OpenAttempt(k) \/ AttemptOpened(k) \/ PromoteCurrent(k) \/ CurrentPromoted(k)
     \/ ScanRaises(k) \/ ScanAborts(k) \/ EndScan(k)

\* A relation of a gated type has c on either side.
InConflict(c) == \E r \in relations : c \in {r.source, r.target} /\ r.type \in Gates

\* The history of every step.
Recalled ==
  clear' = clear \cup {c \in Candidates : Visited(c, "approved")' /\ ~ InConflict(c)'}

FlowNext ==
  /\ \/ \E k \in Reviewers : Review(k) \/ Relate(k)
     \/ \E k \in Hooks : Observe(k)
     \/ \E k \in Scanners : Scan(k)
  /\ Recalled

FlowSpec == FlowInit /\ [][FlowNext]_flowVars

(* Scans that go on: the tool is called again whenever a scan has ended,    *)
(* every candidate is old enough, no transaction fails, and the reviewer    *)
(* decides on statuses and relations but opens no attempt of its own.       *)
Decide(k) ==
  /\ UNCHANGED <<scan, relations>>
  /\ \/ \E p \in BOOLEAN : CreateNext(k, p)
     \/ \E c \in Candidates, to \in ReviewTargets : StartTransition(k, c, to)
     \/ CommitTransition(k)

ScanOn(k) ==
  /\ UNCHANGED relations
  /\ \/ BeginScan(k) \/ PassGates(k) \/ GateHolds(k) \/ OpenAttempt(k)
     \/ AttemptOpened(k) \/ PromoteCurrent(k) \/ CurrentPromoted(k)
     \/ ScanRaises(k) \/ EndScan(k)

ScanNext ==
  /\ \/ \E k \in Reviewers : Decide(k) \/ Relate(k)
     \/ \E k \in Scanners : ScanOn(k)
  /\ Recalled

ScanSpec ==
  /\ FlowInit
  /\ [][ScanNext]_flowVars
  /\ \A k \in Scanners : WF_flowVars(ScanOn(k) /\ Recalled)

----------------------------------------------------------------------------
\* Whoever promotes a candidate, tool, hook or scanner, an attempt was opened
\* for it first: the trail has no promotion without a promotion_attempts row.
PromotedHasAttempt ==
  \A c \in Candidates :
    Visited(c, "promoted") => \E a \in Attempts : attemptOf[a] = c

\* A candidate created with promotable = 0 is never promoted, whoever tries,
\* although transition_candidate itself does not look at the flag.  (The hook
\* pre_tool_call derives it from the content; post_tool_call, tool and CLI create
\* every candidate with promotable = 1.)
NeverPromotesUnpromotable ==
  \A c \in Candidates : Visited(c, "promoted") => promotable[c]

\* auto_promoter.py: a scan promotes only "those that have met ... the
\* configured safety gates (no conflicts / no duplicates)".  The relations are
\* read long before the two writes and a reviewer may add one in between, so
\* what holds is that a scan only goes on with a candidate that was, since it
\* was approved, free of such relations, on either side of them: one in a
\* conflict from its approval on is never promoted by a scan.
ScansPromoteOnlyClear ==
  \A k \in Scanners :
    scan[k].stage \in {"passed", "attempt", "attempted", "transition"} => Current(k) \in clear

\* A newer candidate that is approved and not promotable, at which a scan raises.
BlockedBy(c, d) == d > c /\ status[d] = "approved" /\ ~ promotable[d]

\* auto_promoter.py: the tool is to "scan approved candidates and auto-promote
\* those that meet configured gates".  While scans go on, a promotable approved
\* candidate does not stay approved for ever, unless a gate holds it or a newer
\* candidate stops every scan before it is reached.
UnblockedLeaves ==
  \A c \in Candidates :
    (status[c] = "approved" /\ promotable[c]) ~>
      (status[c] # "approved" \/ InConflict(c) \/ \E d \in Candidates : BlockedBy(c, d))
=============================================================================
