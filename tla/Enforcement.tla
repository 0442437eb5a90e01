----------------------------- MODULE Enforcement -----------------------------
(***************************************************************************)
(* PreflightPolicy.evaluate, stage 3: what becomes of the highest severity *)
(* of the rules that fired, under enforcement.mode and dry_run.            *)
(***************************************************************************)

\* "none": no rule fired, or the call is outside the policy's boundary.
Severities == {"none", "info", "warn", "candidate", "block"}
Decisions == {"allow", "warn", "candidate", "block"}
Modes == {"audit", "candidate", "block"}
Enforcing == {"candidate", "block"}

Escalated(mode, severity) ==
  CASE mode = "candidate" /\ severity = "warn" -> "candidate"
    [] mode = "block" /\ severity \in {"warn", "candidate"} -> "block"
    [] severity = "info" -> "allow"
    [] OTHER -> severity

\* Mutation of Verdict: dry_run is applied before the mode.
VerdictDryRunFirst(config, severity) ==
  IF severity = "none" THEN "allow"
  ELSE Escalated(config.mode, IF config.dryRun THEN "warn" ELSE severity)

Verdict(config, severity) ==
  IF severity = "none" THEN "allow"
  ELSE IF config.dryRun THEN "warn" ELSE Escalated(config.mode, severity)
=============================================================================
