------------------------------- MODULE Review -------------------------------
(***************************************************************************)
(* devops_core/review: the best-practice review of one resource.  A world  *)
(* has for each setting the rules look at "good", "bad" or, when AWS does  *)
(* not tell it, "unset", and the requests that fail.                       *)
(*                                                                         *)
(* A rule is [id, severity, asks, unset]: the request it depends on, and   *)
(* whether it also fires on a setting that is not told.  Which values are  *)
(* bad is left to the settings; the rules about a Lambda function's code   *)
(* are left out.                                                           *)
(***************************************************************************)
EXTENDS Integers, Sequences, FiniteSets, SequencesExt, Ordering

Rule(id, severity, asks, unset) ==
  [id |-> id, severity |-> severity, asks |-> asks, unset |-> unset]

\* A function without architectures runs on x86.
LambdaReview ==
  <<Rule("arch.graviton", "low", "config", TRUE),
    Rule("duration.near_timeout", "medium", "Duration", FALSE),
    Rule("env.plaintext_secret", "high", "config", FALSE),
    Rule("errors.present", "high", "Errors", FALSE),
    Rule("memory.default", "medium", "config", FALSE),
    Rule("runtime.deprecated", "high", "config", FALSE),
    Rule("throttles.present", "high", "Throttles", FALSE),
    Rule("tracing.disabled", "low", "config", FALSE)>>

\* The two about the CPU exclude each other.
Ec2Review ==
  <<Rule("cpu.saturated", "medium", "CPUUtilization", FALSE),
    Rule("cpu.underutilized", "medium", "CPUUtilization", FALSE),
    Rule("ebs.not_optimized", "low", "config", FALSE),
    Rule("gen.previous", "medium", "config", FALSE),
    Rule("monitoring.disabled", "low", "config", FALSE),
    Rule("public_ip", "info", "config", FALSE)>>

RdsReview ==
  <<Rule("backups.disabled", "high", "config", FALSE),
    Rule("encryption.disabled", "critical", "config", FALSE),
    Rule("gen.previous", "medium", "config", FALSE),
    Rule("multiaz.disabled", "high", "config", FALSE),
    Rule("perf_insights.off", "low", "config", FALSE),
    Rule("public", "critical", "config", FALSE),
    Rule("storage.gp3", "low", "config", FALSE)>>

\* What a bucket does not tell is not set.
S3Review ==
  <<Rule("encryption.missing", "high", "encryption", TRUE),
    Rule("lifecycle.missing", "low", "lifecycle", TRUE),
    Rule("logging.missing", "low", "logging", TRUE),
    Rule("public_access.open", "critical", "public_access_block", TRUE),
    Rule("versioning.disabled", "medium", "versioning", TRUE)>>

Rules(service) ==
  CASE service = "lambda" -> LambdaReview
    [] service = "ec2"    -> Ec2Review
    [] service = "rds"    -> RdsReview
    [] service = "s3"     -> S3Review
    [] OTHER              -> <<>>

Severity == <<"critical", "high", "medium", "low", "info">>

-----------------------------------------------------------------------------
(* fetch.py: what is read, and the findings.                               *)

\* Without its configuration nothing else is asked of a resource; a bucket has
\* no configuration, only five settings of their own.
Unread(service, w) == service # "s3" /\ "config" \in w.fails

\* A setting whose request fails is like one that is not set.
Read(rule, w) == IF rule.asks \in w.fails THEN "unset" ELSE w.settings[rule.id]

Fires(rule, w) == Read(rule, w) = "bad" \/ (Read(rule, w) = "unset" /\ rule.unset)

Findings(service, w) ==
  IF Unread(service, w) THEN <<>>
  ELSE Among(Rules(service), {i \in DOMAIN Rules(service) : Fires(Rules(service)[i], w)})

\* A failed configuration is noted, and so is each setting of a bucket; a
\* metric that fails is not.
ReviewNotes(service, w) ==
  CASE Rules(service) = <<>> -> {"noreviewer"}
    [] service = "s3"        -> w.fails
    [] OTHER                 -> w.fails \cap {"config"}

-----------------------------------------------------------------------------
(* ServiceReview.to_dict.                                                  *)

\* _RANK, from the worst
Rank(severity) == CHOOSE i \in DOMAIN Severity : Severity[i] = severity

\* sorted by severity and then by id, in which order the rules stand above.
SortedFindings(found) == Descending(found, [i \in DOMAIN found |-> -Rank(found[i].severity)])

Cut(found, limit) == IF limit = 0 \/ limit >= Len(found) THEN found ELSE SubSeq(found, 1, limit)

\* Mutant of Limited: the first findings, in the order of the rules.
LimitedUnsorted(found, limit) == Cut(found, limit)

\* A limit of 0 is no limit.
Limited(found, limit) == Cut(SortedFindings(found), limit)

ReviewService(service, w, limit) ==
  LET found == Findings(service, w) IN
  [count      |-> Len(found),
   bySeverity |-> [s \in {f.severity : f \in ToSet(found)} |->
                     Cardinality({i \in DOMAIN found : found[i].severity = s})],
   findings   |-> Limited(found, limit),
   notes      |-> ReviewNotes(service, w)]

-----------------------------------------------------------------------------
(* What a review owes its reader.                                          *)

\* However short the list is cut, its count and its counts by severity are of
\* everything that was found, nothing is cut that there was room for, and nothing
\* that is cut is worse than what is shown.
ShowsWorst(review, service, w, limit) ==
  LET found == ToSet(Findings(service, w))
      shown == ToSet(review.findings)
  IN /\ review.count = Cardinality(found) /\ Len(review.findings) = Cardinality(shown)
     /\ review.bySeverity = [s \in {f.severity : f \in found} |->
                               Cardinality({f \in found : f.severity = s})]
     /\ shown \subseteq found /\ (shown # found => Len(review.findings) = limit)
     /\ \A f \in found \ shown, g \in shown : Rank(g.severity) <= Rank(f.severity)

\* What could not be read is never held against the resource, except for the
\* settings of a bucket and the architecture of a function, which AWS leaves
\* out when they have their default.
BlamesWhatItRead(review, service, w) ==
  \A f \in ToSet(review.findings) : w.settings[f.id] # "bad" \/ f.asks \in w.fails => f.unset

=============================================================================
