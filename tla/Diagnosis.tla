----------------------------- MODULE Diagnosis -----------------------------
(***************************************************************************)
(* devops_core/diagnose: the signals about a resource, the hypotheses they *)
(* support and what of them a posture shows.                               *)
(*                                                                         *)
(* A world has the service and the name of the resource, the kinds of the  *)
(* lines its log has for the filter ("other" is a line no rule knows), the *)
(* alarms that are on, [metric, about], the events of the trail, and the   *)
(* requests that fail.                                                     *)
(***************************************************************************)
EXTENDS ActionModes, Integers, Sequences, SequencesExt, Ordering

LogKinds ==
  {"timeout", "import", "access", "throttled", "memory", "errors", "other"}

IsDiagnosisWorld(w) == w.logs \subseteq LogKinds /\ w.events \in Seq(STRING)

-----------------------------------------------------------------------------
(* signals.py: a request that fails tells of nothing.                      *)

ActiveAlarms(w) ==
  IF "alarms" \in w.fails THEN {} ELSE {a.metric : a \in {b \in w.alarms : b.about = w.resource}}

\* Only functions have a log group that is known.
RecentLogErrors(w) ==
  IF "logs" \in w.fails \/ w.service # "lambda" THEN {} ELSE w.logs

RecentChanges(w) ==
  IF "trail" \in w.fails THEN <<>> ELSE Among(w.events, {i \in DOMAIN w.events : w.events[i] # "read"})

Signals(w) ==
  [alarms |-> ActiveAlarms(w), logs |-> RecentLogErrors(w), changes |-> RecentChanges(w)]

-----------------------------------------------------------------------------
(* correlate: the rules in their order.                                    *)

Hypothesis(cause, confidence, category, command) ==
  [cause |-> cause, confidence |-> confidence, category |-> category, command |-> command]

\* The rules about a function; each looks for lines of its own kind.
LambdaRules ==
  <<Hypothesis("timeout",     "high",   "reliability", TRUE),
    Hypothesis("import", "high",   "config",      FALSE),
    Hypothesis("access", "high",   "security",    FALSE),
    Hypothesis("throttled",     "high",   "reliability", TRUE),
    Hypothesis("memory", "medium", "reliability", TRUE)>>

Unhandled == Hypothesis("errors", "medium", "reliability", FALSE)

\* Throttling shows in the log or in an alarm.
OfLogs(service, signals) ==
  LET shown == signals.logs \cup IF "throttles" \in signals.alarms THEN {"throttled"} ELSE {}
      found == Among(LambdaRules, {i \in DOMAIN LambdaRules : LambdaRules[i].cause \in shown})
  IN IF service # "lambda" THEN <<>>
     ELSE IF found = <<>> /\ "errors" \in signals.logs THEN <<Unhandled>> ELSE found

AlarmRules ==
  <<[metric |-> "statuscheckfailed",
     says |-> Hypothesis("status", "high", "reliability", TRUE)],
    [metric |-> "freestoragespace",
     says |-> Hypothesis("storage", "high", "reliability", TRUE)]>>

\* An alarm about errors counts when nothing has explained it yet.
OfErrors(hyps, signals) ==
  IF "errors" \in signals.alarms /\ \A h \in ToSet(hyps) : h.category # "reliability"
  THEN <<Hypothesis("errorrate", "medium", "reliability", FALSE)>> ELSE <<>>

OfAlarms(signals) ==
  LET on == Among(AlarmRules, {i \in DOMAIN AlarmRules : AlarmRules[i].metric \in signals.alarms})
  IN [i \in DOMAIN on |-> on[i].says]

Change == Hypothesis("change", "medium", "reliability", FALSE)

Correlate(service, signals) ==
  LET logs  == OfLogs(service, signals)
      hyps  == logs \o OfErrors(logs, signals) \o OfAlarms(signals)
  IN IF hyps # <<>> /\ signals.changes # <<>> THEN Append(hyps, Change) ELSE hyps

-----------------------------------------------------------------------------
(* diagnose_service and Diagnosis.to_dict.                                 *)

\* Mutant of Ranked: the order of the rules.
RankedNot(hyps) == hyps

\* sorted by confidence, which keeps the order of the rules.
Ranked(hyps) ==
  Descending(hyps, [i \in DOMAIN hyps |-> IF hyps[i].confidence = "high" THEN 1 ELSE 0])

\* A hypothesis as it is shown: its command from artifacts upwards, and with a
\* demand for confirmation where it could be applied.
Shaped(h, mode) ==
  [cause |-> h.cause, confidence |-> h.confidence,
   command |-> h.command /\ CanGenerateArtifacts(mode),
   confirm |-> h.command /\ CanApplyActions(mode)]

\* Only a function's configuration is asked for.
Notes(w, signals) ==
  (IF w.service = "lambda" THEN w.fails \cap {"config"} ELSE {})
  \cup (IF signals = [alarms |-> {}, logs |-> {}, changes |-> <<>>] THEN {"nofault"} ELSE {})
  \cup (IF w.service # "lambda" /\ signals.alarms = {} THEN {"nologs"} ELSE {})

DiagnoseService(w, mode) ==
  LET signals == Signals(w)
      hyps    == Ranked(Correlate(w.service, signals))
  IN [mode |-> NormalizeMode(mode), signals |-> signals, healthy |-> hyps = <<>>,
      hypotheses |-> [i \in DOMAIN hyps |-> Shaped(hyps[i], NormalizeMode(mode))],
      notes |-> Notes(w, signals)]

-----------------------------------------------------------------------------
(* What a diagnosis owes its reader.                                       *)

Causes(d) == {h.cause : h \in ToSet(d.hypotheses)}

\* The surest first and each cause once; an alarm of the resource that the
\* rules know never goes unexplained, nor does a log that has a line they know;
\* a change is blamed only for a fault, and a fault with a change beside it
\* always names the change; a diagnosis that says "nofault" has none.
Explains(d, w) ==
  /\ \A i, j \in DOMAIN d.hypotheses : i < j =>
       /\ d.hypotheses[i].cause # d.hypotheses[j].cause
       /\ d.hypotheses[j].confidence = "high" => d.hypotheses[i].confidence = "high"
  /\ \A a \in w.alarms : a.about = w.resource /\ "alarms" \notin w.fails =>
       /\ \A r \in ToSet(AlarmRules) : r.metric = a.metric => r.says.cause \in Causes(d)
       /\ a.metric = "errors" =>
            Causes(d) \ {"import", "access", "change"} # {}
  /\ w.service = "lambda" /\ d.signals.logs \ {"other"} # {} => ~d.healthy
  /\ "change" \in Causes(d) <=>
       Causes(d) \ {"change"} # {} /\ \E e \in ToSet(d.signals.changes) : e # "read"
  /\ "nofault" \in d.notes => d.healthy

\* No command without a posture that shows commands, and none that could be
\* applied without a demand for confirmation.
FollowsPosture(d, mode) ==
  \A h \in ToSet(d.hypotheses) :
    /\ h.command => mode # "advisory"
    /\ h.command /\ mode = "guarded_write" => h.confirm

=============================================================================
