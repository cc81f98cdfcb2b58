---------------------------- MODULE MCDashboard ----------------------------
(***************************************************************************)
(* Dashboard with two sessions, a token and two questions, and small       *)
(* worlds for the reports: functions whose log has every mix of six kinds  *)
(* of lines, every alarm a rule knows and one it does not, each request    *)
(* failing, and every service with every three of its settings bad.        *)
(***************************************************************************)
EXTENDS Dashboard

CONSTANTS s1, s2, t1

MCSessions == {s1, s2}
MCSymmetry == Permutations(MCSessions)

Alarm(metric, about) == [metric |-> metric, about |-> about]
Resource(service, logs, alarms, events, fails) ==
  [service |-> service, resource |-> "mine", logs |-> logs,
   alarms |-> {Alarm(m, "mine") : m \in alarms} \cup {Alarm("errors", "another")},
   events |-> events, fails |-> fails]

Kinds  == {"timeout", "access", "throttled", "memory", "errors", "other"}
Trails == {<<>>, <<"read">>, <<"read", "update">>}
Lost   == {{}, {"config"}, {"logs"}, {"alarms"}, {"trail"}}

MCDiagnosisWorlds ==
  {Resource("lambda", logs, alarms, events, {}) :
     logs \in SUBSET Kinds, alarms \in {{}, {"errors"}, {"errors", "throttles"}}, events \in Trails}
  \cup {Resource("lambda", {"import", "errors"}, {"errors"}, <<"update">>, fails) :
          fails \in Lost}
  \cup {Resource(service, {}, alarms, events, fails) :
          service \in {"ec2", "rds"}, events \in Trails, fails \in Lost,
          alarms \in SUBSET {"errors", "statuscheckfailed", "freestoragespace", "cpu"}}

Requests(service) == {r.asks : r \in ToSet(Rules(service))}

Settings(service, bad, rest) ==
  [id \in {r.id : r \in ToSet(Rules(service))} |-> IF id \in bad THEN "bad" ELSE rest]

\* The CPU is not too high and too low.
Possible(w) ==
  w.service = "ec2" =>
    w.settings["cpu.saturated"] # "bad" \/ w.settings["cpu.underutilized"] # "bad"

AnyReviewWorlds ==
  UNION {{[service |-> service, settings |-> Settings(service, {x.id, y.id, z.id}, rest),
           fails |-> fails] :
            x \in ToSet(Rules(service)), y \in ToSet(Rules(service)), z \in ToSet(Rules(service)),
            rest \in {"good", "unset"},
            fails \in {{}} \cup {{r} : r \in Requests(service)}} :
         service \in {"lambda", "ec2", "rds", "s3"}}
  \cup {[service |-> "sqs", settings |-> <<>>, fails |-> {}]}

MCReviewWorlds == {w \in AnyReviewWorlds : Possible(w)}
=============================================================================
