------------------------------ MODULE Commands ------------------------------
(***************************************************************************)
(* The command lines `finops` (finops_core/cli.py, preflight.py) and        *)
(* `devops` (devops_core/cli.py).  A command is the steps it takes; what    *)
(* becomes of it is decided by the first step that ends it by not           *)
(* succeeding: the runner prints an error and returns 2 ("caught"), or the  *)
(* exception leaves main ("raises", which Python turns into 1).  Of most    *)
(* failures of AWS the engines make a note that is printed ("noted"), and   *)
(* of some nothing at all ("silent"); the command carries on, to return 0.  *)
(* What a failure leaves out of a report, and which gaps get a note, is in  *)
(* Optimization, AnomalyReport, Digest, EstateDiscovery, Review, Diagnosis. *)
(*                                                                         *)
(* What argparse refuses, --json and everything that is printed is left     *)
(* out; a missing view or operation, which prints the usage and returns 1,  *)
(* too.  `serve` is in Services.                                           *)
(***************************************************************************)
EXTENDS Naturals, Sequences, FiniteSetsExt

Step(does, fails) == [does |-> does, fails |-> fails]

\* Config.load, which nothing guards, and build_session
Loads         == Step("load", "raises")
SessionRaises == Step("session", "raises")
SessionCaught == Step("session", "caught")

-----------------------------------------------------------------------------
(* finops                                                                  *)

PreflightCommand ==
  <<Loads, SessionCaught, Step("identity", "caught"), Step("models", "noted")>>
WhoAmICommand == <<Loads, SessionRaises, Step("identity", "raises")>>
ShowConfig == <<Loads>>
CostCommand == <<Loads, SessionCaught, Step("call", "caught"), Step("names", "silent")>>
\* Each source makes a note of what it is refused; a check of Trusted Advisor is skipped.
OptimizeCommand == <<Loads, SessionCaught, Step("call", "noted"), Step("checks", "silent")>>
AnomalyCommand == <<Loads, SessionCaught, Step("call", "noted")>>
\* The forecast is not guarded, the budgets beside it are.
ForecastVsBudget == <<Loads, SessionCaught, Step("forecast", "raises"), Step("call", "noted")>>
\* Where there is no organization the account is asked for.
OrgCommand == <<Loads, SessionRaises, Step("names", "noted"), Step("account", "silent")>>
\* The figures differing is a failure that is reported.
AccuracyCommand == <<Loads, SessionRaises, Step("call", "raises"), Step("agree", "caught")>>
\* Each section that fails has its error and each target its result.
DigestCommand ==
  <<Loads, SessionRaises, Step("call", "noted"),
    Step("narrative", "silent"), Step("deliver", "noted")>>
FixCommand ==
  <<Loads, Step("artifacts", "caught"), Step("parse", "raises"), Step("artifact", "raises")>>
\* RemediationEngine makes its session when the action is applied.
PreviewCommand == <<Loads, Step("writes", "caught"), Step("preview", "caught")>>
ApplyCommand ==
  <<Loads, Step("writes", "caught"),
    Step("token", "caught"), Step("session", "caught"), Step("apply", "caught")>>
AskCommand ==
  <<Loads, SessionCaught, Step("build", "caught"),
    Step("run", "raises"), Step("usage", "silent")>>
AskRemoteCommand == <<Step("remote", "caught")>>
\* Only a missing Strands is caught.
RouteCommand ==
  <<Loads, SessionRaises, Step("build", "raises"),
    Step("run", "raises"), Step("usage", "silent")>>

-----------------------------------------------------------------------------
(* devops                                                                  *)

\* EstateScanner and TopologyScanner note each source that fails.
ScanCommand == <<Loads, SessionCaught, Step("scan", "noted")>>
\* The notes of the estate are not shown with its diagram.
DiagramCommand ==
  <<Loads, SessionCaught, Step("scan", "silent"), Step("write", "raises"), Step("render", "silent")>>
TopologyCommand ==
  <<Loads, SessionCaught, Step("scan", "noted"), Step("write", "raises"), Step("render", "silent")>>
\* Metrics and signals that cannot be read are taken for none.
ReviewCommand == <<Loads, SessionCaught, Step("call", "noted"), Step("metrics", "silent")>>
DiagnoseCommand == <<Loads, SessionCaught, Step("call", "noted"), Step("signals", "silent")>>
DevOpsAskCommand ==
  <<Loads, SessionRaises,
    Step("build", "raises"), Step("run", "raises")>>
DevOpsAskRemoteCommand == <<Step("remote", "raises")>>

-----------------------------------------------------------------------------
(* main of both: the command that a name dispatches to                     *)

FinOps ==
  [preflight |-> PreflightCommand, whoami |-> WhoAmICommand, config |-> ShowConfig,
   cost |-> CostCommand, optimize |-> OptimizeCommand, anomaly |-> AnomalyCommand,
   forecast_vs_budget |-> ForecastVsBudget, org |-> OrgCommand,
   accuracy |-> AccuracyCommand, digest |-> DigestCommand, fix |-> FixCommand,
   preview |-> PreviewCommand, apply |-> ApplyCommand,
   ask |-> AskCommand, ask_remote |-> AskRemoteCommand, route |-> RouteCommand]

DevOps ==
  [scan |-> ScanCommand, diagram |-> DiagramCommand, topology |-> TopologyCommand,
   review |-> ReviewCommand, diagnose |-> DiagnoseCommand,
   ask |-> DevOpsAskCommand, ask_remote |-> DevOpsAskRemoteCommand]

\* A command line: the program and the command.
Programs == [finops |-> FinOps, devops |-> DevOps]

\* What can fail that depends on nothing modelled.
Outside == {"session", "identity", "models", "call", "checks", "forecast", "names", "account",
            "agree", "deliver", "parse", "artifact", "preview", "token", "apply", "build", "run",
            "narrative", "usage", "remote", "scan", "metrics", "signals", "write", "render"}

\* Mutant of Ends: a runner prints the error it has caught and goes on.
EndsOfRaised(steps, failing) ==
  {i \in DOMAIN steps : steps[i].does \in failing /\ steps[i].fails = "raises"}

\* The steps that end a command when `failing` fail.
Ends(steps, failing) ==
  {i \in DOMAIN steps : steps[i].does \in failing /\ steps[i].fails \in {"caught", "raises"}}

\* What became of it: the exit code, the steps that succeeded, and those that left a note.
Outcome(steps, failing) ==
  LET ends == Ends(steps, failing)
      last == IF ends = {} THEN Len(steps) ELSE Min(ends) - 1
  IN  [code |-> IF ends = {} THEN 0 ELSE IF steps[last + 1].fails = "caught" THEN 2 ELSE 1,
       done |-> {steps[i].does : i \in 1 .. last} \ failing,
       noted |-> {steps[i].does : i \in {j \in 1 .. last : steps[j].fails = "noted"}} \cap failing]
=============================================================================
