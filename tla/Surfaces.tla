------------------------------ MODULE Surfaces ------------------------------
(***************************************************************************)
(* The entry points, each a process that lives with the configuration it    *)
(* once read: the API (apps/api/main.py), whose threads share a cached      *)
(* configuration, a cached session and the meter of AWS calls              *)
(* (observe.py); the chat (apps/dashboard/app.py, finops_core/mcp_servers/  *)
(* agent_server.py), whose threads share one IntentRouter (router.py); a    *)
(* command line, which runs one command.                                   *)
(*                                                                         *)
(* Processes share nothing but files, so that one of them is observed,      *)
(* `kind` says which.  Meanwhile finops.yaml is edited.  A configuration is *)
(* the version of the file it was loaded from, and the environment is that  *)
(* of the process.  An action is a step between two points at which the     *)
(* worker threads may switch.                                               *)
(*                                                                         *)
(* GuardedActions has the tokens and the audit log of an action that is     *)
(* applied, CostReport, Optimization and AnomalyReport what an AWS call     *)
(* answers; a request makes one AWS call, the one for a role apart, and     *)
(* those of an agent's tools are not counted here.                         *)
(***************************************************************************)
EXTENDS Specialists, Telemetry, Commands

CONSTANTS
  Kinds,      \* the entry points that are started
  Requests,   \* the requests to the API, or the questions of the chat
  Routes,     \* the endpoints of the API that are called
  Asking,     \* the questions that are asked
  Wanted,     \* what the model of an agent may ask its tools for
  Files,      \* the contents finops.yaml has one after the other
  Models,     \* models.yaml
  Envs,       \* the environments a process may have
  Shared      \* the slot of the router that all threads of the chat have

ASSUME SurfacesAssumption ==
  /\ Kinds \subseteq {"api", "chat", "cli"}
  /\ Routes \subseteq {"metrics", "cost", "fix", "preview", "apply", "query", "structured"}
  /\ Asking \subseteq Questions /\ Wanted \subseteq SUBSET Tools
  /\ DOMAIN Files = 1 .. Len(Files) /\ Len(Files) \in Nat \ {0}
  /\ Shared \notin Requests

VARIABLES
  kind, env,   \* which entry point it is, and which of Envs it has
  file,        \* the version of finops.yaml that is there
  up,          \* whether the process is past its start
  handle,      \* telemetry: _STATE
  config,      \* get_config's, or the router's, cached configuration; 0 is none
  session,     \* get_session's: the configuration it was built from
  counts,      \* ApiMeter.calls, all operations together
  usage,       \* last_usage of each router
  req,         \* [request -> where it is and what it has seen]
  exit,        \* what became of the command
  loads,       \* history: the configurations the process has loaded
  writes,      \* history: what was written, with which configuration and session
  calls,       \* history: the answers that AWS has given
  unmetered,   \* history: those of them that came before the meter was attached
  lossy,       \* history: two threads have counted at once
  raced,       \* history: a thread has kept what another had stored already
  sent         \* history: the spans that have left the process

fixed   == <<kind, env, up>>
caches  == <<config, session, loads, raced>>
metered == <<counts, calls, unmetered, lossy>>
vars == <<fixed, file, handle, caches, metered, usage, req, exit, writes, sent>>

-----------------------------------------------------------------------------
Versions == DOMAIN Files

Cfgs == [e \in DOMAIN Envs |-> [v \in Versions |-> Load(Files[v], Models, Envs[e])]]

\* Config.load() at version v of the file, and whether it raises now.
Cfg(v) == Cfgs[env][v]
Raises == LoadRaises(Files[file], Models, Envs[env])

First(stored, own) == IF stored # 0 THEN stored ELSE own

Idle == [at |-> "idle", route |-> None, question |-> None, remote |-> FALSE, ran |-> 0,
         cfg |-> 0, session |-> 0, seen |-> 0, asked |-> {}, together |-> FALSE]

Init ==
  /\ kind \in Kinds /\ env \in DOMAIN Envs
  /\ file = 1
  /\ up = FALSE
  /\ handle = None
  /\ config = 0 /\ session = 0
  /\ counts = 0 /\ calls = 0 /\ unmetered = 0
  /\ usage = [s \in Requests \cup {Shared} |-> None]
  /\ req = [r \in Requests |-> Idle]
  /\ exit = None
  /\ loads = {} /\ writes = {} /\ sent = {}
  /\ lossy = FALSE /\ raced = FALSE

EditFile ==
  /\ file + 1 \in Versions
  /\ file' = file + 1
  /\ UNCHANGED <<fixed, handle, caches, metered, usage, req, exit, writes, sent>>

-----------------------------------------------------------------------------
(* Start, and what is exported                                             *)

\* A command keeps quiet unless there is somewhere to send to.
Quiet == kind = "cli"
Name  == CASE kind = "api" -> "finops-api" [] kind = "chat" -> "finops-dashboard"
           [] OTHER -> "finops-cli"

\* setup_telemetry, best effort, with the configuration of the moment.
SetUpNow == IF Raises THEN handle ELSE SetUp(handle, Cfg(file), Name, ~Quiet)

\* _lifespan, _init_telemetry
Start ==
  /\ ~up /\ up' = TRUE
  /\ handle' = SetUpNow
  /\ UNCHANGED <<kind, env, file, caches, metered, usage, req, exit, writes, sent>>

Span(attributes, events, status) ==
  [attributes |-> attributes, events |-> events, status |-> status]

\* A span of this code carries metadata only, and is left out unless it ends in an
\* exception, which OTEL adds.  The spans of an agent carry its messages and its tools'
\* arguments.
Ended == Span({"figures"}, {[name |-> "exception", text |-> "account"]}, "account")
Talk  == Span({"figures", "account"}, {[name |-> "content", text |-> "account"]}, None)

Exports(spans) == sent' = sent \cup Sent(handle, spans)

-----------------------------------------------------------------------------
(* The life of a request                                                   *)

Busy(r) == req[r].at \notin {"idle", "answered", "refused", "failed"}
At(r, place) == up /\ req[r].at = place
Goes(r, place) == req' = [req EXCEPT ![r].at = place]

\* A question of the chat that others are being answered beside, and they themselves.
Joined(r, new) ==
  LET others == {q \in Requests \ {r} : Busy(q)}
  IN  req' = [q \in Requests |->
                IF q = r THEN [new EXCEPT !.together = kind = "chat" /\ others # {}]
                ELSE IF q \in others THEN [req[q] EXCEPT !.together = kind = "chat"] ELSE req[q]]

\* Only the metrics need no configuration.
Entry(route) == IF route = "metrics" THEN "work" ELSE "config"

\* A page of the dashboard sets up telemetry each time it runs.
Arrive(r) ==
  /\ At(r, "idle") /\ kind \in {"api", "chat"}
  /\ \E route \in (IF kind = "api" THEN Routes ELSE {"query"}) :
     \E question \in (IF route \in {"query", "structured"} THEN Asking ELSE {None}) :
     \E remote \in (IF question = None THEN {FALSE} ELSE BOOLEAN) :
       Joined(r, [Idle EXCEPT !.at = Entry(route), !.route = route, !.question = question,
                              !.remote = remote, !.ran = 1])
  /\ handle' = IF kind = "chat" THEN SetUpNow ELSE handle
  /\ UNCHANGED <<fixed, file, caches, metered, usage, exit, writes, sent>>

\* Of a request that is over nothing is kept but how it ended.
Finishes(r, how) == req' = [req EXCEPT ![r] = [Idle EXCEPT !.at = how, !.ran = req[r].ran]]

\* A handler runs (again).
Dispatched(r) ==
  req' = [req EXCEPT ![r] = [Idle EXCEPT !.at = Entry(req[r].route), !.route = req[r].route,
                                         !.ran = req[r].ran + 1]]

\* Mutant of Raised: whatever fails is handed on again.
RaisedAgain(r) ==
  IF kind = "api" /\ req[r].route \in {"cost", "metrics"} THEN Dispatched(r)
  ELSE Finishes(r, "failed")

\* An exception leaves the handler.  The middleware's `except` hands the request on a
\* second time; one with a body has been read and does not reach its handler again.
Raised(r) ==
  IF kind = "api" /\ req[r].route \in {"cost", "metrics"} /\ req[r].ran = 1 THEN Dispatched(r)
  ELSE Finishes(r, "failed")

Fails(r) == Raised(r) /\ Exports({Ended})

Answered(r) == Finishes(r, "answered") /\ UNCHANGED sent

\* An HTTPException is an answer too: 403 where the mode forbids, 404.
Refused(r) == Finishes(r, "refused") /\ UNCHANGED sent

-----------------------------------------------------------------------------
(* get_config and get_session: lru_cache calls the function of every thread *)
(* that misses, and keeps what is stored first.                            *)

AfterConfig(route) == IF route \in {"cost", "preview", "apply", "query", "structured"}
                      THEN "session" ELSE "work"

\* The chat makes its router under Streamlit's lock, and the router has no session.
AskConfig(r) ==
  /\ At(r, "config")
  /\ \/ /\ config # 0
        /\ req' = [req EXCEPT ![r].cfg = config,
                              ![r].at = IF kind = "chat" THEN "ask" ELSE AfterConfig(req[r].route)]
        /\ UNCHANGED <<config, loads, sent>>
     \/ /\ config = 0 /\ Raises
        /\ Fails(r)
        /\ UNCHANGED <<config, loads>>
     \/ /\ config = 0 /\ ~Raises
        /\ loads' = loads \cup {file}
        /\ config' = IF kind = "chat" THEN file ELSE 0
        /\ req' = [req EXCEPT ![r].cfg = file, ![r].at = IF kind = "chat" THEN "ask" ELSE "keep"]
        /\ UNCHANGED sent
  /\ UNCHANGED <<fixed, file, handle, session, raced, metered, usage, exit, writes>>

\* The thread goes on with its own, whichever is stored.
KeepConfig(r) ==
  /\ At(r, "keep")
  /\ config' = First(config, req[r].cfg)
  /\ raced' = (raced \/ config \notin {0, req[r].cfg})
  /\ Goes(r, AfterConfig(req[r].route))
  /\ UNCHANGED <<fixed, file, handle, session, loads, metered, usage, exit, writes, sent>>

\* Where an endpoint asks for its session: the engines' dependencies do so first, so
\* that their configuration is the one get_session has just loaded.
Base(r) == IF req[r].route = "cost" THEN req[r].cfg ELSE config

\* build_session raises: a ValueError of the configuration is a 404 to the preview.
NoSession(r) ==
  IF req[r].route = "preview" /\ SessionRefused(Cfg(Base(r))) THEN Refused(r) ELSE Fails(r)

\* To assume a role build_session asks STS, and get_session attaches the meter to the
\* session that it returns: this answer is not counted.
StsAnswers(r) ==
  IF AssumesRole(Cfg(Base(r)))
  THEN calls' = calls + 1 /\ unmetered' = unmetered + 1
  ELSE UNCHANGED <<calls, unmetered>>

AskSession(r) ==
  /\ At(r, "session")
  /\ \/ /\ session # 0
        /\ req' = [req EXCEPT ![r].session = session, ![r].at = "work"]
        /\ UNCHANGED <<calls, unmetered, sent>>
     \/ /\ session = 0 /\ ~SessionRefused(Cfg(Base(r)))
        /\ StsAnswers(r)
        /\ req' = [req EXCEPT ![r].session = Base(r), ![r].at = "keep_session"]
        /\ UNCHANGED sent
     \/ /\ session = 0
        /\ StsAnswers(r) \/ UNCHANGED <<calls, unmetered>>
        /\ NoSession(r)
  /\ UNCHANGED <<fixed, file, handle, caches, counts, lossy, usage, exit, writes>>

KeepSession(r) ==
  /\ At(r, "keep_session")
  /\ session' = First(session, req[r].session)
  /\ raced' = (raced \/ session \notin {0, req[r].session})
  /\ Goes(r, "work")
  /\ UNCHANGED <<fixed, file, handle, config, loads, metered, usage, exit, writes, sent>>

-----------------------------------------------------------------------------
(* The endpoints without an agent                                          *)

\* AWS answers, with figures or an error: the hook reads the count.
Received(r) ==
  /\ calls' = calls + 1
  /\ lossy' = (lossy \/ \E q \in Requests : req[q].at = "count")
  /\ req' = [req EXCEPT ![r].seen = counts, ![r].at = "count"]
  /\ UNCHANGED <<counts, unmetered, sent>>

\* No connection, or no answer: nothing is counted.
Unreached(r) == Fails(r) /\ UNCHANGED metered

\* ApiMeter.summary adds up all the counts, then goes through them one by one.
AddUp(r) ==
  /\ At(r, "work") /\ req[r].route = "metrics"
  /\ req' = [req EXCEPT ![r].seen = counts, ![r].at = "tally"]
  /\ UNCHANGED <<fixed, file, handle, caches, metered, usage, exit, writes, sent>>

\* The dictionary may have grown under it, which raises, when a thread has counted since.
Metrics(r) ==
  /\ At(r, "tally")
  /\ Answered(r) \/ ((counts # req[r].seen \/ lossy) /\ Fails(r))
  /\ UNCHANGED <<fixed, file, handle, caches, metered, usage, exit, writes>>

\* The GET endpoints of CostExplorer, Optimizer, AnomalyEngine and OrgResolver; a drill-down
\* is posted and differs in that it is not handed on again.
CostCall(r) ==
  /\ At(r, "work") /\ req[r].route = "cost"
  /\ Received(r) \/ Unreached(r)
  /\ UNCHANGED <<fixed, file, handle, caches, usage, exit, writes>>

FixEndpoint(r) ==
  /\ At(r, "work") /\ req[r].route = "fix"
  /\ IF CanGenerateArtifacts(Cfg(req[r].cfg).mode)
     THEN /\ writes' = writes \cup {[what |-> "artifact", cfg |-> req[r].cfg, session |-> req[r].cfg]}
          /\ Answered(r)
     ELSE Refused(r) /\ UNCHANGED writes
  /\ UNCHANGED <<fixed, file, handle, caches, metered, usage, exit>>

PreviewEndpoint(r) ==
  /\ At(r, "work") /\ req[r].route = "preview"
  /\ IF CanApplyActions(Cfg(req[r].cfg).mode) THEN Answered(r) ELSE Refused(r)
  /\ UNCHANGED <<fixed, file, handle, caches, metered, usage, exit, writes>>

\* An action that is not known, or whose token is not accepted, is not applied.
ApplyEndpoint(r) ==
  /\ At(r, "work") /\ req[r].route = "apply"
  /\ \/ /\ CanApplyActions(Cfg(req[r].cfg).mode)
        /\ writes' = writes \cup {[what |-> "action", cfg |-> req[r].cfg, session |-> req[r].session]}
        /\ Received(r)
     \/ /\ IF CanApplyActions(Cfg(req[r].cfg).mode) THEN Answered(r) ELSE Refused(r)
        /\ UNCHANGED <<metered, writes>>
  /\ UNCHANGED <<fixed, file, handle, caches, usage, exit>>

\* ApiMeter.record stores what it read plus one, then the call returns or raises; apply
\* makes an answer of its errors.
Count(r) ==
  /\ At(r, "count")
  /\ counts' = req[r].seen + 1
  /\ Answered(r) \/ (req[r].route = "cost" /\ Fails(r))
  /\ UNCHANGED <<fixed, file, handle, caches, calls, unmetered, lossy, usage, exit, writes>>

-----------------------------------------------------------------------------
(* IntentRouter.answer and structured_answer                               *)

\* Mutant of Slot: the API keeps its router, as the chat does.
SlotOfOne(r) == Shared

\* The router of a question: the API makes one for each.
Slot(r) == IF kind = "chat" THEN Shared ELSE r

\* The toggles of the chat's page, and skills, are left out: neither model nor guard depends
\* on them.
IntentOf(r) == Classify(req[r].question)
AgentOf(r)  == Agent(Cfg(req[r].cfg), AgentRole(IntentOf(r)), NoChoices, FALSE)

Asks(r) == req[r].route \in {"query", "structured"}

Reset(r) ==
  /\ At(r, "ask") \/ (At(r, "work") /\ Asks(r))
  /\ usage' = [usage EXCEPT ![Slot(r)] = None]
  /\ Goes(r, "agent")
  /\ UNCHANGED <<fixed, file, handle, caches, metered, exit, writes, sent>>

\* The specialist runs elsewhere; of its usage nothing is known.
RunRemote(r) ==
  /\ At(r, "agent") /\ req[r].remote
  /\ \/ Goes(r, "answer") /\ UNCHANGED sent
     \/ Fails(r)
  /\ UNCHANGED <<fixed, file, handle, caches, metered, usage, exit, writes>>

\* The chat's agents build their session themselves, from the router's configuration: the
\* cost and the anomaly agent when they are built, the optimization agent when it needs one.
PrincipalOf(r) == IF req[r].session # 0 THEN req[r].session ELSE req[r].cfg
HasSession(r)  == req[r].session # 0 \/ ~SessionRefused(Cfg(req[r].cfg))

RunAgent(r) ==
  /\ At(r, "agent") /\ ~req[r].remote
  /\ \/ /\ ~Unbuildable(AgentOf(r)) /\ (HasSession(r) \/ IntentOf(r) = "optimize")
        /\ \E asked \in Wanted :
             /\ req' = [req EXCEPT ![r].asked = asked, ![r].at = "record"]
             /\ writes' = writes \cup
                  {[what |-> t, cfg |-> req[r].cfg, session |-> PrincipalOf(r)] :
                     t \in {w \in Executed(AgentOf(r), asked) : w = "write" /\ HasSession(r)}}
        /\ Exports({Talk})
     \/ Fails(r) /\ UNCHANGED writes
  /\ UNCHANGED <<fixed, file, handle, caches, metered, usage, exit>>

\* _record_usage; what goes wrong in it leaves nothing recorded.
Record(r) ==
  /\ At(r, "record")
  /\ \E u \in {None, Usage(Cfg(req[r].cfg), IntentOf(r), r, req[r].asked)} :
       usage' = [usage EXCEPT ![Slot(r)] = u]
  /\ Goes(r, IF req[r].route = "structured" THEN "answer" ELSE "check")
  /\ UNCHANGED <<fixed, file, handle, caches, metered, exit, writes, sent>>

\* `if span is not None and self.last_usage`
Check(r) ==
  /\ At(r, "check")
  /\ Goes(r, IF usage[Slot(r)] = None THEN "answer" ELSE "note")
  /\ UNCHANGED <<fixed, file, handle, caches, metered, usage, exit, writes, sent>>

\* `self.last_usage.get(...)`, which raises when it has become None.
Note(r) ==
  /\ At(r, "note")
  /\ IF usage[Slot(r)] = None THEN Fails(r)
     ELSE Goes(r, "answer") /\ UNCHANGED sent
  /\ UNCHANGED <<fixed, file, handle, caches, metered, usage, exit, writes>>

\* The API adds router.last_usage to the answer.
Answer(r) ==
  /\ At(r, "answer")
  /\ Answered(r)
  /\ UNCHANGED <<fixed, file, handle, caches, metered, usage, exit, writes>>

-----------------------------------------------------------------------------
(* A command line                                                          *)

\* The steps that cannot succeed as things are.
Failing(v) ==
  (IF Raises THEN {"load"} ELSE {})
    \cup (IF SessionRefused(Cfg(v)) THEN {"session"} ELSE {})
    \cup (IF CanGenerateArtifacts(Cfg(v).mode) THEN {} ELSE {"artifacts"})
    \cup (IF CanApplyActions(Cfg(v).mode) THEN {} ELSE {"writes"})
    \cup (IF ModelId(Cfg(v), "cost") = None THEN {"build"} ELSE {})

\* What the steps that were taken have written; `asked` are the tools an agent wants.
Wrote(v, done, asked) ==
  {[what |-> t, cfg |-> v, session |-> v] :
     t \in (done \cap {"artifact", "apply"})
             \cup (IF "run" \in done
                   THEN Executed([guard |-> Cfg(v).mode], asked) \cap {"write"} ELSE {})}

Command ==
  /\ kind = "cli" /\ up /\ exit = None
  /\ \E program \in DOMAIN Programs : \E name \in DOMAIN Programs[program] :
     LET steps == Programs[program][name] IN
     \E broken \in SUBSET ({steps[i].does : i \in DOMAIN steps} \cap Outside), asked \in Wanted :
       LET outcome == Outcome(steps, Failing(file) \cup broken) IN
       /\ exit' = [program |-> program, name |-> name, code |-> outcome.code,
                    done |-> outcome.done, noted |-> outcome.noted]
       /\ loads' = IF "load" \in outcome.done THEN {file} ELSE {}
       /\ writes' = Wrote(file, outcome.done, asked)
       /\ Exports(IF outcome.done \cap {"run", "narrative"} # {} THEN {Talk} ELSE {})
  /\ UNCHANGED <<fixed, file, handle, config, session, raced, metered, usage, req>>

-----------------------------------------------------------------------------
Endpoint(r) ==
  \/ AddUp(r) \/ Metrics(r) \/ CostCall(r) \/ Count(r)
  \/ FixEndpoint(r) \/ PreviewEndpoint(r) \/ ApplyEndpoint(r)

Route(r) ==
  \/ Reset(r) \/ RunRemote(r) \/ RunAgent(r)
  \/ Record(r) \/ Check(r) \/ Note(r) \/ Answer(r)

Request(r) ==
  \/ Arrive(r)
  \/ AskConfig(r) \/ KeepConfig(r) \/ AskSession(r) \/ KeepSession(r)
  \/ Endpoint(r) \/ Route(r)

Next == EditFile \/ Start \/ Command \/ \E r \in Requests : Request(r)

Spec == Init /\ [][Next]_vars

-----------------------------------------------------------------------------
Places == {"idle", "config", "keep", "session", "keep_session", "work", "tally", "count", "ask",
           "agent", "record", "check", "note", "answer", "answered", "refused", "failed"}
Usages == [of : Requests, model : {None} \cup {Cfg(v)[role] : v \in Versions, role \in Roles},
           tools : SUBSET Tools]
Shape  == [at : Places, route : Routes \cup {"query", None}, question : Asking \cup {None},
           remote : BOOLEAN, ran : 0 .. 2, cfg : Versions \cup {0}, session : Versions \cup {0},
           seen : Nat, asked : SUBSET Tools, together : BOOLEAN]

TypeOK ==
  /\ kind \in Kinds /\ env \in DOMAIN Envs /\ file \in Versions /\ up \in BOOLEAN
  /\ handle # None => handle.exporter \in {"otlp", "console"}
  /\ config \in Versions \cup {0} /\ session \in Versions \cup {0}
  /\ counts \in Nat /\ calls \in Nat /\ unmetered \in Nat /\ lossy \in BOOLEAN /\ raced \in BOOLEAN
  /\ usage \in [Requests \cup {Shared} -> Usages \cup {None}]
  /\ req \in [Requests -> Shape]
  /\ exit # None => exit.code \in 0 .. 2
  /\ loads \subseteq Versions
  /\ \A w \in writes : w.cfg \in Versions /\ w.session \in Versions

\* The configurations of the process that permit what has been written.
Permits(w) ==
  {v \in loads : IF w.what = "artifact" THEN Cfg(v).mode \in {"artifacts", "guarded_write"}
                 ELSE Cfg(v).mode = "guarded_write"}

\* "guarded_write - artifacts + apply allowlisted, human-confirmed, audited actions" (modes.py:6):
\* whatever is edited meanwhile, whatever word the mode is and whoever asks - an endpoint, a
\* command, the model of an agent - nothing is written unless the process has loaded a
\* configuration that says so; and as long as no two threads made the caches at once, the
\* account it is written to is the one that configuration names.
WritesWereAllowed ==
  \A w \in writes :
    /\ Permits(w) # {}
    /\ ~raced => \E v \in Permits(w) : Principal(Cfg(v)) = Principal(Cfg(w.session))

\* The usage an answer of the API reports is that of its own question, priced as the model
\* that answered it.
ReportsItsOwn(r) ==
  LET reported == usage[Slot(r)] IN
  kind = "api" /\ req[r].at = "answer" /\ reported # None =>
    /\ reported.of = r /\ reported.tools = req[r].asked
    /\ reported.model = AgentOf(r).model

\* Two questions to one router may disturb each other; otherwise no answer that an agent has
\* given is lost, and no span counts another question's tools.
KeepsItsAnswer(r) ==
  req[r].at = "note" /\ ~req[r].together => usage[Slot(r)] # None /\ usage[Slot(r)].of = r

Settled == ~lossy /\ \A r \in Requests : req[r].at # "count"

\* The meter never counts more calls than AWS has answered through a session it is attached to,
\* and all of those as long as no two threads counted at once; /metrics tells of no more.
\* It speaks of the calls of the process (main.py:138), but lacks those to STS for a session.
MeterIsHonest ==
  /\ counts + unmetered <= calls
  /\ Settled => counts + unmetered = calls
  /\ \A r \in Requests : req[r].at = "tally" => req[r].seen + unmetered <= calls

\* What a command has done when it returns 0, whatever failed on the way,
Promised ==
  [preflight |-> {"identity"}, whoami |-> {"identity"}, config |-> {"load"}, cost |-> {"call"},
   optimize |-> {"session"}, anomaly |-> {"session"}, forecast_vs_budget |-> {"forecast"},
   org |-> {"session"}, accuracy |-> {"call", "agree"}, digest |-> {"session"},
   fix |-> {"artifact"}, preview |-> {"preview"}, apply |-> {"apply"}, ask |-> {"run"},
   ask_remote |-> {"remote"}, route |-> {"run"}, scan |-> {"session"}, diagram |-> {"write"},
   topology |-> {"write"}, review |-> {"session"}, diagnose |-> {"session"}]

\* and what it has done or printed a note about.
Told ==
  [preflight |-> {"models"}, whoami |-> {}, config |-> {}, cost |-> {}, optimize |-> {"call"},
   anomaly |-> {"call"}, forecast_vs_budget |-> {"call"}, org |-> {"names"}, accuracy |-> {},
   digest |-> {"call", "deliver"}, fix |-> {}, preview |-> {}, apply |-> {}, ask |-> {},
   ask_remote |-> {}, route |-> {}, scan |-> {"scan"}, diagram |-> {}, topology |-> {"scan"},
   review |-> {"call"}, diagnose |-> {"call"}]

\* A command that returns 0 has done what it is asked for, unless it only reports: then it has
\* said where it could not look.  Of what a diagram leaves out, of the metrics of a review and
\* of the signals of a diagnosis nothing is claimed: the code is silent about them.
KeepsItsPromise ==
  exit # None /\ exit.code = 0 =>
    /\ Promised[exit.name] \subseteq exit.done
    /\ Told[exit.name] \subseteq exit.done \cup exit.noted

\* What a process tells of itself is true, however its threads interleave.
TellsTheTruth ==
  /\ \A r \in Requests : ReportsItsOwn(r) /\ KeepsItsAnswer(r)
  /\ MeterIsHonest
  /\ KeepsItsPromise

\* With redaction on and the content mode "omit" or "redact", no span that has left the process
\* has an account in an attribute or an event, and with "omit" none has an event of the
\* conversation - also when the file has been edited since telemetry was set up, for the two
\* are those of one configuration that was in force.
NothingLeaks ==
  /\ handle = None => sent = {}
  /\ handle # None =>
       /\ \E v \in 1 .. file : <<handle.content, handle.redact>> = <<Cfg(v).content, Cfg(v).redact>>
       /\ handle.redact /\ handle.content \in {"omit", "redact"} =>
            \A s \in sent : "account" \notin s.attributes \cup {e.text : e \in s.events}
       /\ handle.content = "omit" => \A s \in sent : \A e \in s.events : ~IsContent(e)
=============================================================================
