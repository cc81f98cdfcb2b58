------------------------------ MODULE Services ------------------------------
(***************************************************************************)
(* The distributed tool tier: the MCP tool servers (mcp_servers/*.py) with *)
(* the credentials a connector sends with each request, the estate         *)
(* server's cache of indexes, and the agent services (services/*.py) that  *)
(* connect to a tool server when they start and hold that session for good.*)
(*                                                                         *)
(* A tool is an ordinary function, which FastMCP calls on its event loop:  *)
(* a tool server answers one call at a time, so a call is one step.  A     *)
(* session of the streamable HTTP transport lives in the server process    *)
(* that opened it.  Compose restarts every process that ends               *)
(* (docker-compose.yml, `restart: unless-stopped`) and orders nothing      *)
(* beyond the start of the containers.                                     *)
(*                                                                         *)
(* Header values are abstracted to the user whose keys they name, whether  *)
(* both keys are there, and the region, an estate to whose it is and when it was scanned                *)
(* (EstateDiscovery has the scan itself).  One tool server stands for the  *)
(* four, which differ in their tools only: it has those of the estate      *)
(* server, that answer from a cache, and the others, that keep nothing.    *)
(***************************************************************************)
EXTENDS Naturals, Sequences, FiniteSets, SequencesExt

CONSTANTS
  Agents,        \* the agent services
  Users,         \* those who send credentials of their own
  Host,          \* whose credentials the servers themselves have
  Regions,       \* the regions a request may name
  Home,          \* cfg.aws.region
  None,          \* an absent header; an agent without a session
  MaxIndexes,    \* _MAX_CACHED_SESSIONS
  Attempts,      \* the attempts of connect_mcp_tools
  MaxFaults,     \* bound: processes that die and requests that a live server fails
  MaxVersion     \* bound: changes of the estates in AWS

ASSUME ServicesAssumption ==
  /\ Host \notin Users /\ None \notin Users \cup Regions \cup {Host}
  /\ Home \in Regions
  /\ MaxIndexes \in Nat \ {0} /\ Attempts \in Nat \ {0}
  /\ MaxFaults \in Nat /\ MaxVersion \in Nat

VARIABLES
  run,       \* the tool server: which process of it runs, 0 while none does
  started,   \* the processes of it so far
  indexes,   \* _index_cache, oldest first
  answer,    \* the last answer of a tool, beside the headers of its request
  agent,     \* [agent -> its process]
  sessions,  \* the MCP sessions that clients hold, whichever attempt opened them
  version,   \* how often AWS has changed
  faults,    \* processes that have died, requests that have failed
  told,      \* history: [key -> the dates of what it was told since its index was made]
  since      \* history: [key -> the other keys asked for since its index was made]

toolVars  == <<run, started, indexes, answer>>
agentVars == <<agent, sessions>>
vars == <<toolVars, agentVars, version, faults, told, since>>

-----------------------------------------------------------------------------
(* connector_auth.py                                                       *)

\* The X-Aws headers of a request: whose keys it names, whether access key and secret
\* are both there, and its region.  An agent's own client sends none of them.
Headers   == {h \in [user : Users \cup {None}, both : BOOLEAN, region : Regions \cup {None}] :
                h.both => h.user # None}
NoHeaders == [user |-> None, both |-> FALSE, region |-> None]

Authenticated(h) == h.both

Or(value, default) == IF value # None THEN value ELSE default

\* session_from_context: who the request's boto3 session is, and where.  Without
\* a pair of keys build_session answers, whatever region the request names.
SessionOf(h) ==
  IF Authenticated(h) THEN [user |-> h.user, region |-> Or(h.region, Home)]
  ELSE [user |-> Host, region |-> Home]

\* Mutant of CredKey: the region is left out of the fingerprint.
CredKeyOfPair(h) == <<h.user>>

\* cred_key_from_context
CredKey(h) ==
  IF Authenticated(h) THEN <<h.user, Or(h.region, Home)>> ELSE <<"server-side">>

Keys == {CredKey(h) : h \in Headers}

\* An estate, or anything else that a tool reads in AWS.
Estate == [user : Users \cup {Host}, region : Regions, asOf : 0 .. MaxVersion]

\* What is read with a session now.
Read(session) == [user |-> session.user, region |-> session.region, asOf |-> version]

-----------------------------------------------------------------------------
Down == [phase |-> "down", attempt |-> 0]

Init ==
  /\ run = 0 /\ started = 0
  /\ indexes = <<>>
  /\ answer = None
  /\ agent = [a \in Agents |-> Down]
  /\ sessions = {}
  /\ version = 0 /\ faults = 0
  /\ told = [k \in Keys |-> {}]
  /\ since = [k \in Keys |-> {}]

-----------------------------------------------------------------------------
(* estate_server.py                                                        *)

Cached(key) == \E i \in DOMAIN indexes : indexes[i].key = key
IndexOf(key) == indexes[CHOOSE i \in DOMAIN indexes : indexes[i].key = key]

\* Mutant of Evicted: the newest entry makes room.
EvictedLast == IF Len(indexes) >= MaxIndexes THEN Front(indexes) ELSE indexes

\* The cache after making room: the entry that was put in first is dropped.
Evicted == IF Len(indexes) >= MaxIndexes THEN Tail(indexes) ELSE indexes

\* The histories when `key` is asked for and the cache becomes `kept`; `dates` are
\* those of the estate it is told.
Noted(key, kept, dates) ==
  LET Keep(k) == \E i \in DOMAIN kept : kept[i].key = k
  IN  /\ told' = [k \in Keys |-> IF ~Keep(k) THEN {}
                                 ELSE IF k = key THEN told[k] \cup dates ELSE told[k]]
      /\ since' = [k \in Keys |-> IF ~Keep(k) \/ ~Cached(k) THEN {}
                                  ELSE since[k] \cup ({key} \ {k})]

\* A tool answers from an estate; describe_resource adds what it reads of the resource
\* now, with the session that the index has kept since its scan, unless that fails.
Answers(h, estate) ==
  \E details \in {None, Read(estate)} :
    answer' = [headers |-> h, estate |-> estate, details |-> details]

\* Mutant of Hit: estate() scans whenever it is called.
HitAndScan(h) ==
  LET key == CredKey(h) IN
  /\ Cached(key)
  /\ UNCHANGED indexes
  /\ Answers(h, Read(SessionOf(h)))
  /\ Noted(key, indexes, {version})

\* A query whose credentials have an index: estate() answers from it.
Hit(h) ==
  LET key == CredKey(h) IN
  /\ Cached(key)
  /\ UNCHANGED indexes
  /\ Answers(h, IndexOf(key).estate)
  /\ Noted(key, indexes, {IndexOf(key).estate.asOf})

\* The first query of its credentials: an index is made, for which the oldest may
\* have to go, and scanned.
Miss(h) ==
  LET key == CredKey(h)
      estate == Read(SessionOf(h))
  IN  /\ ~Cached(key)
      /\ indexes' = Append(Evicted, [key |-> key, estate |-> estate])
      /\ Answers(h, estate)
      /\ Noted(key, indexes', {version})

\* build_session raises (no role ARN, no such profile, STS refuses) when room has
\* been made already: the oldest index is gone and no new one is there.
NoSession(h) ==
  /\ ~Authenticated(h) /\ ~Cached(CredKey(h))
  /\ indexes' = Evicted
  /\ Noted(CredKey(h), Evicted, {})
  /\ UNCHANGED answer

\* get_estate_summary, list_resources, describe_resource, find_resource
Query(h) ==
  /\ run # 0
  /\ Hit(h) \/ Miss(h) \/ NoSession(h)
  /\ UNCHANGED <<run, started, agentVars, version, faults>>

\* get_topology, and every tool of the cost, optimize and anomaly servers: a
\* session for the request, and nothing kept.
Stateless(h) ==
  /\ run # 0
  /\ Answers(h, Read(SessionOf(h)))
  /\ UNCHANGED <<run, started, indexes, agentVars, version, faults, told, since>>

-----------------------------------------------------------------------------
(* The processes of a tool server (run_mcp)                                *)

ServerStart ==
  /\ run = 0
  /\ started' = started + 1 /\ run' = started'
  /\ UNCHANGED <<indexes, answer, agentVars, version, faults, told, since>>

\* What a process had in memory goes with it.
ServerCrash ==
  /\ run # 0 /\ faults < MaxFaults
  /\ run' = 0
  /\ faults' = faults + 1
  /\ indexes' = <<>>
  /\ told' = [k \in Keys |-> {}] /\ since' = [k \in Keys |-> {}]
  /\ UNCHANGED <<started, answer, agentVars, version>>

AwsChanges ==
  /\ version < MaxVersion
  /\ version' = version + 1
  /\ UNCHANGED <<toolVars, agentVars, faults, told, since>>

-----------------------------------------------------------------------------
(* The agent services: main() calls connect_mcp_tools, then serves         *)

Becomes(a, phase, attempt) == agent' = [agent EXCEPT ![a] = [phase |-> phase, attempt |-> attempt]]

\* The session of the attempt that a process is at, or has succeeded with.
Current(a) == {s \in sessions : s.agent = a /\ s.attempt = agent[a].attempt}
Live(s) == s.run = run

AgentStart(a) ==
  /\ agent[a].phase = "down"
  /\ Becomes(a, "connecting", 1)
  /\ UNCHANGED <<toolVars, sessions, version, faults, told, since>>

\* client.start() of an attempt: the server is up and opens a session.
Open(a) ==
  /\ agent[a].phase = "connecting" /\ agent[a].attempt \in 1 .. Attempts
  /\ run # 0
  /\ Becomes(a, "listing", agent[a].attempt)
  /\ sessions' = sessions \cup {[agent |-> a, run |-> run, attempt |-> agent[a].attempt]}
  /\ UNCHANGED <<toolVars, version, faults, told, since>>

\* list_tools_sync() answers: the client is kept in _clients and the agent serves.
List(a) ==
  /\ agent[a].phase = "listing" /\ \E s \in Current(a) : Live(s)
  /\ Becomes(a, "serving", agent[a].attempt)
  /\ UNCHANGED <<toolVars, sessions, version, faults, told, since>>

\* The end of a process closes whatever it holds.
Ended(a) ==
  /\ agent' = [agent EXCEPT ![a] = Down]
  /\ sessions' = {s \in sessions : s.agent # a}

\* client.stop(), which may raise; that is swallowed and leaves the session open.
Stopped(a) == sessions' \in {sessions \ Current(a), sessions}

\* Mutant of NextAttempt: the last failure raises nothing, and the process stays as it is.
SwallowsTheLast(a) ==
  /\ Becomes(a, "connecting", agent[a].attempt + 1)
  /\ Stopped(a)

\* The next attempt after a failed one.  After the last a RuntimeError ends the process.
NextAttempt(a) ==
  \/ /\ agent[a].attempt < Attempts
     /\ Becomes(a, "connecting", agent[a].attempt + 1)
     /\ Stopped(a)
  \/ agent[a].attempt = Attempts /\ Ended(a)

Unreachable(a) ==
  \/ agent[a].phase = "connecting" /\ run = 0
  \/ agent[a].phase = "listing" /\ \A s \in Current(a) : ~Live(s)

\* An attempt fails: nobody listens, the server died before it listed its tools, or
\* it is up and the request fails all the same.
Fail(a) ==
  /\ agent[a].phase \in {"connecting", "listing"} /\ agent[a].attempt \in 1 .. Attempts
  /\ \/ Unreachable(a) /\ UNCHANGED faults
     \/ ~Unreachable(a) /\ faults < MaxFaults /\ faults' = faults + 1
  /\ NextAttempt(a)
  /\ UNCHANGED <<toolVars, version, told, since>>

AgentCrash(a) ==
  /\ agent[a].phase # "down" /\ faults < MaxFaults
  /\ faults' = faults + 1
  /\ Ended(a)
  /\ UNCHANGED <<toolVars, version, told, since>>

\* An agent's model calls a tool over the session of its process; with a session that
\* died with its server it has no tools any more, for nothing opens another.
AgentAsks(a) ==
  /\ agent[a].phase = "serving" /\ \E s \in Current(a) : Live(s)
  /\ Query(NoHeaders) \/ Stateless(NoHeaders)

-----------------------------------------------------------------------------
Connector == \E h \in Headers : Query(h) \/ Stateless(h)

Next ==
  \/ Connector
  \/ ServerStart \/ ServerCrash \/ AwsChanges
  \/ \E a \in Agents : \/ AgentStart(a) \/ Open(a) \/ List(a) \/ Fail(a)
                       \/ AgentCrash(a) \/ AgentAsks(a)

\* Compose restarts what has ended, and a process that connects takes its steps.
Fairness ==
  /\ WF_vars(ServerStart)
  /\ \A a \in Agents : WF_vars(AgentStart(a)) /\ WF_vars(Open(a) \/ List(a) \/ Fail(a))

Spec == Init /\ [][Next]_vars /\ Fairness

-----------------------------------------------------------------------------
Phases == {"down", "connecting", "listing", "serving"}
Process == [phase : Phases, attempt : 0 .. Attempts]
Session == [agent : Agents, run : Nat \ {0}, attempt : 1 .. Attempts]

TypeOK ==
  /\ run \in Nat /\ started \in Nat
  /\ indexes \in Seq([key : Keys, estate : Estate])
  /\ answer \in {None} \cup [headers : Headers, estate : Estate, details : Estate \cup {None}]
  /\ agent \in [Agents -> Process]
  /\ sessions \subseteq Session
  /\ version \in 0 .. MaxVersion /\ faults \in 0 .. MaxFaults
  /\ told \in [Keys -> SUBSET (0 .. MaxVersion)]
  /\ since \in [Keys -> SUBSET Keys]

\* Is what was read that of the user who asks, and of the region that is asked for?
IsOwn(read, h) ==
  /\ read.user = (IF h = NoHeaders THEN Host ELSE h.user)
  /\ read.region = Or(h.region, Home)

\* Whoever else has asked, whatever was dropped to make room and whichever process
\* answers: a request with a pair of keys is answered from the estate of these keys, for
\* the region it names, one with no headers from the server's own, and the details that
\* describe_resource adds, read later with the session of the index, are of the same.
\* Nothing is claimed of headers that lack one of the keys: all of them are ignored, the
\* region too, although connector_auth.py:10 has it override the server's.
OwnEstate ==
  answer # None /\ (Authenticated(answer.headers) \/ answer.headers = NoHeaders) =>
    /\ IsOwn(answer.estate, answer.headers)
    /\ answer.details # None => IsOwn(answer.details, answer.headers)

\* "scanned once per user, then cached" (estate_server.py:3): as long as its index is
\* kept a user is told of one and the same scan; and the cache is bounded.
OneScanEach ==
  /\ \A k \in Keys : Cardinality(told[k]) <= 1
  /\ Len(indexes) <= MaxIndexes

\* Every answer to a request with a pair of keys, or with no headers, is read with the
\* credentials and for the region it names, and while their index is kept a user is
\* answered from one scan.
ServesOwnEstate == OwnEstate /\ OneScanEach

\* An index is dropped only after as many others have asked as the cache has places:
\* nobody's estate makes room for the one that came before it.
KeepsItsPlace ==
  [][\A k \in Keys :
       Cached(k) /\ ~(\E i \in DOMAIN indexes' : indexes'[i].key = k) /\ run' = run
         => \E key \in Keys : ~Cached(key) /\ Cardinality(since[k] \cup {key}) >= MaxIndexes]_vars

\* Once processes stop dying and live servers stop failing requests, every agent serves
\* and keeps the session over which it listed its tools, in whatever order the containers
\* came up, however often the attempts ran out meanwhile and whatever sessions the failed
\* ones have left open.
StackComesUp == <>[](\A a \in Agents : agent[a].phase = "serving" /\ Current(a) # {})
=============================================================================
