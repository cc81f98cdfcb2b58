# Formal models of the AWS FinOps / DevOps agent

TLA+ models of the deterministic core of this repository and of the processes
around it, the TLC configurations that check them, and TLAPS proofs about them.
Paths below are relative to the repository root. `PROJECT.json` has the index: which
definition models which lines, what each run checks, and the hazards.

    tlc -workers 2 -config guarded_serial.cfg MCGuardedActions   # one run
    tlapm GuardedActionsProofs.tla                                # the proofs

## 1. The system

Python. A language model chooses *tools*; every number and every change is made
by plain code below the tools. The models are of that code. The agent loop
(strands), AWS (botocore), Streamlit, FastAPI and the MCP library are outside:
what is assumed of them is stated where it is used.

    CLI   API   dashboard   MCP servers   A2A agents        (entry points)
      \     |       |           |            /
       agents and tools (one turn runs its tools in threads)
      /        |          |            |            \
    CostExplorer  AnomalyEngine  Optimizer  RemediationEngine  EstateIndex
      |  TTLCache                            |  pending.json     |  EstateScanner
      |                                      |  audit.jsonl      |  OrgResolver
      +---------------- AWS -----------------+-------------------+
    workflow/digest: eight of these calls in a thread pool, then delivery
    memory/store:    a JSON file of facts, shared by all processes

| component | state it keeps | operations | meets others by |
|---|---|---|---|
| guarded writes: `remediation/audit.py`, `actions.py`, `modes.py` | `audit/pending.json`, `audit/audit.jsonl` | `preview`, `apply` | two files without a lock, shared by CLI processes, API threads and dashboard sessions |
| response cache: `aws/cache.py` | dictionary and lock | `get_or_compute`, `clear` | threads of one process |
| cost: `cost/explorer.py`, `dates.py` | the cache | `summary`, breakdowns, `forecast` | billed requests in pages |
| anomalies and budgets: `anomaly/engine.py` | none | `anomalies`, `budgets` | pages, notes for gaps |
| optimization: `optimize/engine.py` | none | six sources, `all_recommendations` | pages and getters, notes for gaps |
| digest: `workflow/digest.py`, `delivery.py` | futures, sections, errors | `gather`, `render_markdown`, `deliver` | thread pool, then files and network |
| memory: `memory/store.py` | `<namespace>.json` and its `.tmp` | `add`, `search` | one file, one temporary name, many processes |
| estate: `discovery/engine.py`, `index.py`, `aws/org.py` | the cached estate | `estate`, `scan`, `list_accounts`, `assume_account` | tool threads; regions and accounts in turn |
| MCP servers, `connector_auth.py` | the estate server's cache of indexes, one per fingerprint of credentials | one per tool | HTTP requests with credentials, first-in-first-out eviction |
| agent services: `services/*.py`, `mcp_connect.py` | the session to a tool server | `connect_mcp_tools`, then serve | start-up order, retries, restarts |
| API: `apps/api/main.py`, `observe.py` | `lru_cache`d configuration and session, the meter of AWS calls | middleware, endpoints | threads; `finops.yaml`, edited meanwhile |
| router and agents: `router.py`, `agents/*.py`, `hooks.py` | `last_usage` | `answer`, `structured_answer` | one per request of the API, one for all threads of a chat |
| command lines: `finops_core/cli.py`, `devops_core/cli.py` | none | 23 commands | files, exit codes |
| configuration: `config.py`, `aws/session.py`, `models/router.py` | none | `Config.load`, `build_session`, `model_id` | read by everything above, once per process or once per call |
| telemetry: `telemetry.py` | the providers, first set up wins | `setup_telemetry`, `on_end` | spans leave the process |
| dashboard | session state, `FINOPS_MODE`, last diagram | reruns | process-wide variables |
| diagnose, review, topology, diagram | none | pure or read-only | tool results |

### What is hard, and what must hold

* **Guarded writes.** Read, truncate and write of `pending.json` interleave;
  a crash or an exception can come between any two, and a read that fails is taken
  for an empty file. No change may reach AWS
  without a preview of that action; the log may not claim a change that was not
  made; a change whose caller got an answer is in the log; a token works until
  it is used and pays once.
* **Cache.** Computes end out of order and may hang, and the lock is not held
  over them. An answer may not be a TTL old when it is asked for; nobody waits
  for another's request; a question answered a moment ago is not billed again.
* **Digest.** Tasks end in any order, some with an exception; pages and
  targets fail; months end; credits are negative. Every result must reach its
  own section, totals must add up, what was not read must be admitted, and
  every target must be tried.
* **Memory.** Sessions rename and truncate each other's temporary file, and a read
  that fails is an empty memory, which the next save makes permanent. No fact
  twice; the file is a whole document; what was remembered stays.
* **Dashboard.** Sessions share the environment and the slot of the last
  diagram; a click cuts a run short anywhere, inside `apply` too, and what it leaves
  behind runs on.
  Answers must stay with their questions, a turn must keep its own mode and
  diagram, a preview pays once, and reports must follow from what was read.
* **Estate.** Sources overwrite each other's records, stop at a page limit and fail
  one by one; so do accounts, and STS itself, and then the current account is scanned
  twice; concurrent first questions scan twice. What was read must be kept, each
  record as a source told it, and gaps must be noted.
* **Tool tier.** Services start in any order and die; a failed attempt may leave
  its session open beside the next one's. Credentials of several users meet in one cache that
  makes room. Everyone must be answered from an estate of their own, nobody may lose a
  place out of turn, and the stack must come up.
* **Entry points.** Threads make the cached configuration and session at once
  while the file is edited; the middleware hands a failed request on a second
  time; questions to one router overlap; two threads count at once while a third adds
  up; a command fails between two steps, or passes over a failure and returns 0. Nothing may be written that no loaded configuration
  permits, what a process tells of itself must be true, and what is to be hidden
  may not leave it.

## 2. The modules

| module | models |
|---|---|
| `GuardedActions` | the calls of `RemediationEngine` on the two files, step by step |
| `ActionModes` | what each operating mode permits; used by the next and by the dashboard |
| `ActionLedger` | abstract: a token is issued, pays at most once, or is lost |
| `GuardedActionsProofs` | theorems about `GuardedActions` |
| `ResponseCache` | `TTLCache` under threads, with a clock |
| `ResponseCacheProofs` | theorems about `ResponseCache` |
| `MemoryStore` | `LocalJSONMemoryStore`: files, names, open descriptors, and `search` |
| `Dates` | calendar arithmetic of `cost/dates.py` |
| `CostReport` | what `CostExplorer` makes of the pages of an answer |
| `Ordering` | Python's `sorted(..., reverse=True)` by a number, as the reports use it |
| `AnomalyReport` | anomalies, budgets and their notes |
| `Optimization` | six sources, what is kept when calls fail, dedup and ranking |
| `Digest` | composes the ones above: tasks, collection, report, delivery |
| `DigestProofs` | theorems about `Digest` and the engines it composes |
| `EstateDiscovery` | `EstateIndex.estate`, `EstateScanner.scan`, `OrgResolver` as the scan uses it |
| `EstateDiscoveryProofs` | theorems about `EstateDiscovery` |
| `Diagnosis` | signals about a resource, correlation, ranking, shape by mode |
| `Review` | best-practice rules on what could be read, counts and cut |
| `MemoryStoreProofs` | theorems about `MemoryStore` |
| `Dashboard` | composes `ActionLedger`, `Diagnosis` and `Review`: Streamlit sessions of one process |
| `DashboardProofs` | theorems about `Dashboard` |
| `Services` | tool servers with their cache of estates, the agent services that connect to them, and the restarts of both |
| `ServicesProofs` | theorems about `Services` |
| `Settings` | `Config.load` with its layers, what a session, a model and the snapshot make of the result |
| `Telemetry` | which exporter a process keeps, and what `on_end` does to a span |
| `Specialists` | the choice of an agent, its model, guard, memory and meter; extends `Settings` and `ActionModes` |
| `Commands` | each command of both command lines as the steps it takes |
| `Surfaces` | composes the last four: API, chat or command line as one process under an edited `finops.yaml` |
| `SurfacesProofs` | theorems about `Surfaces` |
| `MC...` | the constants of the runs |

### How state and actions correspond to the code

**GuardedActions.** `file` is the content of `pending.json`: a JSON object, an
empty file (opened for writing and not yet written) or bytes that do not parse.
The last occurs when a shorter text is written over a longer one by a writer
that truncated earlier. A read that finds either takes it for no tokens, and so
does one that fails on a file that is whole, for `_read_pending` catches whatever is
raised: `ReadPending` has both outcomes. `log` is `audit.jsonl`. The steps of a call are exactly the
points where another process can look: `PreviewRead`, `MintOpen`, `MintWrite`;
`ApplyRead` (or `ApplyReject`), `ConsumeOpen`, `ConsumeWrite`, `Execute` (or
`ExecuteFails`, which may have made the change), `RecordApplied` (or
`RecordFails`, caught by `apply`'s own `try`), `RecordError`. `Raise` is an
exception nothing catches, `Crash` the death of the process. `minted`, `misread`
(the previews whose read failed), `writes` and `outcome` are history. Two specifications share the actions: `Spec` lets
calls interleave, `SerialSpec` is one operator with one terminal.

**ResponseCache.** A value is known by the moment it was read at the source.
`Enter` reads the clock before the lock is taken; `Acquire` takes it for the
lookup or the store; `Hit`, `Miss`, `Compute`, `ComputeFails` and `Store` are
the rest. `Store` stamps an entry with the time its call began.

**MemoryStore.** `inode` holds contents, `path` and `tmp` are the two names,
`call[s].fd` is the file a session has open; so one session can go on writing a
file that another has renamed. `Load` is what the file holds, or nothing when the read
fails; `forgotten` is history, the facts such a read has left out of what is saved next. `add` is `BeginAdd`, `AlreadyKnown` or
`AppendNew`, `OpenTmp`, `WriteTmp`, `Replace` or `ReplaceFails`; `Abort` is a
crash or an `OSError` anywhere, half-way through a write included. `Hits` is
`search`; the sort is stated by places, an entry's being the number of those that come
before it (`Ranking`), and so are those of the reports (`Ordering`). Redaction makes facts that differ only in an account id the same.

**Digest.** `Run(k)` is the task of section `k`, which asks for the date itself;
`Collect` is the loop over the futures in the order of submission; `Render`;
`Deliver` one target at a time; `Midnight` the change of day in between. What a
section says follows from `world`, the answers of AWS, through the operators of
`CostReport`, `AnomalyReport` and `Optimization`.

**EstateDiscovery.** A scan is a list of requests still to be made, `todo`, built
as the loops of `scan` and `_scan_one` build it, and what it has collected:
`fresh`, the dictionary `seen` of the account in hand; `seen`, the merged one;
`notes`; `used`. A request names the session that makes it, for the current account can be
scanned with the process's session (`Own`) and again as a member. `Says` gives the pages
of an answer and `PageLimit` how many of them are read. `ok` is history: the requests that
were answered. Each source has an action, `SourceFails` stands for their `except` branches;
`Identify` is `_caller_account`, without whose answer `Others` leaves the current account
among the members; `ListAccounts` and `ListCurrentAccount` are `list_accounts` and its
fall-back, an account whose id is not known included; `Assume`, `AssumeFails` and
`AssumeUnknown` are `assume_account`. `Ask` starts a scan if nothing is cached, `Store` caches it.

**Dashboard.** `mode`, `pending` and `chat` are the `session_state` of each
session; `env` is `FINOPS_MODE` and `last` the registry's slot, which belong to the
process; `turn` has the questions asked of the estate agent. `Ask` shows the
question, exports the mode and clears the slot; `Draw` is a tool of the agent;
`Answer` takes whatever the slot holds. Streamlit starts a new run of the script
for every click: `Abandon` leaves the waiting run to itself, its tools go on, and
`Stop` ends it at its next use of Streamlit, so that its answer is lost. A click on
Apply enters `apply` (`ClickApply`, which looks the token up) and leaves it by `FailApply` or by
`TakeToken`, which rewrites the file of tokens, and `EndApply`, which makes the change;
`inside` has the calls that have not returned. Until then `pending_action` is there, so that
a second click (`LeaveApply`, then `ClickApply` again) starts another call with the same token.
`Popped` may be cut short before `pop("pending_action")`. To the ledger the calls are the steps of
`ActionLedger`, except that a call that was crossed by another between look-up and rewriting
may find its rewriting undone (`crossed`, `overlap`); `LoseTokens` is what calls made elsewhere
may do. The two buttons of
the fast path show `DiagnoseService` and `ReviewService` of a world of answers.

**Services.** `run` is the process of the tool server that is up, and a session
remembers the process that opened it: after a restart it is dead. `indexes` is
`_index_cache` in the order of insertion. FastMCP calls a plain function on its
event loop, so a tool call is one step: `Hit`, `Miss`, or `NoSession`, where
`build_session` raises after room was made. A request is its headers: a user or not, a
region or not. `CredKey` and `SessionOf` are the two functions of `connector_auth.py`, which
heed the headers only when both keys are there (`Authenticated`). `answer` keeps the headers
beside what was read, so that the properties compare the two; `details` are what
`describe_resource` reads live. `Open`, `List` and `Fail` are the attempts of
`connect_mcp_tools`, `Fail` on a live server included; `Stopped` is `client.stop()`, whose
failure is swallowed and leaves the session open; the last failure ends the process
(`NextAttempt`). `told` and `since` are history.

**Settings, Telemetry, Specialists, Commands.** Functions of their inputs, with no
state. `Load` takes the two files and the environment to a record of settings,
variable by variable: some replace when empty, some switch off, some are
ignored. A command is a sequence of steps, each of which says what becomes of its
failure: an error and code 2 (`caught`), a traceback and code 1 (`raises`), a note that is
printed with what was found (`noted`), or nothing (`silent`). After the last two the command
goes on and returns 0.

**Surfaces.** `kind` says which entry point the observed process is, `file` which
version of `finops.yaml` is there. A configuration is the number of the version it
was loaded from, so `cfg` and `session` of a request, and the two caches, are
numbers. `lru_cache` lets threads that miss together all call the function and
keeps what is stored first: `AskConfig` and `KeepConfig`, `AskSession` and `KeepSession` are
its two halves. `Raised` is the middleware's `except`. `Received` and
`Count` are the two halves of the meter's increment, `AddUp` and `Metrics` those of
`/metrics`, which raises when the dictionary grows while it goes through it. `StsAnswers`
is the call of `build_session` that AWS answers before there is a session to meter. `Reset`, `RunAgent` or
`RunRemote`, `Record`, `Check`, `Note`, `Answer` are the uses of
`router.last_usage`. `Command` runs a whole command, for nothing of the process
outlives it. `writes`, `loads`, `calls`, `unmetered`, `raced`, `lossy` and `sent` are history.

## 3. The runs

| run | question | result |
|---|---|---|
| `guarded_concurrent` | two callers, four calls, crashes everywhere: authorisation, truth and completeness of the log | holds |
| `guarded_serial` | calls that do not overlap: single use, spent tokens stay gone, previewed tokens work unless something crashes, raises or misreads, and refinement of `ActionLedger` | holds |
| `guarded_double_apply` | is a token single-use when calls overlap (`audit.py:43`)? | **no** |
| `cache_threads` | staleness, no blocking, and no second bill while calls do not overlap | holds |
| `memory_sessions` | no duplicates ever; while adds do not overlap, a whole document that loses nothing but to a failed read; what a search answers | holds |
| `digest` | every order of tasks, failures of sections, pages and targets, midnight: sections, spend, savings and gaps are sound, every target is tried | holds |
| `estate` | two scans that may overlap, one with up to three failures, STS among them, and an answer longer than is read: what was read is kept or its loss noted, records are as a source told them, later questions share the scan, questions end | holds |
| `estate_silent` | does every unavailable source become a note (`engine.py:5`) when Organizations fails? | **no** |
| `dashboard` | two sessions, every mode, clicks that abandon runs or come while `apply` works, lost tokens: answers follow their questions, turns that do not overlap keep their mode and diagram, a change is of the session's own preview, which pays once unless calls cross, reports are sound | holds |
| `dashboard_inherited` | does a session open in the configured mode (`SPEC.md:522`)? | **no** |
| `services` | a tool server and an agent that die, requests and `stop()` that fail, a user's credentials for two regions beside the server's own, two places in the cache: own estates, one scan each, fair eviction, and the stack comes up | holds |
| `surfaces` | API, chat and all commands under three environments while `finops.yaml` is edited twice: writes were allowed, usage, counts and exit codes are true, nothing leaks | holds |

The three answered *no* are disagreements between the code and a comment, a docstring or the
specification; `PROJECT.json` quotes both sides under `findings`. Further disagreements, which
the models allow for and no run singles out, are in section 5.

### Bounds, and why they are enough

* `MaxCalls = 4`, two workers, two tokens, two listed actions, one unlisted,
  two params of which one is the empty dict. A stolen or resurrected
  token needs three calls (preview, and two that overlap or follow); the fourth
  lets a second token be in play. The proofs have no such bound.
* Two threads, one key, `TTL = 2`, `MaxTime = 3`: a stamp can be younger, as
  old, and older than a TTL, and a slow compute can outlive a fast one. Keys
  meet only at the lock, which does not know them. The proofs have no bound.
* Two sessions, three facts of which two become one when redacted, two queries'
  worth of scores. `Files` has a file for each name and one open file per
  session, which is the most there can be. Any read may fail.
* `MCWorlds`: a plain world and those that differ from it in one respect.
  Sections do not share state, so worlds that differ in two sections
  show nothing more, except for the duplicates of optimization sources, which are
  combined. Days: a leap day, the end of a year, the first of a month.
  Amounts are integers, `Scale` of which make the sixth decimal.
* Three accounts with no, an empty and a recording aggregator; two regions;
  keys that are found by one, two and three sources and in two accounts; answers of one,
  two and three pages, of which two are read (`PageLimit`). Three requests of one scan may
  fail (`MaxFailures`), anywhere in it: that is enough for both questions to STS and the
  listing of the accounts to fail together, after which an account of unknown id is left. None
  of a scan that overlaps it fails, which shows the two apart.
* Two sessions, two questions, one preview: an answer can be late, a diagram
  stale and a mode another's with two questions. Two changes, or calls that may make one,
  are enough for one token to pay twice, and a session has one call it waits
  for and one it has left. `MaxClicks = 3` bounds questions and changes together, for they share
  the modes and nothing else: two of one and one of the other meet. Other processes cross the calls without a token of their own
  (`LoseTokens`). Reports read the mode of their session and nothing
  else, so they are asked for while only one session is open (`Fresh`). Logs
  with every mix of six kinds of lines; every combination of alarms; every
  request failing alone; up to three settings bad, two findings shown. The theorems are for
  any number of sessions, tokens, questions and clicks.
* One agent service, a user and the server's own credentials, two regions, headers
  whole or in part, `MaxIndexes = 2` for the twenty of the code, `Attempts = 2` for fifteen, one
  change in AWS. Three keys are enough to fill two places and to evict; what is cached is told
  apart from what is there by one change. Two faults (`MaxFaults`), crashes and failed requests
  together, so that the server can die between an attempt's `Open` and its `List`, or a request
  fail on a live one and leave its session open, and the agent die too. Agents share a server
  but no state. The proofs have no bound but those constants, at any value.
* Two requests at a time, three versions of the file (the mode is withdrawn
  together with the profile, then mistyped), three environments (nothing
  set; a collector, switches emptied; a number mistyped). Two threads are enough
  for each race of `lru_cache`, meter and router, which all are between a read
  and a write. Every command is run with every set of failures. The theorems are for any
  number of requests, versions and environments.

`CHECK_DEADLOCK FALSE`: callers stop calling, the digest ends, time is bounded,
a command is over.

### Fairness

* `ResponseCache`: strong fairness of each thread's own steps, taking the lock
  included, for the platform's lock does not starve a waiter for ever. None for
  `Compute`: a request may hang, and `NeverBlocked` is about the others.
* `Digest`: weak fairness of "some task runs" (eight tasks, eight workers, each
  once, its requests bounded by botocore's timeouts and retries), of the
  collecting loop, of rendering and of delivery, which are one sequential thread.
* `EstateDiscovery`: weak fairness of each scan's next step, for the same
  timeouts. None for asking.
* `Services`: weak fairness of the restart of each process, which
  `restart: unless-stopped` in `docker-compose.yml` gives, and of the steps of a
  process that connects, which is one thread with a two-second sleep. None of
  requests, faults or changes in AWS; faults are bounded, so `StackComesUp`
  says that the stack comes up once nothing dies or fails any more.
* `GuardedActions`, `MemoryStore`, `Dashboard`, `Surfaces`: none; their
  properties are safety.

## 4. The proofs

`GuardedActionsProofs`, for all workers, tokens, actions, params and any number
of calls. Assumed: `NoParams \in Params`, the allowlist and the unlisted actions
are disjoint, `MaxCalls \in Nat`.

* `Typing`: `Spec => []TypeOK`.
* `WritesAuthorised`: `Spec => []AuthorisedWrites`. The inductive invariant,
  `CustodyInv`, says that every entry anywhere (in the file, in a call's copy of
  it, in the hands of an `apply`) was minted. It is needed because a write is
  authorised by what the caller *read*, and the file is rewritten from copies.
* `LogIsTruthful`: `Spec => []AuditTruthful`, with the fact that a call about to
  record "applied" has made its change with the params it will record.
* `AnswersAreAudited`: `Spec => []AnsweredWritesAudited`. `AnsweredInv` adds
  that no two running calls have the same number and none a number not yet
  given (`CallsDistinct`), so that a write tells its call, and that a preview
  writes nothing.
* `TokensAreSingleUse` and `SpentTokensStayGone`: for `SerialSpec`. `SerialInv`
  says that at most one worker is busy, that its copy of the file has no spent
  token (a read that fails gives a copy that has none at all), and that the token it is about to spend is not spent. Without "at most
  one is busy" it is not preserved, which is what `guarded_double_apply` shows.
* `PreviewedTokensWork`: `SerialSpec => []PreviewedTokenWorks`. `KeptInv` says where every
  token is, as long as no call has crashed, raised or previewed from a read that failed: in the
  log, with the call that runs, or in the file unless that call is rewriting it. An apply whose
  read fails loses nothing, for it is rejected and does not write.
* `CallsImplementTheLedger`: `SerialSpec => ImplementsLedger`, the refinement. Its three
  lemmas say what a step is to the ledger: `PreviewIssues`, `ExecuteSpends`, and for all
  others `LosesAtMost`. `SerialInv` is what makes a token that is spent one that was
  outstanding.

`ResponseCacheProofs`, for all threads, keys, TTLs and clock bounds. Assumed:
`TTL` and `MaxTime` are naturals, `NoEntry` is no entry. `Typing`, and `AnswersAreFresh`:
`Spec => []BoundedStaleness`. The latter is not inductive, since a hit answers
what another call stored; `Ages` says of every value in the cache or in the
hands of a thread that it was read no earlier than its stamp. `RepeatsAreServed`:
`Spec => []SerialRepeatIsServed`. As long as no two calls have overlapped, one thread at
most is in a call, every stored request has left an entry at least as new, and the call in
progress began no earlier than any of them.

`DashboardProofs`, for all sessions, tokens, actions and numbers of questions.
Assumed: `Configured` is a mode, `Unset` is none, `MaxTurns` and `Limit` are naturals, the
tokens are finitely many, and a log line is of a kind that the filter lets through
(`IsDiagnosisWorld`). Of a resource under review nothing is assumed.
* `DashboardType`: `Spec => []TypeOK`. That what was performed and what is inside `apply` are of
  the sessions' own previews needs the next one's invariant.
* `DashboardPaysOnce`: `Spec => []AppliesOwnPreviewOnce`. `PaymentInv` adds that what a session has
  pending is a preview of its own, as is what every call inside `apply` is for, abandoned ones
  included; and, as long as no calls have crossed (`SerialLedger`), that one call at most has a token
  looked up, which is then still there, and that a token that pays or has paid is marked
  spent. The first is why the change is the previewed one, the second why a pending entry that
  outlives its payment, or a second click, cannot pay again. Once calls have crossed nothing
  is claimed of paying twice: then they do, as `guarded_double_apply` shows of the ledger.
* `DashboardAnswersFollow`: `Spec => []AnswersFollowQuestions`. `ChatInv` says that a chat shows
  each question once and that nothing stands behind one the agent is still thinking about.
* `DashboardTurnsAreTheirOwn`: `Spec => []TurnsAreTheirOwn`. `AloneInv` says that a turn that
  is marked alone is the only one that runs, so that the environment and the slot are its own.
* `DashboardReportsAreSound`: `Spec => []ReportsAreSound`. `ReportInv` says that what is shown is what
  the fast path made of some resource, in a mode; the rest is about its code. `Correlated` is carried through
  `correlate` rule by rule: each cause once, a hypothesis for every alarm and every line that the rules know, a
  change only beside a fault; `OrderIs` says that sorting goes once through every item, so that ranking loses none
  and the cut of a review leaves the worst, and `SameNumber` that its counts are of all that was found. That a
  review blames only what it has read is proved of all but the settings of a bucket, of which it is false.

`EstateDiscoveryProofs`, for all callers, accounts, regions, sources' answers and numbers
of pages and failures. Assumed: the callers are finitely many, accounts and regions are lists without
repetition that contain the account and region the scan starts from, the process's own session and the
account of unknown id are none of the accounts, and a recorder that
does not record has nothing to say. One inductive invariant, `EstateInv`, carries four theorems.
* `EstateIsScannedOnce`: `Spec => []SerialScansOnce`. `OneScan` says that as long as no two
  scans have overlapped, one at most is running, nothing was cached before it, and once
  there is an estate it is the first and no scan runs.
* `EstateIsTyped`: `Spec => []TypeOK`: what is in hand is of the session whose turn it is.
* `EstateTellsAndAdmits`: `Spec => []EstateIsAccounted`: the estate has what was *read* of
  the answered requests, and of the process's own session and every account that was *listed*, what
  was not answered is noted. What a scan has when it
  ends depends on what was still to be asked when each failure came, so that the invariant
  has to speak of the agenda: `Agenda` says that the requests left stand in the order of
  `scan`'s loops, that those of an account end with its merge, and that accounts not begun are
  still to come; `Hoard` that what is collected is exactly what was read;
  `Reach` that every request of every listed account was answered, noted, or is left. Whether
  the current account is among the members, as when STS does not tell it, makes no difference to it.
* `EstateRecordsStand`: `Spec => []RecordsStand`. `Hoard` says of each key that the record that
  stands is of a source of its session that told of it, that of the tags only where no other
  did, and that of a member where one told of it. Of Config and Resource Explorer
  neither is called better, for the code and its documents disagree (section 5).

`MemoryStoreProofs`, for all sessions and facts. Assumed: the sessions are
finitely many, and a document is neither an empty nor a torn file.
* `MemoryType`: `Spec => []TypeOK`. That a new file can always be had is an
  argument about numbers: the two names and the descriptors of the other sessions never
  take all the files.
* `MemoryNoDuplicates`: `Spec => []NoDuplicates`. `OnceInv` says it of every file,
  the temporary ones included, and of what every session is about to write.
* `MemorySerialDurability`: `Spec => []SerialDurableFacts`. `SerialInv` adds, as long
  as no two adds have overlapped, that one session at most is active, and that what it has
  prepared is what it read, the file or nothing, with its fact appended; what such a read has
  left out is in `forgotten`, and nothing else is ever lost.
* `MemorySearchRanks`: `Spec => []SearchRanks`: the answer has entries that match, each once, no
  more than the limit, by score and then age, and what matches and is left out comes behind all
  of a full answer. `RankingIs` shows that every entry has a
  place of its own and every place an entry, by counting those that come before.

`ServicesProofs`, for all agents, users, regions and sizes of the cache. Assumed:
`MaxIndexes` and `Attempts` are positive, the values for absence are none of the others.
* `ServicesType`: `Spec => []TypeOK`.
* `ServicesServeOwnEstate`: `Spec => []ServesOwnEstate`, which compares an answer with the
  headers of its request: with a pair of keys it is of those keys and of the region that is
  named, without any header of the server's own, live details included. `CacheInv` says that the
  cache has each key once, with an estate of that key's session, and that the
  key determines the session; a key that left the region out would break the last. Headers that
  name a region or one key and not both are outside it (section 5).
* `ServicesKeepTheirPlace`: `Spec => KeepsItsPlace`. The invariant says that whatever stands
  behind an entry has been asked for since it was put in, so that the oldest of a full
  cache has seen as many others as there are places.

`SurfacesProofs`, for all requests, questions, contents of the file and
environments. Assumed: the file has some content, and `Shared` is no request.
* `SurfacesWritesWereAllowed`: `Spec => []WritesWereAllowed`. `SafeReq` says, by the
  place a request is at, that its configuration was loaded, and that unless two threads
  raced it is the one that is cached and its session is of that one; `/metrics` asks for neither.
  `CommandsAreOrderly` goes through the 23 commands: none
  writes before it has asked. `WritesInv` then says more than the property: each
  write is permitted by the very configuration it was made with.
* `SurfacesNothingLeaks`: `Spec => []NothingLeaks`, from `OnEndCleans`, a lemma about
  `on_end`, and the fact that the handle never changes once it is there.
* `SurfacesTellTheTruth`: `Spec => []TellsTheTruth`, from three invariants. `MeterInv`: what a
  counting thread has seen, with what was answered before a meter was attached (`unmetered`), is
  less than what has been answered, and until two threads count at
  once it is what is stored; what `/metrics` has added up is no more either. `AnswerInv`: of a question
  that has its router to itself, the slot holds nothing or its own usage, by the place it is at; a
  chat's question that is not marked as joined is the only one there. `ExitInv`, from
  `CommandsKeep`: each command has a step for each of its promises and passes over none, and of
  those it may fail to read, where the code notes failures at all, it notes each.

* `SurfacesAreTyped`: `Spec => []TypeOK`, from the invariants above and `TypedInv`, which adds
  the types they do not mention.

`DigestProofs`, for all worlds: any dates, any pages of costs, anomalies and budgets, any
findings of the six sources, any calls that fail, any targets. Assumed of them
(`IsWorld`): the day is a day of the calendar, the answers have the types in which AWS
documents them, a failing call is one of those that are made. `TopN` is a natural and
`Scale` positive.
* `DigestIsTyped`: `Spec => []TypeOK`. `DayInv` says that today is the day the digest began
  on or, in a world with a midnight, the day after, and of each task that its range is the one
  of one of these two days. That every range begins and ends on a day of the calendar is
  arithmetic: `YearIs`, `DayFound` and `DateIs` say that the conversion of `datetime.date`
  to a number and back loses nothing, in leap years and across the ends of years.
* `SectionsStayTheirOwn`: `Spec => []SectionsAreTheirOwn`. `OwnInv` says of each section that it is
  untouched before its turn and has its own task's outcome after it, and that the errors are those
  of collected sections, each once and in their order.
* `SpendStaysSound`: `Spec => []SpendIsSound`. That the months adjoin follows from `DayInv`
  and `OwnInv`. The rest is about the code of `_grouped_cost`: `AddsUp`, kept by each step of its loop,
  says that the totals have the keys of the lines read so far, each once, with what these lines come to;
  sorting and cutting then keep the sum, and each rounding slips by half a unit at most.
* `SavingsStayBest`: `Spec => []SavingsAreBest`. `BestOf`, kept by each step of the loop
  of `all_recommendations`, says that the dictionary has every key of the recommendations met so far,
  once, with a largest one.
* `GapsStayNoted`: `Spec => []GapsAreNoted`, from `NotedIs`: a source that has a failing call, and
  has no note, has lost nothing (Trusted Advisor excepted).

Sums, folds and sorted lists are defined by recursion in the community modules, and what
they compute is proved by induction. The library's induction theorems take an operator
as a parameter, which none of the provers here can instantiate; so induction is over sets: a set
of numbers has a least element (`NatMin`, from the library's `WFMin`), whence a set that has
0 and with each number the next has them all (`UpTo`), and likewise for finite sets (`FiniteInduction`).
`RecursionExists`, `FoldExists` and `WalkExists` show that the functions these
definitions choose exist. For the same provers' sake the models sort by places, and build lists
by `FlattenSeq` where the code appends under a condition.

Every invariant that a run checks is the statement of a theorem. Model-checked only are the
liveness properties `NeverBlocked`, `EveryTargetIsTried`, `QuestionsEnd` and
`StackComesUp`, which are out of reach, for TLAPS does not do fairness and `ENABLED`.

## 5. Observations

Seen while modelling, and not all given a run of their own:

* Guarded writes, overlapping calls: a preview that read before an apply wrote
  brings the spent token back; two previews lose one of their tokens. A
  crash between the AWS call and the record leaves a change that is not in the log
  (`SPEC.md:390` says every action is logged). `apply` executes params other
  than those previewed when it is given any (`SPEC.md:351`). A read of an intact
  `pending.json` that fails is taken for an empty one (`audit.py:26`), and the next preview
  rewrites the file without any earlier token.
* Cache: threads that miss together are all billed (`cache.py:22`).
  A slow compute replaces a newer entry (`cache.py:24`), so that a question that
  was answered a moment ago is billed again, against `cache.py:1`. Expired entries are never
  evicted, and keys hold resolved dates. `apps/api/main.py:79` builds a fresh
  cache per request, so there the TTL does nothing.
* Optimization: one action that two sources file under different categories is
  recommended, and its saving counted, twice (`schemas/optimize.py:28`).
* Memory: overlapping adds lose facts, and one session can rename the temporary file another
  has just emptied, so that the memory is unreadable until the next save, which starts from
  nothing (`store.py:63` says "atomic swap"). A read that fails does the same with one session and no crash
  (`store.py:56`). Metadata that is not a string is stored
  without redaction (`store.py:73`).
* Digest: on the first of a month the month to date is an empty range, which
  Cost Explorer refuses; the spend is shown as 0 and the change as -100 %.
  If a month ends while the digest is made, its two totals need not adjoin.
  An account whose budgets could not be read is told "none configured"
  (`digest.py:94`), as the report drops the engine's note.
  A Trusted Advisor check that fails is skipped without a note; Compute
  Optimizer is read one page deep.
* Dashboard: a second click on Apply that comes before the first call has rewritten the file of
  tokens finds the same token, and both make the change (`app.py:326`; `audit.py:43` says
  "Single use."). Turns that overlap set each other's mode and take or clear each
  other's diagram. The estate agent is cached for all sessions, conversation included.
  "Fully drilled in" (`app.py`) cannot be reached, since the last level is not offered.
* Diagnosis: signals that could not be read count as none, so "no active fault" is
  also said of a resource nothing could be read of; an alarm on a metric that no
  rule knows, and an error line that none matches, leave a resource "healthy"
  although `correlate.py:90` speaks of "an active alarm with no matched pattern".
* Review: a setting of a bucket that cannot be read is reported as a finding, against
  `fetch.py:2` ("a failed describe yields a noted, empty review").
* Estate: an organization whose accounts cannot be listed is scanned as one
  account, without a note (`estate_silent`). Sources stop at
  a fixed number of pages and say nothing (`config_agg.py:27`, `resource_explorer.py:12`,
  `tagging.py:12`; `SPEC_DEVOPS.md:12` says the entire estate is scanned); when the regions cannot
  be listed the home region alone is scanned, without a note. A record of Resource Explorer takes the place
  of Config's (`engine.py:65`), although `config_agg.py:1` and `SPEC_DEVOPS.md:63` call Config the
  richest. When STS does not tell the current account, it is scanned a second time as a member
  (`engine.py:97-104`). Overlapping first questions scan
  twice (`index.py:3` says once); the fall-back of `list_accounts` is cached for
  the resolver's life.
* Configuration: an empty `FINOPS_REDACT_ACCOUNT_IDS` switches redaction off, an empty
  `FINOPS_ROLE_ARN` or `FINOPS_MODE` overrides the file. `SPEC.md:268` names a variable
  `FINOPS_MODEL_OPT`, the code reads `FINOPS_MODEL_OPTIMIZATION`. The order of layers in the
  comment at `config.py:3` is not the one at `config.py:169`. Nothing reads `fallback`,
  `require_confirmation` and `athena_max_scanned_gb`.
* Telemetry: `docs/OBSERVABILITY.md:58` says that ids are always redacted unless the
  content mode is `full`; `telemetry.py:279` does so only while `redact_account_ids` is
  on. The description of a span's status is not redacted; a content mode that is mistyped
  leaves the events as they are. Telemetry keeps the configuration it was
  first set up with.
* API: the `except` of the middleware (`main.py:56`) hands a failed GET on again, which is
  billed twice; a POST is handed on too, but its body has been read. When two threads
  make the caches at once, the mode of one version of the file may go with the profile
  of another. Configuration and session stay until the process is restarted, a mode that
  is withdrawn included. The AssumeRole of `build_session` is answered before the meter is
  attached (`main.py:73-74`), so it is in no count of `/metrics` (`main.py:138`: "AWS API call
  counts"); `/metrics` itself fails when another thread adds an operation while it goes through
  the counts (`observe.py:59`). A preview whose
  authentication is misconfigured answers 404, an apply 500.
* Router: questions to one router that overlap lose answers (`router.py:88-89`) and may
  report each other's usage. The orchestrator's agent has no `ReadOnlyGuard` hook
  (`orchestrator_server.py:43-51`).
* Command lines: several commands end in a traceback where others print an error;
  `finops digest` returns 0 although a delivery failed (`cli.py:544`). `optimize`, `anomaly`, `scan`,
  `review` and `diagnose` return 0 when every call to AWS has failed, with notes of what they could
  not read; of what a diagram leaves out, of the metrics of a review and of most signals of a
  diagnosis (`signals.py`) not even that.
* Tool servers: an agent that serves keeps the session of a tool server that was
  restarted, and has no tools from then on (`mcp_connect.py:20`). An attempt that fails on a live
  server and whose `stop()` fails too leaves its session open (`mcp_connect.py:25-28`). Headers
  that name a region and no keys are answered for the region of the server (`connector_auth.py:49`),
  although `connector_auth.py:10` calls the header a "region override"; one key alone is ignored. A request whose session cannot be built
  drops the oldest index first (`estate_server.py:43-47`). An estate that failed in part is
  cached like any other, and never refreshed. Credentials that rotate fill the twenty places.
  The anomaly server's forecast is ignored (`anomaly_server.py:48`).

## 6. What is left

All of the plan's modules are written. What could still be added, by its worth:

1. A session of an agent that outlives its tool server, if the code comes to reopen it:
   `StackComesUp` would then ask for a live one.
2. Estate queries (`list`, `find`, `summary`), the dashboard's drill-down, and the
   rules on the code of a function, each against a reference definition.

### Not modelled

* Prompts, skills and steering files: text for a model. Whether an agent has skills is in
  `Specialists`.
* The loop of an agent (strands), MCP's and FastAPI's own machinery, botocore: external.
  What is assumed of them is said where it is used.
* Topology, details and diagrams (`discovery/topology.py`, `discovery/details.py`, `diagram/`): they read
  and draw, keep nothing, and what is right about a layout is a matter of looking at it.
* `format.py`: wording. Metrics and logs of telemetry, and the construction of exporters:
  best effort, their failures are swallowed.
* `orchestrator_server.py`: it discovers its specialists with an external tool.
* The stdio transport, and the chat server of `devops`, which keeps one agent.
* IAM policies, images, scripts: configuration. The restart policy of the compose file is
  the fairness of `Services`.
