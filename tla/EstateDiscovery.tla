-------------------------- MODULE EstateDiscovery --------------------------
(***************************************************************************)
(* The estate of devops_core/discovery: EstateScanner.scan asks one source *)
(* after the other, account by account, and EstateIndex scans when it is   *)
(* first asked and keeps the estate for the life of the process.           *)
(*                                                                         *)
(* A request is <<session, source, region>>: the session of the process,   *)
(* or a role assumed in an account, named like the account.  It is         *)
(* answered, page by page up to the limit of its source, or it fails.  Of  *)
(* a record only its key and the request's session and source are kept.    *)
(***************************************************************************)
EXTENDS Integers, Sequences, FiniteSets, SequencesExt

CONSTANTS
  Callers,      \* tool calls of the agent, each in a thread of its own
  Own,          \* the session of the process
  Current,      \* the account that session is of
  Unknown,      \* the id of an account when STS does not tell it
  Members,      \* the organization's accounts in the order they are listed
  Home,         \* the region of the configuration
  Enabled,      \* the regions that are enabled, in order
  Says,         \* [request -> the pages of its answer, sets of keys of resources]
  PageLimit,    \* [source -> the pages that are read of an answer]
  Aggregators,  \* [session -> "none" | "empty" | "recording"]
  FanOut,       \* whether to scan the members as well
  MaxFailures   \* bound: [caller -> the requests of its scan that may fail]

\* What is read of an answer.  The pages past the limit are left unread, and
\* nothing is noted.
Read(request) ==
  UNION {Says[request][i] : i \in {j \in DOMAIN Says[request] : j <= PageLimit[request[2]]}}

ASSUME EstateAssumption ==
  /\ IsFiniteSet(Callers)
  /\ Members \in Seq(ToSet(Members)) /\ IsInjective(Members) /\ Current \in ToSet(Members)
  /\ Enabled \in Seq(ToSet(Enabled)) /\ IsInjective(Enabled) /\ Home \in ToSet(Enabled)
  /\ FanOut \in BOOLEAN /\ MaxFailures \in [Callers -> Nat]
  /\ {Own, Unknown} \cap ToSet(Members) = {} /\ Own # Unknown
  /\ \A a \in ToSet(Members) \cup {Own} :
       Aggregators[a] # "recording" => Read(<<a, "config", Home>>) = {}

VARIABLES
  index,    \* EstateIndex._estate
  scan,     \* [caller -> its scan, or None]
  stores,   \* history: estates stored so far
  overlap   \* history: two scans have run at once

vars == <<index, scan, stores, overlap>>

\* No estate yet, no scan running.
None == [kind |-> "none"]

Sources == {"config", "resource-explorer", "tagging"}

\* The requests of _scan_one with a session, and the end of it.
Plan(session, regions) ==
  <<<<session, "config", Home>>>>
    \o [i \in DOMAIN regions |-> <<session, "resource-explorer", regions[i]>>]
    \o [i \in DOMAIN regions |-> <<session, "tagging", regions[i]>>]
    \o <<<<session, "merge", Home>>>>

\* A new scan: what is left to do with the session in hand and the accounts that
\* follow, whether STS has told the current account, the records of the session
\* in hand and those before it, and the notes and sources of the estate; `ok` is
\* history, the requests that were answered.
NewScan ==
  [todo |-> <<<<Own, "regions", Home>>>>, accounts |-> <<>>, regions |-> Enabled,
   known |-> FALSE, fresh |-> <<>>, seen |-> <<>>, notes |-> {}, used |-> {},
   ok |-> {}, failures |-> 0]

Init ==
  /\ index = None
  /\ scan = [t \in Callers |-> None]
  /\ stores = 0
  /\ overlap = FALSE

-----------------------------------------------------------------------------
\* Mutant of Ask: the estate is scanned for every question.
AskAlways(t) ==
  /\ scan[t] = None /\ stores < Cardinality(Callers)
  /\ scan' = [scan EXCEPT ![t] = NewScan]
  /\ overlap' = (overlap \/ \E u \in Callers : scan[u] # None)
  /\ UNCHANGED <<index, stores>>

\* estate() with nothing cached; with an estate it answers and changes nothing.
Ask(t) ==
  /\ scan[t] = None /\ index = None
  /\ scan' = [scan EXCEPT ![t] = NewScan]
  /\ overlap' = (overlap \/ \E u \in Callers : scan[u] # None)
  /\ UNCHANGED <<index, stores>>

Request(t) == Head(scan[t].todo)
Doing(t, source) ==
  scan[t] # None /\ scan[t].todo # <<>> /\ Request(t)[2] = source

\* The request at the head is answered, or it fails.
Answered(s) == [s EXCEPT !.todo = Tail(@), !.ok = @ \cup {Head(s.todo)}]
Failed(s)   == [s EXCEPT !.todo = Tail(@), !.failures = @ + 1]
CanFail(t)  == scan[t].failures < MaxFailures[t]
NotedIn(s, note) == [s EXCEPT !.notes = @ \cup {note}]

Update(t, s) == scan' = [scan EXCEPT ![t] = s] /\ UNCHANGED <<index, stores, overlap>>

-----------------------------------------------------------------------------
(* enabled_regions: without an answer the home region alone is scanned.    *)

\* Mutant of AfterRegions: the fan-out scans the estate instead of an account.
AfterRegionsScan == IF FanOut THEN <<<<Own, "regions", Home>>>> ELSE <<>>

AfterRegions ==
  IF FanOut THEN <<<<Own, "identity", Home>>, <<Own, "organizations", Home>>>> ELSE <<>>

ListRegions(t) ==
  /\ Doing(t, "regions")
  /\ \/ Update(t, [Answered(scan[t]) EXCEPT
                     !.todo = Plan(Own, Enabled) \o AfterRegions])
     \/ /\ CanFail(t)
        /\ Update(t, [Failed(scan[t]) EXCEPT !.regions = <<Home>>,
                        !.todo = Plan(Own, <<Home>>) \o AfterRegions])

-----------------------------------------------------------------------------
(* _scan_one: the three sources.                                           *)

\* dict.update: the records of `new` take the place of those of `old`.
Updated(old, new) ==
  [k \in DOMAIN old \cup DOMAIN new |-> IF k \in DOMAIN new THEN new[k] ELSE old[k]]

Records(request) == [k \in Read(request) |-> <<request[1], request[2]>>]

\* The sources of the process's own session are named; a member is named as a whole.
Used(s, request) ==
  IF request[1] = Own THEN [s EXCEPT !.used = @ \cup {request[2]}] ELSE s

\* seen[r.key()] = r
Overwrite(s, request) == [Answered(s) EXCEPT !.fresh = Updated(@, Records(request))]

\* Mutant of SetDefault: a record of tags takes the place of a fuller one.
SetDefaultNot(s, request) == Overwrite(s, request)

\* seen.setdefault(r.key(), r)
SetDefault(s, request) == [Answered(s) EXCEPT !.fresh = Updated(Records(request), @)]

\* An aggregator is read if there is one and it records something.
AskConfig(t) ==
  /\ Doing(t, "config")
  /\ LET r == Request(t)
         s == Overwrite(scan[t], r)
     IN Update(t, CASE Aggregators[r[1]] = "none"  -> s
                    [] Aggregators[r[1]] = "empty" -> NotedIn(s, r)
                    [] OTHER                       -> Used(s, r))

AskResourceExplorer(t) ==
  /\ Doing(t, "resource-explorer")
  /\ LET r == Request(t)
         s == Overwrite(scan[t], r)
     IN Update(t, IF Read(r) = {} THEN s ELSE Used(s, r))

AskTagging(t) ==
  /\ Doing(t, "tagging")
  /\ Update(t, Used(SetDefault(scan[t], Request(t)), Request(t)))

\* A source that raises leaves a note; what it may have read is not kept.
SourceFails(t) ==
  /\ \E source \in Sources : Doing(t, source)
  /\ CanFail(t)
  /\ Update(t, NotedIn(Failed(scan[t]), Request(t)))

-----------------------------------------------------------------------------
(* scan: the accounts.                                                     *)

Visit(account, regions) == <<<<account, "assume", Home>>>> \o Plan(account, regions)

\* The turn of the loop: an account with nothing left to do gives way to the next.
Onward(s) ==
  IF s.todo # <<>> \/ s.accounts = <<>> THEN s
  ELSE [s EXCEPT !.todo = Visit(Head(s.accounts), s.regions), !.accounts = Tail(@)]

\* Mutant of Merged: the estate is the last account's.
MergedReplaces(s) == [s EXCEPT !.todo = Tail(@), !.seen = s.fresh, !.fresh = <<>>]

\* Mutant of Merged: the records of a session stay for the next one.
MergedKeepsFresh(s) == [s EXCEPT !.todo = Tail(@), !.seen = Updated(@, s.fresh)]

\* for r in mrs: seen[r.key()] = r
Merged(s) == [s EXCEPT !.todo = Tail(@), !.seen = Updated(@, s.fresh), !.fresh = <<>>]

Merge(t) ==
  /\ Doing(t, "merge")
  /\ LET s == Merged(scan[t])
         session == Request(t)[1]
     IN Update(t, Onward(IF session = Own THEN s
                         ELSE [s EXCEPT !.used = @ \cup {session}]))

\* _caller_account: without an answer of STS the current account is not known.
Identify(t) ==
  /\ Doing(t, "identity")
  /\ \/ Update(t, [Answered(scan[t]) EXCEPT !.known = TRUE])
     \/ CanFail(t) /\ Update(t, Failed(scan[t]))

\* if acct["id"] == current: continue.  The current account is visited like a
\* member, and so scanned again, when it is not known.
Others(s) ==
  IF s.known THEN RemoveAt(Members, CHOOSE i \in DOMAIN Members : Members[i] = Current)
  ELSE Members

\* Without an answer of Organizations list_accounts names one account alone,
\* and says why in a note that scan drops.
ListAccounts(t) ==
  /\ Doing(t, "organizations")
  /\ \/ Update(t, Onward([Answered(scan[t]) EXCEPT !.accounts = Others(scan[t])]))
     \/ /\ CanFail(t)
        /\ Update(t, [Failed(scan[t]) EXCEPT !.todo = <<<<Own, "current-account", Home>>>>])

\* That account is the current one, or Unknown when STS does not answer.
ListCurrentAccount(t) ==
  /\ Doing(t, "current-account")
  /\ LET alone == IF scan[t].known THEN <<>> ELSE <<Current>>
     IN \/ Update(t, Onward([Answered(scan[t]) EXCEPT !.accounts = alone]))
        \/ /\ CanFail(t)
           /\ Update(t, Onward([Failed(scan[t]) EXCEPT !.accounts = <<Unknown>>]))

\* No role can be assumed in an account that is not known.
Assume(t) ==
  Doing(t, "assume") /\ Request(t)[1] # Unknown /\ Update(t, Answered(scan[t]))

\* Mutant of AssumeFails: the first account that cannot be assumed ends the scan.
AssumeFailsEndsScan(t) ==
  /\ Doing(t, "assume") /\ CanFail(t)
  /\ Update(t, [NotedIn(Failed(scan[t]), Request(t)) EXCEPT !.todo = <<>>])

\* An account whose role cannot be assumed is noted and passed over.
AssumeFails(t) ==
  /\ Doing(t, "assume") /\ CanFail(t)
  /\ Update(t, Onward([NotedIn(Failed(scan[t]), Request(t)) EXCEPT !.todo = <<>>]))

AssumeUnknown(t) ==
  /\ Doing(t, "assume") /\ Request(t)[1] = Unknown
  /\ Update(t, Onward([NotedIn(scan[t], Request(t)) EXCEPT !.todo = <<>>]))

Nothing == <<Own, "nothing", Home>>

\* The scan returns an estate and the index keeps it, in place of any other.
Store(t) ==
  /\ scan[t] # None /\ scan[t].todo = <<>>
  /\ index' = IF DOMAIN scan[t].seen = {} THEN NotedIn(scan[t], Nothing) ELSE scan[t]
  /\ scan' = [scan EXCEPT ![t] = None]
  /\ stores' = stores + 1
  /\ UNCHANGED overlap

Work(t) ==
  \/ ListRegions(t)
  \/ AskConfig(t) \/ AskResourceExplorer(t) \/ AskTagging(t) \/ SourceFails(t)
  \/ Merge(t)
  \/ Identify(t) \/ ListAccounts(t) \/ ListCurrentAccount(t)
  \/ Assume(t) \/ AssumeFails(t) \/ AssumeUnknown(t)
  \/ Store(t)

Next == \E t \in Callers : Ask(t) \/ Work(t)

\* A request is answered or times out, so a scan that has begun goes on.
Spec == Init /\ [][Next]_vars /\ \A t \in Callers : WF_vars(Work(t))

-----------------------------------------------------------------------------
Finds(ok, key) == {r \in ok : r[2] \in Sources /\ key \in Read(r)}

TypeOK ==
  /\ index # None => index.todo = <<>> /\ index.fresh = <<>>
  /\ \A t \in Callers : scan[t] # None =>
       /\ scan[t].failures \in Nat
       /\ \A k \in DOMAIN scan[t].fresh : scan[t].fresh[k][1] = Request(t)[1]
  /\ stores \in 0 .. Cardinality(Callers)

\* The estate has every resource that was read of an answered request, whatever
\* else failed, and no other.  What lies past the page limits is not read.
EstateIsWhole ==
  index # None => DOMAIN index.seen = UNION {Read(r) : r \in {q \in index.ok : q[2] \in Sources}}

\* A resource stands in the estate as a source says that found it.  The tags
\* only fill in what no other source of that session told of, and what a member
\* account told of takes the place of what the process's own session did.
RecordsStand ==
  index # None => \A k \in DOMAIN index.seen :
    LET session == index.seen[k][1]
        source  == index.seen[k][2]
        same    == {r[2] : r \in {q \in Finds(index.ok, k) : q[1] = session}}
        members == {r[1] : r \in Finds(index.ok, k)} \ {Own}
    IN /\ source \in same
       /\ source = "tagging" => same = {"tagging"}
       /\ session = Own      => members = {}

Regions(ok) == IF <<Own, "regions", Home>> \in ok THEN ToSet(Enabled) ELSE {Home}

\* Every request to the process's own session, and to every account that was
\* listed, was answered, or the request, or its account as a whole, is noted.
\* Accounts and regions that could not be listed are noted nowhere.
GapsAreNoted ==
  index # None =>
    LET listed == <<Own, "organizations", Home>> \in index.ok
        sessions == {Own} \cup (IF listed THEN ToSet(Members) \ {Current} ELSE {})
    IN \A a \in sessions : \/ <<a, "assume", Home>> \in index.notes
         \/ \A r \in Regions(index.ok) :
              {<<a, "config", Home>>, <<a, "resource-explorer", r>>, <<a, "tagging", r>>}
                \subseteq index.ok \cup index.notes

\* What the estate tells and what it says it could not read make up what was listed.
EstateIsAccounted == EstateIsWhole /\ GapsAreNoted

\* engine.py promises a note for every source that is unavailable: an estate
\* without notes has every resource there is to tell of.
SilentEstateIsComplete ==
  index # None /\ index.notes = {} =>
    \A r \in DOMAIN Says : r[1] = Own \/ FanOut =>
      \A i \in DOMAIN Says[r] : Says[r][i] \subseteq DOMAIN index.seen

\* Questions that do not come while a scan is running share one scan.
SerialScansOnce == overlap \/ stores <= 1

\* A question that waits for a scan is answered, whatever fails.
QuestionsEnd == \A t \in Callers : scan[t] # None ~> scan[t] = None

=============================================================================
