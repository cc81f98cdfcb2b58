------------------------------- MODULE Digest -------------------------------
(***************************************************************************)
(* The digest of finops_core/workflow: eight sections computed at once,    *)
(* collected in the order they were submitted, rendered, and delivered to  *)
(* each target in turn.                                                    *)
(*                                                                         *)
(* The tasks share nothing: a section is a function of what AWS answers,   *)
(* `world`, and of the day on which its task asks.  The day may change     *)
(* while the digest is being made.                                         *)
(***************************************************************************)
EXTENDS Dates, CostReport, AnomalyReport, Optimization, FiniteSets

CONSTANTS
  Worlds,     \* the day, what AWS answers, and which requests and deliveries fail
  TopN,       \* services in the breakdown
  None        \* no result, no section

IsDate(date) ==
  date \in [y : Int, m : 1 .. 12, d : 1 .. 31] /\ date.d <= DaysIn(date.y, date.m)

\* What AWS answers with; keys and names are any strings.
LineType    == [key : STRING, amount : Int]
BlockType   == [estimated : BOOLEAN, total : Int, groups : Seq(LineType)]
FindingType == [resource : STRING, kind : STRING, type : STRING, savings : Int]
BudgetType  == [limit : Int, actual : Int, forecast : Int \cup {NoAmount}]

\* The calls that may be made to a source: one per finding it has, and one that finds no more.
CallsTo(source, w) ==
  IF source = "compute-optimizer" THEN 0 .. Len(Getters) ELSE 1 .. Len(w.findings) + 1

IsWorld(w) ==
  /\ IsDate(w.start)
  /\ {w.services, w.month, w.lastMonth} \subseteq Seq(Seq(BlockType))
  /\ w.anomalies.pages \in Seq(Seq(Int)) /\ w.anomalies.failsAt \in 0 .. Len(w.anomalies.pages)
  /\ w.budgets.pages \in Seq(Seq(BudgetType)) /\ w.budgets.failsAt \in 0 .. Len(w.budgets.pages)
  /\ \A s \in ToSet(Sources) : /\ w.optimization[s].findings \in Seq(FindingType)
                                /\ w.optimization[s].fails \subseteq CallsTo(s, w.optimization[s])
  /\ w.targets \in Seq(STRING)

ASSUME DigestAssumption == TopN \in Nat /\ \A w \in Worlds : IsWorld(w)

Sections == <<"mtd", "last_month", "by_service", "trend", "forecast",
              "anomalies", "budgets", "optimization">>
SectionSet == ToSet(Sections)

VARIABLES
  world, today,
  result,      \* futures: what each finished task returned or raised
  collected,   \* number of futures whose result has been taken
  out, errors, \* the sections, and those that failed in the order of collection
  rendered,    \* the report has been rendered
  results,     \* deliver: the outcome of each target so far
  crossed      \* history: a month has ended since the digest began

vars == <<world, today, result, collected, out, errors, rendered, results, crossed>>

Init ==
  /\ world \in Worlds
  /\ today = world.start
  /\ result = [k \in SectionSet |-> None]
  /\ collected = 0
  /\ out = [k \in SectionSet |-> None] /\ errors = <<>>
  /\ rendered = FALSE
  /\ results = <<>>
  /\ crossed = FALSE

-----------------------------------------------------------------------------
(* gather: the tasks and the loop over their futures.                      *)

Period(k, day) ==
  CASE k \in {"mtd", "by_service"} -> ResolvePeriod([unit |-> "mtd"], day)
    [] k = "last_month" -> ResolvePeriod([unit |-> "last_month"], day)
    [] k = "trend"      -> ResolvePeriod([unit |-> "months", n |-> 6], day)
    [] k = "forecast"   -> ForecastPeriod([unit |-> "eom"], day)
    [] k = "anomalies"  -> ResolvePeriod([unit |-> "days", n |-> 30], day)
    [] OTHER            -> <<day, day>>

\* The sections whose request goes to Cost Explorer as it is, and raises when
\* the request fails; a range without a day in it is refused.
Raising == {"mtd", "last_month", "by_service", "trend", "forecast"}
Raises(k, period) == k \in Raising /\ (k \in world.fails \/ ~Before(period[1], period[2]))

Run(k) ==
  /\ result[k] = None
  /\ LET period == Period(k, today) IN
     result' = [result EXCEPT ![k] = [of |-> k, raised |-> Raises(k, period), period |-> period]]
  /\ UNCHANGED <<world, today, collected, out, errors, rendered, results, crossed>>

\* Mutant of Taken: the next future that is done, whichever it is.
TakenAsCompleted(k) ==
  IF \E j \in SectionSet : result[j] # None /\ \A i \in SectionSet : out[i] # result[j]
  THEN result[CHOOSE j \in SectionSet :
                result[j] # None /\ \A i \in SectionSet : out[i] # result[j]]
  ELSE result[k]

Taken(k) == result[k]

\* f.result() waits for the task; its exception becomes an error of the section.
Collect ==
  /\ collected < Len(Sections)
  /\ LET k == Sections[collected + 1]
         r == Taken(k) IN
       /\ result[k] # None
       /\ out' = [out EXCEPT ![k] = IF r.raised THEN None ELSE r]
       /\ errors' = IF r.raised THEN Append(errors, k) ELSE errors
  /\ collected' = collected + 1
  /\ UNCHANGED <<world, today, result, rendered, results, crossed>>

-----------------------------------------------------------------------------
(* What the sections say, and render_markdown.                             *)

Anomalous == Anomalies(world.anomalies)
Budgeted  == Budgets(world.budgets)
Savings   == AllRecommendations(world.optimization)
Breakdown == GroupedCost(world.services, TopN)

\* The total of a section that failed is zero.
TotalOf(k, pages) == IF out[k] = None THEN 0 ELSE Summary(pages).total

DeltaPct(mtd, last) ==
  CASE last = 0 -> NoAmount
    [] last > 0 -> Percent(mtd - last, last)
    [] last < 0 -> Percent(last - mtd, -last)

FirstOf(notes, n) == SubSeq(notes, 1, IF Len(notes) < n THEN Len(notes) ELSE n)

\* The report; it follows from what was gathered and is not kept in a variable.
Report ==
  LET spend == TotalOf("mtd", world.month)
      last  == TotalOf("last_month", world.lastMonth) IN
  [spend        |-> spend,
   delta        |-> DeltaPct(spend, last),
   services     |-> IF out["by_service"] = None THEN <<>> ELSE Breakdown.groups,
   anomalies    |-> Anomalous.anomalies,
   anomalyNote  |-> IF Anomalous.anomalies # <<>> THEN <<>>
                    ELSE FirstOf(Anomalous.notes, 1),
   budgets      |-> Budgeted.budgets,
   savings      |-> FirstOf(Savings.recommendations, 5),
   savingsNotes |-> IF Savings.recommendations # <<>> THEN <<>>
                    ELSE FirstOf(Savings.notes, 3),
   errors       |-> errors]

Render ==
  /\ collected = Len(Sections) /\ ~rendered
  /\ rendered' = TRUE
  /\ UNCHANGED <<world, today, result, collected, out, errors, results, crossed>>

-----------------------------------------------------------------------------
(* deliver: one target after the other, each in a try of its own.          *)

Outcome(t) ==
  CASE t \in world.unreachable  -> "error"
    [] t \in world.unconfigured -> "skipped"
    [] OTHER                    -> "sent"

\* Mutant of Deliver: a target that fails ends the delivery.
DeliverUntilError ==
  /\ rendered
  /\ Len(results) < Len(world.targets)
  /\ \A i \in DOMAIN results : results[i] # "error"
  /\ results' = Append(results, Outcome(world.targets[Len(results) + 1]))
  /\ UNCHANGED <<world, today, result, collected, out, errors, rendered, crossed>>

Deliver ==
  /\ rendered
  /\ Len(results) < Len(world.targets)
  /\ results' = Append(results, Outcome(world.targets[Len(results) + 1]))
  /\ UNCHANGED <<world, today, result, collected, out, errors, rendered, crossed>>

\* Midnight, in the worlds that have one, while tasks are still running.
Midnight ==
  /\ world.midnight /\ today = world.start
  /\ \E k \in SectionSet : result[k] = None
  /\ today' = PlusDays(today, 1)
  /\ crossed' = (today'.m # today.m)
  /\ UNCHANGED <<world, result, collected, out, errors, rendered, results>>

Next ==
  \/ \E k \in SectionSet : Run(k)
  \/ Collect
  \/ Render
  \/ Deliver
  \/ Midnight

(***************************************************************************)
(* Every task ends: its requests have the timeouts and the bounded retries *)
(* of botocore.  A task runs once, so it is enough that some task goes on  *)
(* while one is left.  The loop and the delivery take their next step.     *)
(***************************************************************************)
Spec == /\ Init /\ [][Next]_vars
        /\ WF_vars(\E k \in SectionSet : Run(k))
        /\ WF_vars(Collect) /\ WF_vars(Render) /\ WF_vars(Deliver)

-----------------------------------------------------------------------------
Gathered == collected = Len(Sections)

TypeOK ==
  /\ collected \in 0 .. Len(Sections)
  /\ \A k \in SectionSet : result[k] # None =>
       /\ result[k].of = k /\ result[k].raised \in BOOLEAN
       /\ \A date \in ToSet(result[k].period) :
            date.m \in 1 .. 12 /\ date.d \in 1 .. DaysIn(date.y, date.m)
  /\ Len(results) <= Len(world.targets)

\* Whatever the tasks' order, each section has its own task's result, or none
\* and exactly one error, and the errors stand in the order of the sections.
SectionsAreTheirOwn ==
  /\ \A i \in 1 .. collected :
       LET k == Sections[i] IN
       IF out[k] = None
       THEN result[k].raised /\ \E e \in DOMAIN errors : {f \in DOMAIN errors : errors[f] = k} = {e}
       ELSE out[k] = result[k] /\ k \notin ToSet(errors)
  /\ \A i, j \in DOMAIN errors : i < j =>
       \E a, b \in DOMAIN Sections : a < b /\ Sections[a] = errors[i] /\ Sections[b] = errors[j]

\* The two totals that the digest compares are of adjoining calendar months,
\* unless a month ends while it is made.
ComparesAdjoiningMonths ==
  Gathered /\ ~crossed /\ out["mtd"] # None /\ out["last_month"] # None =>
    LET mtd  == out["mtd"].period
        last == out["last_month"].period IN
    /\ last[2] = mtd[1]
    /\ last[1].d = 1
    /\ ToSet(<<last[1].m, mtd[1].m>>) = {mtd[1].m, IF mtd[1].m = 1 THEN 12 ELSE mtd[1].m - 1}
    /\ mtd[1].y - last[1].y = IF mtd[1].m = 1 THEN 1 ELSE 0

\* The breakdown loses nothing between the pages of the answer and the rows it
\* shows, and agrees with the raw total up to its rounding (accuracy.py).
BreakdownIsSound ==
  Gathered /\ out["by_service"] # None =>
    /\ Conserves(Breakdown)
    /\ ShowsLargest(Breakdown, world.services, TopN)
    /\ Reconciles(Breakdown, world.services)

\* What the digest says of the spend holds together: the months it compares (dates.py:39, :53)
\* and the services it breaks the month down into (explorer.py:150).
SpendIsSound == ComparesAdjoiningMonths /\ BreakdownIsSound

\* The savings are the best that the sources which could be read have to say,
\* each counted once.
SavingsAreBest == Gathered => IsBest(Savings, world.optimization)

\* What a section could not read, the section notes, except for the checks of
\* Trusted Advisor; and the digest never shows as empty, or compares with, what
\* it could not read without a word, except for the budgets, for which it says
\* that none are configured.
GapsAreNoted ==
  Gathered =>
    /\ Report.savings = <<>> /\ (\E s \in ToSet(Sources) \ {"trusted-advisor"} :
                                  world.optimization[s].fails # {}) => Report.savingsNotes # <<>>
    /\ Report.anomalies = <<>> /\ world.anomalies.failsAt # 0 => Report.anomalyNote # <<>>
    /\ Report.delta # NoAmount => out["last_month"] # None
    /\ \A s \in ToSet(Sources) \ {"trusted-advisor"} : Accounts(Savings, world.optimization, s)
    /\ Anomalous.anomalies = ByImpact(FlattenSeq(world.anomalies.pages)) \/ Anomalous.notes # <<>>
    /\ Len(Budgeted.budgets) = Len(FlattenSeq(world.budgets.pages)) \/ Budgeted.notes # <<>>

\* One failing section or target does not keep the report from the others: every
\* target is tried, and each has the outcome of its own delivery.
EveryTargetIsTried ==
  <>[](/\ Len(results) = Len(world.targets)
       /\ \A i \in DOMAIN results : results[i] = Outcome(world.targets[i]))

=============================================================================
