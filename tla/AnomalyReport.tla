--------------------------- MODULE AnomalyReport ---------------------------
(***************************************************************************)
(* AnomalyEngine of finops_core/anomaly/engine.py: anomalies and budgets,  *)
(* and the notes that stand for what could not be read.                    *)
(***************************************************************************)
EXTENDS Integers, Sequences, SequencesExt, Ordering

CONSTANT NoAmount   \* no forecast, no percentage

\* Pages are read up to the first that fails; 0 is the number of no page.
PagesRead(w) == IF w.failsAt = 0 THEN w.pages ELSE SubSeq(w.pages, 1, w.failsAt - 1)

\* sort by total_impact, descending and stable
ByImpact(found) == Descending(found, found)

\* anomalies(): w has the impacts of the anomalies page by page, the page that
\* fails, whether there are monitors and whether asking for them fails.
Anomalies(w) ==
  LET found    == ByImpact(FlattenSeq(PagesRead(w)))
      monitors == w.monitored /\ ~w.monitorsFail IN
  [anomalies |-> found,
   total     |-> SumFunction(found),
   notes     |-> (IF w.monitorsFail THEN <<"anomaly-monitors">> ELSE <<>>)
              \o (IF w.failsAt # 0 THEN <<"anomalies">>
                  ELSE IF ~monitors THEN <<"no monitors">> ELSE <<>>)]

\* round(100 * part / whole, 1), in tenths
Percent(part, whole) == (1000 * part + whole \div 2) \div whole

\* A budget of AWS is [limit, actual, forecast]; a limit of zero is no limit.
Budget(b) ==
  LET limited == b.limit # 0
      foretold == limited /\ b.forecast # NoAmount IN
  [limit |-> b.limit, actual |-> b.actual, forecast |-> b.forecast,
   pctUsed     |-> IF limited THEN Percent(b.actual, b.limit) ELSE NoAmount,
   forecastPct |-> IF foretold THEN Percent(b.forecast, b.limit) ELSE NoAmount,
   breached       |-> limited /\ b.actual > b.limit,
   forecastBreach |-> foretold /\ b.forecast > b.limit]

Budgets(w) ==
  LET read == FlattenSeq(PagesRead(w)) IN
  IF w.noAccount THEN [budgets |-> <<>>, notes |-> <<"no account id">>]
  ELSE [budgets |-> [i \in DOMAIN read |-> Budget(read[i])],
        notes   |-> IF w.failsAt # 0 THEN <<"budgets">>
                    ELSE IF read = <<>> THEN <<"no budgets">> ELSE <<>>]

=============================================================================
