------------------------------- MODULE Dates -------------------------------
(***************************************************************************)
(* The date ranges of finops_core/cost/dates.py.  A date is a record       *)
(* [y, m, d], a range is <<start, end>> and its end is EXCLUSIVE.          *)
(***************************************************************************)
EXTENDS Integers

Leap(y) == y % 4 = 0 /\ (y % 100 # 0 \/ y % 400 = 0)
DaysIn(y, m) ==
  CASE m \in {4, 6, 9, 11} -> 30
    [] m = 2               -> IF Leap(y) THEN 29 ELSE 28
    [] OTHER               -> 31

Date(y, m, d) == [y |-> y, m |-> m, d |-> d]

Before(a, b) ==
  \/ a.y < b.y
  \/ a.y = b.y /\ a.m < b.m
  \/ a.y = b.y /\ a.m = b.m /\ a.d < b.d

\* _first_of_month
FirstOfMonth(date) == [date EXCEPT !.d = 1]

\* Mutant of AddMonths: the count from January is taken off twice.
AddMonthsOffByOne(first, months) ==
  LET idx == first.y * 12 + (first.m - 2) + months
  IN Date(idx \div 12, (idx % 12) + 1, 1)

\* Mutant of AddMonths: the months do not carry into the year.
AddMonthsNoCarry(first, months) == Date(first.y, first.m + months, 1)

\* _add_months
AddMonths(first, months) ==
  LET idx == first.y * 12 + (first.m - 1) + months
  IN Date(idx \div 12, (idx % 12) + 1, 1)

\* The first day of each month, counted from the year 0.
BeforeMonth == <<0, 31, 59, 90, 120, 151, 181, 212, 243, 273, 304, 334>>
Ordinal(date) ==
  LET past == date.y - 1 IN
  365 * date.y + past \div 4 - past \div 100 + past \div 400
    + BeforeMonth[date.m] + (IF date.m > 2 /\ Leap(date.y) THEN 1 ELSE 0) + date.d

\* The day with this number: counted from the first of each month, it is a day of
\* one of them.
FromOrdinal(day, years) ==
  CHOOSE date \in {Date(y, m, day - Ordinal(Date(y, m, 1)) + 1) : y \in years, m \in 1 .. 12} :
    date.d \in 1 .. DaysIn(date.y, date.m)

\* date + timedelta(days=n), n of either sign
PlusDays(date, n) ==
  FromOrdinal(Ordinal(date) + n, (date.y + n \div 365 - 1) .. (date.y + n \div 365 + 1))

AtLeastOne(n) == IF n < 1 THEN 1 ELSE n

\* resolve_period(period) on the day `today`; a period is [unit, n].
ResolvePeriod(period, today) ==
  LET first == FirstOfMonth(today) IN
  CASE period.unit = "mtd"        -> <<first, today>>
    [] period.unit = "last_month" -> <<AddMonths(first, -1), first>>
    [] period.unit = "ytd"        -> <<Date(today.y, 1, 1), today>>
    [] period.unit = "days"       -> <<PlusDays(today, -period.n), today>>
    [] period.unit = "months"     ->
         <<AddMonths(first, -(AtLeastOne(period.n) - 1)), today>>

\* forecast_period(horizon) on the day `today`
ForecastPeriod(horizon, today) ==
  LET first == FirstOfMonth(today) IN
  CASE horizon.unit = "eom"    -> <<today, AddMonths(first, 1)>>
    [] horizon.unit = "days"   -> <<today, PlusDays(today, horizon.n)>>
    [] horizon.unit = "months" -> <<today, AddMonths(first, horizon.n)>>

=============================================================================
