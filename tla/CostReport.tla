----------------------------- MODULE CostReport -----------------------------
(***************************************************************************)
(* What CostExplorer (finops_core/cost/explorer.py) makes of the pages of  *)
(* a GetCostAndUsage answer.  A page is a sequence of blocks, one per time *)
(* period: [estimated, total, groups], groups being a sequence of          *)
(* [key, amount].  Amounts are integers, Scale of them to the sixth        *)
(* decimal that _round keeps; credits are negative.                        *)
(***************************************************************************)
EXTENDS Integers, Sequences, SequencesExt, Ordering

CONSTANT Scale

ASSUME ScaleAssumption == Scale \in Nat \ {0}

\* _round, in units of the sixth decimal
Round(x) == (x + Scale \div 2) \div Scale

Blocks(pages) == FlattenSeq(pages)
Estimated(pages) == \E b \in ToSet(Blocks(pages)) : b.estimated

Sum(s) == SumFunction(s)

\* Every group of every block, as the two loops of _grouped_cost meet them.
GroupLines(pages) ==
  FlattenSeq([i \in DOMAIN Blocks(pages) |-> Blocks(pages)[i].groups])

\* totals[key] = totals.get(key, 0.0) + amount; a key keeps its place.
AddTo(totals, line) ==
  IF \E i \in DOMAIN totals : totals[i].key = line.key
  THEN [i \in DOMAIN totals |->
          IF totals[i].key = line.key
          THEN [totals[i] EXCEPT !.amount = @ + line.amount] ELSE totals[i]]
  ELSE Append(totals, line)

Totals(pages) == FoldLeft(AddTo, <<>>, GroupLines(pages))

Rounded(totals) == [i \in DOMAIN totals |-> [totals[i] EXCEPT !.amount = Round(@)]]

Amounts(groups) == [i \in DOMAIN groups |-> groups[i].amount]

\* sorted(..., reverse=True) by amount
ByAmount(groups) == Descending(groups, Amounts(groups))

\* Mutant of Shown: the group at the cut is in neither part.
ShownOffByOne(groups, topN) ==
  IF topN > 0 /\ Len(groups) > topN THEN SubSeq(groups, 1, topN - 1) ELSE groups

Shown(groups, topN) ==
  IF topN > 0 /\ Len(groups) > topN THEN SubSeq(groups, 1, topN) ELSE groups

Others(groups, topN) ==
  IF topN > 0 /\ Len(groups) > topN
  THEN Sum(Amounts(SubSeq(groups, topN + 1, Len(groups)))) ELSE 0

\* _grouped_cost: the breakdown of the answer; topN = 0 asks for all groups.
GroupedCost(pages, topN) ==
  LET groups == ByAmount(Rounded(Totals(pages))) IN
  [total |-> Sum(Amounts(groups)), groups |-> Shown(groups, topN),
   others |-> Others(groups, topN), estimated |-> Estimated(pages)]

\* summary: the total of the blocks and the amount of each.
Summary(pages) ==
  LET totals == [i \in DOMAIN Blocks(pages) |-> Blocks(pages)[i].total] IN
  [total |-> Round(Sum(totals)), byPeriod |-> [i \in DOMAIN totals |-> Round(totals[i])],
   estimated |-> Estimated(pages)]

-----------------------------------------------------------------------------
(* What a breakdown owes its reader.                                       *)

Keys(pages) == {line.key : line \in ToSet(GroupLines(pages))}

\* What the lines of one key come to.
AmountOf(k, lines) == SumFunctionOnSet(Amounts(lines), {i \in DOMAIN lines : lines[i].key = k})

\* Nothing is lost or counted twice between the pages and the rows shown.
Conserves(breakdown) ==
  Sum(Amounts(breakdown.groups)) + breakdown.others = breakdown.total

\* The rows shown are the largest, largest first.
ShowsLargest(breakdown, pages, topN) ==
  /\ \A i, j \in DOMAIN breakdown.groups : i < j =>
       /\ breakdown.groups[i].amount >= breakdown.groups[j].amount
       /\ breakdown.groups[i].key # breakdown.groups[j].key
  /\ \A k \in Keys(pages) : LET amount == Round(AmountOf(k, GroupLines(pages))) IN
       (\A i \in DOMAIN breakdown.groups : breakdown.groups[i].key # k) =>
         /\ Len(breakdown.groups) = topN
         /\ \A i \in DOMAIN breakdown.groups : breakdown.groups[i].amount >= amount

\* accuracy.py: the breakdown agrees with the raw total, up to the rounding of
\* each group and of the total.
Reconciles(breakdown, pages) ==
  LET raw  == Sum(Amounts(GroupLines(pages)))
      slip == breakdown.total * Scale - raw
      most == (Len(Totals(pages)) * Scale) \div 2
  IN slip \in -most .. most

=============================================================================
