---------------------------- MODULE Optimization ----------------------------
(***************************************************************************)
(* Optimizer.all_recommendations of finops_core/optimize/engine.py: the    *)
(* recommendations of six AWS sources, what remains of them when calls     *)
(* fail, and the report made of the rest.                                  *)
(*                                                                         *)
(* `world` says of each source its findings and the numbers of the calls   *)
(* to it that fail.  A call reads one finding: a page of rightsizing or    *)
(* the hub, a check of Trusted Advisor (call 1 lists the checks).  Savings *)
(* plans and reservations are one call; Compute Optimizer has one per      *)
(* resource type, and its client is call 0.                                *)
(***************************************************************************)
EXTENDS Integers, Sequences, FiniteSets, SequencesExt, FiniteSetsExt, Ordering

Sources == <<"rightsizing", "compute-optimizer", "savings-plans", "reservations",
             "cost-optimization-hub", "trusted-advisor">>
Paged   == {"rightsizing", "cost-optimization-hub"}
Single  == {"savings-plans", "reservations"}
Getters == <<"ec2-instance", "ebs-volume", "lambda-function">>

-----------------------------------------------------------------------------
(* What each source makes of a finding [resource, kind, type, savings].    *)

\* `about` is the resource id or, without one, the title.
Rec(source, about, category, action, savings) ==
  [source |-> source, about |-> about, category |-> category,
   action |-> action, savings |-> savings]

Rightsizing(f) ==
  <<Rec("rightsizing", f.resource,
        IF f.kind = "terminate" THEN "idle" ELSE "rightsize", f.kind, f.savings)>>

\* Findings without a saving are dropped when they say nothing else.
ComputeOptimizer(f) ==
  IF f.savings <= 0 /\ f.kind \in {"Optimized", "NotOptimized", ""} THEN <<>>
  ELSE <<Rec("compute-optimizer", f.resource, "rightsize", "rightsize", f.savings)>>

Commitment(source, title, action, f) ==
  IF f.savings <= 0 THEN <<>>
  ELSE <<Rec(source, title, "commitment", action, f.savings)>>

Hub(f) == <<Rec("cost-optimization-hub", f.resource, f.kind, f.kind, f.savings)>>

Check(f) ==
  IF f.kind \notin {"warning", "error"} THEN <<>>
  ELSE <<Rec("trusted-advisor", f.resource, "cleanup", "review", f.savings)>>

Made(source, f) ==
  CASE source = "rightsizing"           -> Rightsizing(f)
    [] source = "compute-optimizer"     -> ComputeOptimizer(f)
    [] source = "savings-plans"         ->
         Commitment(source, "Purchase a Compute Savings Plan", "purchase-savings-plan", f)
    [] source = "reservations"          ->
         Commitment(source, "Purchase Reserved Instances", "purchase-ri", f)
    [] source = "cost-optimization-hub" -> Hub(f)
    [] OTHER                            -> Check(f)

MadeOf(source, fs) == FlattenSeq([i \in DOMAIN fs |-> Made(source, fs[i])])

-----------------------------------------------------------------------------
(* What is read of a source, [findings, fails], and the notes it leaves.   *)

\* Pages are read up to the first that fails; what they said is kept.
ReadPages(w) ==
  IF w.fails = {} THEN w.findings ELSE SubSeq(w.findings, 1, Min(w.fails) - 1)

\* A getter that fails is noted and the next one asked.
ReadGetters(w) ==
  FlattenSeq([i \in DOMAIN w.findings |->
    IF \A c \in w.fails : c # 0 /\ w.findings[i].type # Getters[c]
    THEN <<w.findings[i]>> ELSE <<>>])

ReadAnswer(w) == IF w.fails = {} THEN w.findings ELSE <<>>

\* A check that fails is skipped; without the list there is none.
ReadChecks(w) ==
  FlattenSeq([i \in DOMAIN w.findings |->
    IF w.fails \cap {1, i + 1} = {} THEN <<w.findings[i]>> ELSE <<>>])

Read(source, w) ==
  CASE source \in Paged               -> ReadPages(w)
    [] source = "compute-optimizer"   -> ReadGetters(w)
    [] source \in Single              -> ReadAnswer(w)
    [] OTHER                          -> ReadChecks(w)

\* Mutant of Noted: a source that has answered something leaves no note.
NotedIfEmpty(source, w) ==
  IF w.fails # {} /\ Read(source, w) = <<>> THEN <<source>> ELSE <<>>

Noted(source, w) ==
  CASE source = "trusted-advisor"   -> IF 1 \in w.fails THEN <<source>> ELSE <<>>
    [] source = "compute-optimizer" ->
         [i \in 1 .. (IF 0 \in w.fails THEN 1 ELSE Cardinality(w.fails)) |-> source]
    [] OTHER                        -> IF w.fails # {} THEN <<source>> ELSE <<>>

-----------------------------------------------------------------------------
(* The report.                                                             *)

Key(r) == <<r.about, r.category, r.action>>

\* Mutant of Keep: the first recommendation for a key stays.
KeepFirst(best, r) ==
  IF \E i \in DOMAIN best : Key(best[i]) = Key(r) THEN best ELSE Append(best, r)

\* best[k] = r if it saves more; a key that is there keeps its place.
Keep(best, r) ==
  LET same == {i \in DOMAIN best : Key(best[i]) = Key(r)}
  IN IF same = {} THEN Append(best, r)
     ELSE [i \in DOMAIN best |->
             IF i \in same /\ r.savings > best[i].savings THEN r ELSE best[i]]

SavingsOf(recs) == [i \in DOMAIN recs |-> recs[i].savings]

\* sorted(..., reverse=True) by savings
Ranked(best) == Descending(best, SavingsOf(best))

AllRecommendations(world) ==
  LET recs(s)  == MadeOf(s, Read(s, world[s]))
      ranked   == Ranked(FoldLeft(Keep, <<>>, FlattenSeq([i \in DOMAIN Sources |-> recs(Sources[i])])))
      sources  == {r.source : r \in ToSet(ranked)}
  IN [total           |-> SumFunction(SavingsOf(ranked)),
      recommendations |-> ranked,
      bySource        |-> [s \in sources |->
                             Cardinality({i \in DOMAIN ranked : ranked[i].source = s})],
      notes           |-> FlattenSeq([i \in DOMAIN Sources |->
                                        Noted(Sources[i], world[Sources[i]])])]

-----------------------------------------------------------------------------
(* What a report owes its reader.                                          *)

Represented(report, r) ==
  \E q \in ToSet(report.recommendations) : Key(q) = Key(r) /\ q.savings >= r.savings

\* The most each key can save, each key once, best first, with the total and
\* the counts of what is shown, and nothing no source has said.
IsBest(report, world) ==
  LET shown == report.recommendations
      said  == UNION {ToSet(MadeOf(s, world[s].findings)) : s \in ToSet(Sources)} IN
  /\ \A s \in ToSet(Sources) : \A r \in ToSet(MadeOf(s, Read(s, world[s]))) :
       Represented(report, r)
  /\ ToSet(shown) \subseteq said
  /\ \A i, j \in DOMAIN shown : i < j =>
       Key(shown[i]) # Key(shown[j]) /\ shown[i].savings >= shown[j].savings
  /\ report.total = SumFunction([r \in ToSet(shown) |-> r.savings])
  /\ Len(shown) = SumFunction(report.bySource)

\* What a source has and the report does not is noted.
Accounts(report, world, source) ==
  \/ source \in ToSet(report.notes)
  \/ \A r \in ToSet(MadeOf(source, world[source].findings)) : Represented(report, r)

=============================================================================
