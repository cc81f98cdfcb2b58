----------------------- MODULE EstateDiscoveryProofs -----------------------
(***************************************************************************)
(* Theorems about EstateDiscovery, for any callers, accounts, regions,     *)
(* answers and number of failures.                                         *)
(*                                                                         *)
(* A scan is described by the set of the tasks it has left.  They are of   *)
(* one account and in order, so that the first of them, whatever becomes   *)
(* of it, leaves the rest in order; and between two steps the records in   *)
(* hand, those merged, the answers and the notes fit what is left.         *)
(***************************************************************************)
EXTENDS EstateDiscovery, FiniteSetTheorems, TLAPS

\* The parts of a scan, which tell it from None.
Parts == DOMAIN NewScan
-----------------------------------------------------------------------------
(* The invariant of a scan, in terms of the set of what it has left to do.  *)

Kinds == {"regions", "assume", "config", "resource-explorer", "tagging", "merge",
          "identity", "organizations", "current-account"}
Sessions == ToSet(Members) \cup {Own, Unknown}
Tasks == Sessions \X Kinds \X ToSet(Enabled)

\* The order of the tasks with one session.
Stage(kind) ==
  CASE kind = "assume"            -> 0
    [] kind = "config"            -> 1
    [] kind = "resource-explorer" -> 2
    [] kind = "tagging"           -> 3
    [] kind = "merge"             -> 4
    [] kind = "identity"          -> 5
    [] kind = "organizations"     -> 6
    [] OTHER                      -> 7

\* Of two tasks with a session, the one that comes before the other.
Before(x, y) ==
  /\ x # y /\ x[1] = y[1]
  /\ Stage(x[2]) <= Stage(y[2])
  /\ Stage(x[2]) >= 4 => Stage(x[2]) < Stage(y[2])

InOrder(todo) == \A i, j \in DOMAIN todo : i < j => Before(todo[i], todo[j])

\* What comes before the merge has the merge to come, and the current account
\* is asked for alone.
Ends(tasks) ==
  \A x \in tasks :
    /\ x[2] # "regions"
    /\ x[2] = "identity" => x = <<Own, "identity", Home>>
    /\ x[2] = "organizations" => x = <<Own, "organizations", Home>>
    /\ x[2] = "current-account" => tasks = {<<Own, "current-account", Home>>}
    /\ x[2] = "assume" => x[3] = Home
    /\ Stage(x[2]) < 4 => \E y \in tasks : y[2] = "merge"

\* What is left to do is for one account, is in order, has nothing twice, and
\* ends with the merge of that account.
Orderly(todo) == todo \in Seq(Tasks) /\ InOrder(todo) /\ Ends(ToSet(todo))

Left(s)    == ToSet(s.todo)
Merging(s) == \E x \in Left(s) : x[2] = "merge"

\* The accounts to come: no member twice, and none that was begun.
Agenda(s) ==
  /\ DOMAIN s = Parts
  /\ s.failures \in Nat
  /\ Orderly(s.todo)
  /\ s.regions = IF <<Own, "regions", Home>> \in s.ok THEN Enabled ELSE <<Home>>
  /\ s.accounts \in Seq(Sessions \ {Own}) /\ IsInjective(s.accounts)
  /\ \A r \in s.ok \cup Left(s) : r[1] \notin ToSet(s.accounts)
  /\ \A x \in Left(s) : x[1] = Own =>
       /\ s.accounts = <<>> /\ <<Own, "organizations", Home>> \notin s.ok
       /\ \A r \in s.ok : r[1] = Own

\* The sources of an account that tell of the resource.
Same(ok, key, account) == {r[2] : r \in {q \in Finds(ok, key) : q[1] = account}}

\* The record is of one of these sources, and of the tags only if they are alone.
Best(ok, key, record) ==
  /\ record[2] \in Same(ok, key, record[1])
  /\ record[2] = "tagging" => Same(ok, key, record[1]) = {"tagging"}

Told(ok) == UNION {Read(r) : r \in {q \in ok : q[2] \in Sources}}

\* The records of the account in hand and those of the accounts before it.
Hoard(s) ==
  /\ s.fresh = <<>> \/ Merging(s)
  /\ \A x \in Left(s) : x[2] = "assume" => s.fresh = <<>>
  /\ DOMAIN s.fresh \cup DOMAIN s.seen = Told(s.ok)
  /\ \A k \in DOMAIN s.fresh :
       Best(s.ok, k, s.fresh[k]) /\ \A x \in Left(s) : s.fresh[k][1] = x[1]
  /\ Merging(s) => \A x \in Left(s), r \in s.ok :
       r[1] = x[1] /\ r[2] \in Sources => Read(r) \subseteq DOMAIN s.fresh
  /\ \A k \in DOMAIN s.seen :
       Best(s.ok, k, s.seen[k]) /\ (Merging(s) => \A x \in Left(s) : s.seen[k][1] # x[1])
  /\ \A r \in s.ok : r[1] # Own /\ r[2] \in Sources => \A k \in Read(r) :
       \/ k \in DOMAIN s.fresh /\ s.fresh[k][1] # Own
       \/ k \in DOMAIN s.seen  /\ s.seen[k][1] # Own

Sought(account, regions) ==
  {<<account, "config", Home>>}
    \cup ({account} \X {"resource-explorer", "tagging"} \X ToSet(regions))

\* An account that is noted, or of which every request is answered, noted or to come.
Covered(s, account) ==
  \/ <<account, "assume", Home>> \in s.notes
  \/ Sought(account, s.regions) \subseteq s.ok \cup s.notes \cup Left(s)

Reach(s) ==
  /\ Covered(s, Own)
  /\ <<Own, "organizations", Home>> \in s.ok =>
       \A m \in ToSet(Members) \ {Current} : m \in ToSet(s.accounts) \/ Covered(s, m)

\* A scan in the middle of its loop, and one between two turns of it.
Idling(s) == Agenda(s) /\ Hoard(s) /\ Reach(s)
Going(s)  == Idling(s) /\ (s.accounts # <<>> => s.todo # <<>>)

Running == {t \in Callers : scan[t] # None}

\* Unless two scans have run at once, one at most is running; the first to end
\* is the only one there has been, and none begins once there is an estate.
OneScan ==
  /\ \A t, u \in Callers : scan[t] # None /\ scan[u] # None => t = u
  /\ index = None => stores = 0
  /\ index # None => stores = 1 /\ \A t \in Callers : scan[t] = None

EstateInv ==
  /\ overlap \/ OneScan
  /\ scan = [t \in Callers |-> scan[t]]
  /\ \A t \in Running : scan[t] = NewScan \/ Going(scan[t])
  /\ index # None =>
       /\ index.todo = <<>> /\ index.accounts = <<>> /\ index.fresh = <<>>
       /\ Hoard(index) /\ Reach(index)
       /\ index.regions = IF <<Own, "regions", Home>> \in index.ok THEN Enabled ELSE <<Home>>
  /\ stores \in Nat /\ (index = None => stores = 0)
  /\ stores + Cardinality(Running) <= Cardinality(Callers)

-----------------------------------------------------------------------------
\* The fields of a scan.
Fields == {"todo", "accounts", "regions", "fresh", "seen", "notes", "used", "ok", "failures",
           "known"}

LEMMA FieldsAre == Parts = Fields
BY DEF Parts, NewScan, Fields

LEMMA Concat ==
  ASSUME NEW S, NEW u \in Seq(S), NEW v \in Seq(S)
  PROVE  /\ u \o v \in Seq(S)
         /\ Len(u \o v) = Len(u) + Len(v)
         /\ \A i \in 1 .. Len(u) : (u \o v)[i] = u[i]
         /\ \A i \in 1 .. Len(v) : (u \o v)[Len(u) + i] = v[i]
OBVIOUS

LEMMA ConcatInOrder ==
  ASSUME NEW u \in Seq(Tasks), NEW v \in Seq(Tasks), InOrder(u), InOrder(v),
         \A x \in ToSet(u), y \in ToSet(v) : Before(x, y)
  PROVE  /\ u \o v \in Seq(Tasks) /\ InOrder(u \o v)
         /\ ToSet(u \o v) = ToSet(u) \cup ToSet(v)
<1> DEFINE w == u \o v
           m == Len(u)
           n == Len(v)
<1>1. w \in Seq(Tasks) /\ Len(w) = m + n /\ m \in Nat /\ n \in Nat
  BY Concat
<1>2. (\A i \in 1 .. m : w[i] = u[i]) /\ \A i \in 1 .. n : w[m + i] = v[i]
  BY Concat
<1>3. DOMAIN w = 1 .. (m + n) /\ DOMAIN u = 1 .. m /\ DOMAIN v = 1 .. n
  BY <1>1
<1>4. \A i \in 1 .. (m + n) : i \in 1 .. m \/ (i - m \in 1 .. n /\ w[i] = v[i - m])
  <2> SUFFICES ASSUME NEW i \in 1 .. (m + n), i \notin 1 .. m
               PROVE  i - m \in 1 .. n /\ w[i] = v[i - m]
    OBVIOUS
  <2>1. i - m \in 1 .. n /\ m + (i - m) = i
    BY <1>1
  <2> QED
    BY <2>1, <1>2
<1>5. ToSet(w) = ToSet(u) \cup ToSet(v)
  <2>1. \A i \in 1 .. n : m + i \in 1 .. (m + n)
    BY <1>1
  <2>2. 1 .. m \subseteq 1 .. (m + n)
    BY <1>1
  <2> HIDE DEF w, m, n
  <2> QED
    BY <1>2, <1>3, <1>4, <2>1, <2>2 DEF ToSet
<1>6. ASSUME NEW i \in DOMAIN w, NEW j \in DOMAIN w, i < j
      PROVE  Before(w[i], w[j])
  <2>1. CASE i \in 1 .. m /\ j \in 1 .. m
    BY <1>2, <1>3, <1>6, <2>1 DEF InOrder
  <2>2. CASE i \in 1 .. m /\ j \notin 1 .. m
    <3>1. w[i] \in ToSet(u) /\ w[j] \in ToSet(v)
      BY <1>2, <1>3, <1>4, <2>2 DEF ToSet
    <3> QED
      BY <3>1
  <2>3. CASE i \notin 1 .. m
    <3>1. j \notin 1 .. m /\ i - m < j - m
      BY <1>1, <1>3, <1>6, <2>3
    <3> QED
      BY <1>3, <1>4, <2>3, <3>1 DEF InOrder
  <2> QED
    BY <2>1, <2>2, <2>3
<1> QED
  BY <1>1, <1>5, <1>6 DEF InOrder

LEMMA OneInOrder ==
  ASSUME NEW x \in Tasks
  PROVE  <<x>> \in Seq(Tasks) /\ InOrder(<<x>>) /\ ToSet(<<x>>) = {x}
BY DEF InOrder, ToSet

\* The requests to the source in each of the regions.
LEMMA RegionsInOrder ==
  ASSUME NEW a \in Sessions, NEW source \in {"resource-explorer", "tagging"},
         NEW regions \in Seq(ToSet(Enabled)), IsInjective(regions)
  PROVE  LET u == [i \in DOMAIN regions |-> <<a, source, regions[i]>>]
         IN u \in Seq(Tasks) /\ InOrder(u) /\ ToSet(u) = {a} \X {source} \X ToSet(regions)
<1> DEFINE u == [i \in DOMAIN regions |-> <<a, source, regions[i]>>]
<1>1. DOMAIN regions = 1 .. Len(regions) /\ Len(regions) \in Nat
      /\ \A i \in DOMAIN regions : regions[i] \in ToSet(Enabled)
  OBVIOUS
<1>2. \A i \in DOMAIN regions : u[i] \in Tasks
  BY <1>1 DEF Tasks, Kinds
<1>3. u \in Seq(Tasks)
  BY <1>1, <1>2
<1>4. ASSUME NEW i \in DOMAIN regions, NEW j \in DOMAIN regions, i < j
      PROVE  Before(u[i], u[j])
  <2>1. regions[i] # regions[j]
    BY <1>1, <1>4 DEF IsInjective
  <2>2. Stage(source) <= Stage(source) /\ ~(Stage(source) >= 4)
    BY DEF Stage
  <2> QED
    BY <2>1, <2>2 DEF Before
<1>5. ToSet(u) = {a} \X {source} \X ToSet(regions)
  BY DEF ToSet
<1> QED
  BY <1>3, <1>4, <1>5 DEF InOrder

LEMMA HomeEnabled == Home \in ToSet(Enabled) /\ Own \in Sessions
BY EstateAssumption DEF Sessions

LEMMA PlanInOrder ==
  ASSUME NEW a \in Sessions,
         NEW regions \in Seq(ToSet(Enabled)), IsInjective(regions)
  PROVE  /\ Plan(a, regions) \in Seq(Tasks) /\ InOrder(Plan(a, regions))
         /\ ToSet(Plan(a, regions)) = Sought(a, regions) \cup {<<a, "merge", Home>>}
<1> DEFINE c == <<<<a, "config", Home>>>>
           e == [i \in DOMAIN regions |-> <<a, "resource-explorer", regions[i]>>]
           g == [i \in DOMAIN regions |-> <<a, "tagging", regions[i]>>]
           m == <<<<a, "merge", Home>>>>
<1>1. /\ <<a, "config", Home>> \in Tasks /\ <<a, "merge", Home>> \in Tasks
  BY HomeEnabled DEF Tasks, Kinds
<1>2. c \in Seq(Tasks) /\ InOrder(c) /\ ToSet(c) = {<<a, "config", Home>>}
  BY <1>1, OneInOrder
<1>3. e \in Seq(Tasks) /\ InOrder(e) /\ ToSet(e) = {a} \X {"resource-explorer"} \X ToSet(regions)
  BY RegionsInOrder
<1>4. g \in Seq(Tasks) /\ InOrder(g) /\ ToSet(g) = {a} \X {"tagging"} \X ToSet(regions)
  BY RegionsInOrder
<1>5. m \in Seq(Tasks) /\ InOrder(m) /\ ToSet(m) = {<<a, "merge", Home>>}
  BY <1>1, OneInOrder
<1> HIDE DEF c, e, g, m
<1>6. \A x \in ToSet(c), y \in ToSet(e) : Before(x, y)
  BY <1>2, <1>3 DEF Before, Stage
<1>7. c \o e \in Seq(Tasks) /\ InOrder(c \o e) /\ ToSet(c \o e) = ToSet(c) \cup ToSet(e)
  BY <1>2, <1>3, <1>6, ConcatInOrder
<1>8. \A x \in ToSet(c \o e), y \in ToSet(g) : Before(x, y)
  BY <1>2, <1>3, <1>4, <1>7 DEF Before, Stage
<1>9. /\ (c \o e) \o g \in Seq(Tasks) /\ InOrder((c \o e) \o g)
      /\ ToSet((c \o e) \o g) = ToSet(c) \cup ToSet(e) \cup ToSet(g)
  BY <1>4, <1>7, <1>8, ConcatInOrder
<1>10. \A x \in ToSet((c \o e) \o g), y \in ToSet(m) : Before(x, y)
  BY <1>2, <1>3, <1>4, <1>5, <1>9 DEF Before, Stage
<1>11. /\ ((c \o e) \o g) \o m \in Seq(Tasks) /\ InOrder(((c \o e) \o g) \o m)
       /\ ToSet(((c \o e) \o g) \o m) = ToSet(c) \cup ToSet(e) \cup ToSet(g) \cup ToSet(m)
  BY <1>5, <1>9, <1>10, ConcatInOrder
<1>12. ToSet(c) \cup ToSet(e) \cup ToSet(g) \cup ToSet(m)
         = Sought(a, regions) \cup {<<a, "merge", Home>>}
  BY <1>2, <1>3, <1>4, <1>5 DEF Sought
<1>13. Plan(a, regions) = ((c \o e) \o g) \o m
  BY DEF Plan, c, e, g, m
<1> QED
  BY <1>11, <1>12, <1>13

LEMMA SoughtEnds ==
  ASSUME NEW a, NEW regions, NEW x \in Sought(a, regions)
  PROVE  x[1] = a /\ x[2] \in Sources
BY DEF Sought, Sources

LEMMA VisitOrderly ==
  ASSUME NEW a \in Sessions, a # Own,
         NEW regions \in Seq(ToSet(Enabled)), IsInjective(regions)
  PROVE  /\ Orderly(Visit(a, regions))
         /\ ToSet(Visit(a, regions))
              = Sought(a, regions) \cup {<<a, "assume", Home>>, <<a, "merge", Home>>}
<1> DEFINE v == <<<<a, "assume", Home>>>>
           p == Plan(a, regions)
<1>1. <<a, "assume", Home>> \in Tasks
  BY HomeEnabled DEF Tasks, Kinds
<1>2. v \in Seq(Tasks) /\ InOrder(v) /\ ToSet(v) = {<<a, "assume", Home>>}
  BY <1>1, OneInOrder
<1>3. p \in Seq(Tasks) /\ InOrder(p) /\ ToSet(p) = Sought(a, regions) \cup {<<a, "merge", Home>>}
  BY PlanInOrder
<1> HIDE DEF v, p
<1>4. \A x \in ToSet(v), y \in ToSet(p) : Before(x, y)
  BY <1>2, <1>3, SoughtEnds DEF Before, Stage, Sources
<1>5. v \o p \in Seq(Tasks) /\ InOrder(v \o p) /\ ToSet(v \o p) = ToSet(v) \cup ToSet(p)
  BY <1>2, <1>3, <1>4, ConcatInOrder
<1>6. Ends(ToSet(v \o p))
  <2>0. \A x \in ToSet(v \o p) :
          \/ x \in Sought(a, regions) \/ x = <<a, "assume", Home>> \/ x = <<a, "merge", Home>>
    BY <1>2, <1>3, <1>5
  <2>1. \A x \in ToSet(v \o p) :
          /\ x[2] \notin {"regions", "identity", "organizations", "current-account"}
          /\ x[2] = "assume" => x[3] = Home
    BY <2>0, SoughtEnds DEF Sources
  <2>2. <<a, "merge", Home>> \in ToSet(v \o p) /\ <<a, "merge", Home>>[2] = "merge"
    BY <1>3, <1>5
  <2>3. \E y \in ToSet(v \o p) : y[2] = "merge"
    BY <2>2
  <2> QED
    BY <2>1, <2>3 DEF Ends
<1> QED
  BY <1>2, <1>3, <1>5, <1>6 DEF Visit, Orderly, v, p

\* The agenda of a scan once the regions are known.
LEMMA BeginOrderly ==
  ASSUME NEW regions \in Seq(ToSet(Enabled)), IsInjective(regions)
  PROVE  LET todo == Plan(Own, regions) \o AfterRegions
         IN /\ Orderly(todo)
            /\ Sought(Own, regions) \subseteq ToSet(todo)
            /\ \A x \in ToSet(todo) : x[1] = Own /\ x[2] \notin {"regions", "assume"}
            /\ \E x \in ToSet(todo) : x[2] = "merge"
<1> DEFINE p == Plan(Own, regions)
           d == <<Own, "identity", Home>>
           g == <<Own, "organizations", Home>>
           o == <<d, g>>
<1>0. Own \in Sessions
  BY HomeEnabled
<1>1. d \in Tasks /\ g \in Tasks /\ Before(d, g)
  BY HomeEnabled DEF Tasks, Kinds, Before, Stage
<1>2. o \in Seq(Tasks) /\ InOrder(o) /\ ToSet(o) = {d, g}
  <2> HIDE DEF d, g
  <2>1. o \in Seq(Tasks) /\ DOMAIN o = 1 .. 2 /\ o[1] = d /\ o[2] = g
    BY <1>1
  <2>2. \A i, j \in 1 .. 2 : i < j => i = 1 /\ j = 2
    OBVIOUS
  <2> HIDE DEF o
  <2> QED
    BY <1>1, <2>1, <2>2 DEF InOrder, ToSet
<1>3. p \in Seq(Tasks) /\ InOrder(p)
      /\ ToSet(p) = Sought(Own, regions) \cup {<<Own, "merge", Home>>}
  BY <1>0, PlanInOrder
<1>3a. /\ <<>> \in Seq(Tasks) /\ InOrder(<<>>) /\ ToSet(<<>>) = {}
  BY DEF InOrder, ToSet
<1> HIDE DEF o, p
<1>4. \A x \in ToSet(p), y \in ToSet(o) : Before(x, y)
  BY <1>2, <1>3, SoughtEnds DEF Before, Stage, Sources
<1>5. PICK q \in {o, <<>>} : AfterRegions = q
  BY DEF AfterRegions, o
<1>6. p \o q \in Seq(Tasks) /\ InOrder(p \o q) /\ ToSet(p \o q) = ToSet(p) \cup ToSet(q)
  <2>1. q \in Seq(Tasks) /\ InOrder(q) /\ \A x \in ToSet(p), y \in ToSet(q) : Before(x, y)
    BY <1>2, <1>3a, <1>4
  <2> QED
    BY <1>3, <2>1, ConcatInOrder
<1>7. ToSet(q) \subseteq {d, g}
  BY <1>2, <1>3a
<1>8. /\ \A x \in ToSet(p \o q) : x[1] = Own /\ x[2] \notin {"regions", "assume"}
      /\ \E x \in ToSet(p \o q) : x[2] = "merge"
      /\ \A x \in ToSet(p \o q) :
           /\ x[2] = "identity" => x = <<Own, "identity", Home>>
           /\ x[2] = "organizations" => x = <<Own, "organizations", Home>>
           /\ x[2] # "current-account"
  <2>1. <<Own, "merge", Home>> \in ToSet(p \o q) /\ <<Own, "merge", Home>>[2] = "merge"
    BY <1>3, <1>6
  <2>2. \A x \in ToSet(p \o q) :
          \/ x \in Sought(Own, regions)
          \/ x = <<Own, "merge", Home>>
          \/ x \in {d, g}
    BY <1>3, <1>6, <1>7
  <2>3. \A x \in ToSet(p \o q) : x[1] = Own /\ x[2] \notin {"regions", "assume"}
    BY <2>2, SoughtEnds DEF Sources
  <2>4. \A x \in ToSet(p \o q) :
          /\ x[2] = "identity" => x = <<Own, "identity", Home>>
          /\ x[2] = "organizations" => x = <<Own, "organizations", Home>>
          /\ x[2] # "current-account"
    BY <2>2, SoughtEnds DEF Sources
  <2> QED
    BY <2>1, <2>3, <2>4
<1>9. Ends(ToSet(p \o q))
  BY <1>8 DEF Ends
<1> QED
  BY <1>3, <1>5, <1>6, <1>8, <1>9 DEF Orderly, p

LEMMA TailOrderly ==
  ASSUME NEW todo, Orderly(todo), todo # <<>>
  PROVE  /\ Orderly(Tail(todo))
         /\ Head(todo) \in Tasks
         /\ ToSet(todo) = {Head(todo)} \cup ToSet(Tail(todo))
         /\ \A x \in ToSet(Tail(todo)) : Before(Head(todo), x)
<1> DEFINE u == Tail(todo)
           n == Len(todo)
<1>1. todo \in Seq(Tasks) /\ InOrder(todo) /\ Ends(ToSet(todo))
  BY DEF Orderly
<1>2. n \in Nat /\ n > 0 /\ DOMAIN todo = 1 .. n
  BY <1>1
<1>3. u \in Seq(Tasks) /\ DOMAIN u = 1 .. (n - 1) /\ (\A i \in 1 .. (n - 1) : u[i] = todo[i + 1])
      /\ Head(todo) = todo[1] /\ todo[1] \in Tasks
  BY <1>1, <1>2
<1> HIDE DEF u
<1>4. ASSUME NEW i \in DOMAIN u, NEW j \in DOMAIN u, i < j
      PROVE  Before(u[i], u[j])
  <2>1. i + 1 \in DOMAIN todo /\ j + 1 \in DOMAIN todo /\ i + 1 < j + 1
    BY <1>2, <1>3, <1>4
  <2>2. u[i] = todo[i + 1] /\ u[j] = todo[j + 1]
    BY <1>3
  <2> QED
    BY <1>1, <2>1, <2>2 DEF InOrder
<1>5. ToSet(todo) = {Head(todo)} \cup ToSet(u)
  <2>1. \A i \in 1 .. n : i = 1 \/ (i - 1 \in 1 .. (n - 1) /\ u[i - 1] = todo[i])
    BY <1>2, <1>3
  <2>2. \A i \in 1 .. (n - 1) : i + 1 \in 1 .. n
    BY <1>2
  <2>3. 1 \in 1 .. n
    BY <1>2
  <2>4. ASSUME NEW x \in ToSet(todo)
        PROVE  x \in {Head(todo)} \cup ToSet(u)
    <3>1. PICK i \in 1 .. n : x = todo[i]
      BY <1>2 DEF ToSet
    <3> QED
      BY <1>3, <2>1, <3>1 DEF ToSet
  <2>5. ASSUME NEW x \in ToSet(u)
        PROVE  x \in ToSet(todo)
    <3>1. PICK i \in 1 .. (n - 1) : x = u[i]
      BY <1>3 DEF ToSet
    <3> QED
      BY <1>2, <1>3, <2>2, <3>1 DEF ToSet
  <2>6. Head(todo) \in ToSet(todo)
    BY <1>2, <1>3, <2>3 DEF ToSet
  <2> QED
    BY <2>4, <2>5, <2>6
<1>6. ASSUME NEW x \in ToSet(u)
      PROVE  Before(Head(todo), x)
  <2>1. PICK i \in 1 .. (n - 1) : x = todo[i + 1]
    BY <1>3 DEF ToSet
  <2>2. 1 < i + 1 /\ 1 \in 1 .. n /\ i + 1 \in 1 .. n
    BY <1>2
  <2> QED
    BY <1>1, <1>2, <1>3, <2>1, <2>2 DEF InOrder
<1>7. Ends(ToSet(u))
  <2> SUFFICES ASSUME NEW x \in ToSet(u)
               PROVE  /\ x[2] # "regions"
                      /\ x[2] = "identity" => x = <<Own, "identity", Home>>
                      /\ x[2] = "organizations" => x = <<Own, "organizations", Home>>
                      /\ x[2] # "current-account"
                      /\ x[2] = "assume" => x[3] = Home
                      /\ Stage(x[2]) < 4 => \E y \in ToSet(u) : y[2] = "merge"
    BY DEF Ends
  <2>0. x[2] # "current-account"
    BY <1>1, <1>5, <1>6 DEF Ends, Before
  <2>1. /\ x[2] # "regions" /\ (x[2] = "identity" => x = <<Own, "identity", Home>>)
        /\ (x[2] = "organizations" => x = <<Own, "organizations", Home>>)
        /\ (x[2] = "assume" => x[3] = Home)
        /\ Stage(x[2]) < 4 => \E y \in ToSet(todo) : y[2] = "merge"
    BY <1>1, <1>5 DEF Ends
  <2>2. ~(Head(todo)[2] = "merge" /\ Stage(x[2]) < 4)
    BY <1>6 DEF Before, Stage
  <2> QED
    BY <1>5, <2>0, <2>1, <2>2
<1> QED
  BY <1>1, <1>3, <1>4, <1>5, <1>6, <1>7 DEF Orderly, InOrder, u


-----------------------------------------------------------------------------
(* Lemmas: a scan takes the first of its tasks.                             *)

LEMMA HeadDone ==
  ASSUME NEW s, NEW u, Agenda(s), s.todo # <<>>, u.todo = Tail(s.todo)
  PROVE  /\ Orderly(u.todo)
         /\ Left(s) = {Head(s.todo)} \cup Left(u)
         /\ \A x \in Left(u) : Before(Head(s.todo), x)
         /\ Head(s.todo)[2] # "regions"
         /\ Stage(Head(s.todo)[2]) < 4 => (Merging(s) /\ Merging(u))
<1>1. Orderly(s.todo)
  BY DEF Agenda
<1>2. /\ Orderly(u.todo)
      /\ Left(s) = {Head(s.todo)} \cup Left(u)
      /\ \A x \in Left(u) : Before(Head(s.todo), x)
  BY <1>1, TailOrderly DEF Left
<1>3. Ends(Left(s)) /\ Head(s.todo) \in Left(s)
  BY <1>1, <1>2 DEF Orderly, Left
<1>4. Stage(Head(s.todo)[2]) < 4 => \E y \in Left(s) : y[2] = "merge"
  BY <1>3 DEF Ends
<1>5. Stage("merge") = 4
  BY DEF Stage
<1>6. Stage(Head(s.todo)[2]) < 4 => Head(s.todo)[2] # "merge"
  BY <1>5
<1> QED
  BY <1>2, <1>3, <1>4, <1>6 DEF Ends, Merging

\* The answered requests and one more.
With(ok, r) == ok \cup {r}

LEMMA StepAgenda ==
  ASSUME NEW s, NEW u, Agenda(s), s.todo # <<>>, u.todo = Tail(s.todo),
         DOMAIN u = Parts, u.accounts = s.accounts, u.regions = s.regions,
         u.failures \in Nat,
         \/ u.ok = s.ok
         \/ u.ok = With(s.ok, Head(s.todo)) /\ Head(s.todo)[2] # "organizations"
  PROVE  Agenda(u)
<1> DEFINE r == Head(s.todo)
<1>1. /\ Orderly(u.todo)
      /\ Left(s) = {r} \cup Left(u)
      /\ \A x \in Left(u) : Before(r, x)
      /\ r[2] # "regions"
  BY HeadDone
<1>0. u.ok \subseteq s.ok \cup {r} /\ s.ok \subseteq u.ok
  BY DEF With
<1>2. u.regions = IF <<Own, "regions", Home>> \in u.ok THEN Enabled ELSE <<Home>>
  <2>1. <<Own, "regions", Home>> # r
    BY <1>1
  <2> QED
    BY <1>0, <2>1 DEF Agenda
<1>3. \A x \in Left(u) : x # r /\ x[1] = r[1] /\ Stage(r[2]) <= Stage(x[2])
  BY <1>1 DEF Before
<1>5. \A q \in u.ok \cup Left(u) : q[1] \notin ToSet(u.accounts)
  BY <1>0, <1>1 DEF Agenda
<1>6. \A x \in Left(u) : x[1] = Own =>
        /\ u.accounts = <<>> /\ <<Own, "organizations", Home>> \notin u.ok
        /\ \A q \in u.ok : q[1] = Own
  BY <1>0, <1>1, <1>3 DEF Agenda, With
<1> QED
  BY <1>1, <1>2, <1>5, <1>6 DEF Agenda

\* What a scan seeks of an account it keeps on seeking.
LEMMA StepReach ==
  ASSUME NEW s, NEW u, Reach(s), s.notes \subseteq u.notes, u.regions = s.regions,
         u.accounts = s.accounts,
         <<Own, "organizations", Home>> \in u.ok
           => <<Own, "organizations", Home>> \in s.ok,
         \A x \in s.ok \cup s.notes \cup Left(s) :
           x[2] \in Sources => x \in u.ok \cup u.notes \cup Left(u)
  PROVE  Reach(u)
<1>1. ASSUME NEW a, Covered(s, a)
      PROVE  Covered(u, a)
  BY <1>1, SoughtEnds DEF Covered
<1> QED
  BY <1>1 DEF Reach

-----------------------------------------------------------------------------
(* Lemmas: the records of what has been answered.                           *)

LEMMA SameIs ==
  ASSUME NEW ok, NEW k, NEW a
  PROVE  \A w : w \in Same(ok, k, a) <=>
           \E q \in ok : q[2] \in Sources /\ k \in Read(q) /\ q[1] = a /\ w = q[2]
BY DEF Same, Finds

LEMMA ToldGrows ==
  ASSUME NEW ok, NEW r, NEW new, new = With(ok, r)
  PROVE  Told(new) = IF r[2] \in Sources THEN Told(ok) \cup Read(r) ELSE Told(ok)
BY DEF Told, With

\* An answer that tells nothing of the resource for the account.
LEMMA SameStays ==
  ASSUME NEW ok, NEW r, NEW new, new = With(ok, r), NEW k, NEW a,
         ~(r[2] \in Sources /\ k \in Read(r) /\ r[1] = a)
  PROVE  Same(new, k, a) = Same(ok, k, a)
<1>1. \A w : w \in Same(new, k, a) <=>
        \/ \E q \in ok : q[2] \in Sources /\ k \in Read(q) /\ q[1] = a /\ w = q[2]
        \/ r[2] \in Sources /\ k \in Read(r) /\ r[1] = a /\ w = r[2]
  BY SameIs DEF With
<1>2. \A w : w \in Same(ok, k, a) <=>
             \E q \in ok : q[2] \in Sources /\ k \in Read(q) /\ q[1] = a /\ w = q[2]
  BY SameIs DEF With
<1>3. \A w : w \in Same(new, k, a) <=> w \in Same(ok, k, a)
  BY <1>1, <1>2
<1> QED
  BY <1>3

LEMMA SameGrows ==
  ASSUME NEW ok, NEW r, NEW new, new = With(ok, r), NEW k, r[2] \in Sources, k \in Read(r)
  PROVE  \A w : w \in Same(new, k, r[1]) <=> w \in Same(ok, k, r[1]) \/ w = r[2]
<1>1. \A w : w \in Same(new, k, r[1]) <=>
        \/ \E q \in ok : q[2] \in Sources /\ k \in Read(q) /\ q[1] = r[1] /\ w = q[2]
        \/ w = r[2]
  BY SameIs DEF With
<1>2. \A w : w \in Same(ok, k, r[1]) <=>
             \E q \in ok : q[2] \in Sources /\ k \in Read(q) /\ q[1] = r[1] /\ w = q[2]
  BY SameIs
<1> QED
  BY <1>1, <1>2

\* A task that is no request to a source changes no record.
LEMMA StepHoard ==
  ASSUME NEW s, NEW u, Agenda(s), Hoard(s), s.todo # <<>>, u.todo = Tail(s.todo),
         u.fresh = s.fresh, u.seen = s.seen, Head(s.todo)[2] # "merge",
         \/ u.ok = s.ok
         \/ u.ok = With(s.ok, Head(s.todo)) /\ Head(s.todo)[2] \notin Sources
  PROVE  Hoard(u)
<1> DEFINE r == Head(s.todo)
<1>1. /\ Left(s) = {r} \cup Left(u)
      /\ \A x \in Left(u) : Before(r, x)
  BY HeadDone
<1>2. Merging(u) <=> Merging(s)
  BY <1>1 DEF Merging
<1>3. /\ Told(u.ok) = Told(s.ok)
      /\ \A k, a : Same(u.ok, k, a) = Same(s.ok, k, a)
  <2>1. CASE u.ok = s.ok
    BY <2>1
  <2>2. CASE u.ok = With(s.ok, r) /\ r[2] \notin Sources
    <3>1. Told(u.ok) = Told(s.ok)
      BY <2>2, ToldGrows
    <3>2. ASSUME NEW k, NEW a
          PROVE  Same(u.ok, k, a) = Same(s.ok, k, a)
      BY <2>2, SameStays
    <3> QED
      BY <3>1, <3>2
  <2> QED
    BY <2>1, <2>2
<1>4. \A k, record : Best(u.ok, k, record) <=> Best(s.ok, k, record)
  BY <1>3 DEF Best
<1>5. \A q \in u.ok : q[2] \in Sources => q \in s.ok
  BY DEF With
<1> QED
  BY <1>1, <1>2, <1>3, <1>4, <1>5 DEF Hoard

\* A request to a source is answered: what it tells of is recorded, and what the
\* tags tell of only where nothing was.
LEMMA AnswerHoard ==
  ASSUME NEW s, NEW u, Agenda(s), Hoard(s), s.todo # <<>>, u.todo = Tail(s.todo),
         u.seen = s.seen, u.ok = With(s.ok, Head(s.todo)), Head(s.todo)[2] \in Sources,
         DOMAIN u.fresh = DOMAIN s.fresh \cup Read(Head(s.todo)),
         \A k \in DOMAIN u.fresh :
           u.fresh[k] = IF /\ k \in Read(Head(s.todo))
                           /\ Head(s.todo)[2] = "tagging" => k \notin DOMAIN s.fresh
                          THEN <<Head(s.todo)[1], Head(s.todo)[2]>> ELSE s.fresh[k]
  PROVE  Hoard(u)
<1> DEFINE r == Head(s.todo)
<1>1. /\ Left(s) = {r} \cup Left(u)
      /\ \A x \in Left(u) : Before(r, x)
      /\ Stage(r[2]) < 4 => Merging(s) /\ Merging(u)
  BY HeadDone
<1>2. /\ r[2] \in Sources /\ r \in Left(s) /\ Merging(s) /\ Merging(u)
      /\ \A x \in Left(u) : x[1] = r[1] /\ x[2] # "assume"
  BY <1>1 DEF Stage, Sources, Before
<1>0. u.ok = With(s.ok, r)
  OBVIOUS
<1> HIDE DEF r
<1>3. Told(u.ok) = Told(s.ok) \cup Read(r)
  BY <1>2, ToldGrows DEF r
<1>4. DOMAIN u.fresh \cup DOMAIN u.seen = Told(u.ok)
  BY <1>3 DEF Hoard, r
<1>5. \A k \in DOMAIN s.fresh : s.fresh[k][1] = r[1] /\ Best(s.ok, k, s.fresh[k])
  BY <1>2 DEF Hoard
<1>6. \A k \in DOMAIN u.fresh : u.fresh[k][1] = r[1]
  BY <1>5 DEF r
<1>8. \A k : k \notin DOMAIN s.fresh => Same(s.ok, k, r[1]) = {}
  <2>1. \A q \in s.ok : q[1] = r[1] /\ q[2] \in Sources => Read(q) \subseteq DOMAIN s.fresh
    BY <1>2 DEF Hoard
  <2> QED
    BY <2>1, SameIs
<1>9. ASSUME NEW k \in DOMAIN u.fresh
      PROVE  Best(u.ok, k, u.fresh[k])
  <2>1. CASE k \notin Read(r)
    <3>1. Same(u.ok, k, r[1]) = Same(s.ok, k, r[1])
      BY <2>1, SameStays DEF r
    <3>2. u.fresh[k] = s.fresh[k] /\ k \in DOMAIN s.fresh
      BY <2>1 DEF r
    <3> QED
      BY <1>5, <3>1, <3>2 DEF Best
  <2>2. CASE k \in Read(r) /\ (r[2] = "tagging" => k \notin DOMAIN s.fresh)
    <3>1. r[2] \in Sources /\ k \in Read(r)
      BY <1>2, <2>2
    <3>2. u.fresh[k] = <<r[1], r[2]>>
      BY <2>2 DEF r
    <3>4. r[2] = "tagging" => Same(s.ok, k, r[1]) = {}
      BY <1>8, <2>2
    <3>5. \A w : w \in Same(u.ok, k, r[1]) <=> w \in Same(s.ok, k, r[1]) \/ w = r[2]
      BY <1>0, <3>1, SameGrows
    <3>6. r[2] \in Same(u.ok, k, r[1])
      BY <3>5
    <3>7. ASSUME r[2] = "tagging"
          PROVE  Same(u.ok, k, r[1]) = {"tagging"}
      BY <3>4, <3>5, <3>7
    <3>8. u.fresh[k][1] = r[1] /\ u.fresh[k][2] = r[2]
      BY <3>2
    <3> QED
      BY <3>6, <3>7, <3>8 DEF Best
  <2>3. CASE k \in Read(r) /\ r[2] = "tagging" /\ k \in DOMAIN s.fresh
    <3>0. r[2] \in Sources /\ k \in Read(r)
      BY <1>2, <2>3
    <3>1. \A w : w \in Same(u.ok, k, r[1]) <=> w \in Same(s.ok, k, r[1]) \/ w = r[2]
      BY <1>0, <3>0, SameGrows
    <3>2. u.fresh[k] = s.fresh[k] /\ s.fresh[k][1] = r[1] /\ Best(s.ok, k, s.fresh[k])
      BY <1>5, <2>3 DEF r
    <3>3. \A w : w \in Same(u.ok, k, r[1]) <=> w \in Same(s.ok, k, r[1]) \/ w = "tagging"
      BY <2>3, <3>1
    <3>4. s.fresh[k][2] \in Same(u.ok, k, r[1])
      BY <3>2, <3>3 DEF Best
    <3>5. ASSUME s.fresh[k][2] = "tagging"
          PROVE  Same(u.ok, k, r[1]) = {"tagging"}
      BY <3>2, <3>3, <3>5 DEF Best
    <3> QED
      BY <3>2, <3>4, <3>5 DEF Best
  <2> QED
    BY <2>1, <2>2, <2>3
<1>10. ASSUME NEW k \in DOMAIN u.seen
       PROVE  Best(u.ok, k, u.seen[k]) /\ \A x \in Left(u) : u.seen[k][1] # x[1]
  <2>1. Best(s.ok, k, s.seen[k]) /\ s.seen[k][1] # r[1]
    BY <1>2 DEF Hoard
  <2>2. Same(u.ok, k, s.seen[k][1]) = Same(s.ok, k, s.seen[k][1])
    BY <2>1, SameStays DEF r
  <2> QED
    BY <1>2, <2>1, <2>2 DEF Best
<1>11. ASSUME NEW x \in Left(u), NEW q \in u.ok, q[1] = x[1], q[2] \in Sources
       PROVE  Read(q) \subseteq DOMAIN u.fresh
  <2>1. CASE q = r
    BY <2>1 DEF r
  <2>2. CASE q \in s.ok
    <3>1. Read(q) \subseteq DOMAIN s.fresh
      BY <1>2, <1>11, <2>2 DEF Hoard
    <3> QED
      BY <3>1
  <2> QED
    BY <2>1, <2>2 DEF With, r
<1>12. ASSUME NEW q \in u.ok, q[1] # Own, q[2] \in Sources, NEW k \in Read(q)
       PROVE  \/ k \in DOMAIN u.fresh /\ u.fresh[k][1] # Own
              \/ k \in DOMAIN u.seen  /\ u.seen[k][1] # Own
  <2>1. CASE q = r
    BY <1>6, <1>12, <2>1 DEF r
  <2>2. CASE q \in s.ok
    <3>1. \/ k \in DOMAIN s.fresh /\ s.fresh[k][1] # Own
          \/ k \in DOMAIN s.seen  /\ s.seen[k][1] # Own
      BY <1>12, <2>2 DEF Hoard
    <3> QED
      BY <1>5, <1>6, <3>1
  <2> QED
    BY <2>1, <2>2 DEF With, r
<1> QED
  BY <1>2, <1>4, <1>6, <1>9, <1>10, <1>11, <1>12 DEF Hoard

\* The records of the account in hand take the place of those of the accounts
\* before it, and there are none in hand.
LEMMA MergeHoard ==
  ASSUME NEW s, NEW u, Agenda(s), Hoard(s), s.todo # <<>>, u.todo = Tail(s.todo),
         u.ok = s.ok, Head(s.todo)[2] = "merge", u.fresh = <<>>,
         u.seen = Updated(s.seen, s.fresh)
  PROVE  Hoard(u)
<1> DEFINE r == Head(s.todo)
<1>1. /\ Left(s) = {r} \cup Left(u)
      /\ \A x \in Left(u) : Before(r, x)
  BY HeadDone
<1>2. \A x \in Left(u) : x[2] \notin {"assume", "merge"}
  BY <1>1 DEF Before, Stage
<1>3. ~Merging(u) /\ DOMAIN u.fresh = {}
  BY <1>2 DEF Merging
<1>4. /\ DOMAIN u.seen = DOMAIN s.seen \cup DOMAIN s.fresh
      /\ \A k \in DOMAIN u.seen :
           u.seen[k] = IF k \in DOMAIN s.fresh THEN s.fresh[k] ELSE s.seen[k]
  BY DEF Updated
<1>5. DOMAIN u.fresh \cup DOMAIN u.seen = Told(u.ok)
  BY <1>3, <1>4 DEF Hoard
<1>6. \A k \in DOMAIN u.seen : Best(u.ok, k, u.seen[k])
  BY <1>4 DEF Hoard
<1>7. ASSUME NEW q \in u.ok, q[1] # Own, q[2] \in Sources, NEW k \in Read(q)
      PROVE  k \in DOMAIN u.seen /\ u.seen[k][1] # Own
  <2>1. \/ k \in DOMAIN s.fresh /\ s.fresh[k][1] # Own
        \/ k \in DOMAIN s.seen  /\ s.seen[k][1] # Own
    BY <1>7 DEF Hoard
  <2>2. r \in Left(s) /\ Merging(s)
    BY <1>1 DEF Merging
  <2>3. k \in DOMAIN s.fresh => s.fresh[k][1] = r[1]
    BY <2>2 DEF Hoard
  <2>4. k \in DOMAIN s.fresh => r[1] # Own
    BY <1>7, <2>2 DEF Agenda
  <2> QED
    BY <1>4, <2>1, <2>3, <2>4
<1> QED
  BY <1>2, <1>3, <1>5, <1>6, <1>7 DEF Hoard

-----------------------------------------------------------------------------
(* Lemmas: the loop over the accounts.                                      *)

LEMMA RegionsKnown ==
  ASSUME NEW s, Agenda(s)
  PROVE  s.regions \in Seq(ToSet(Enabled)) /\ IsInjective(s.regions)
<1>1. Enabled \in Seq(ToSet(Enabled)) /\ IsInjective(Enabled)
  BY EstateAssumption
<1>2. <<Home>> \in Seq(ToSet(Enabled)) /\ IsInjective(<<Home>>)
  BY HomeEnabled DEF IsInjective
<1> QED
  BY <1>1, <1>2 DEF Agenda

LEMMA HeadAndRest ==
  ASSUME NEW S, NEW q \in Seq(S), q # <<>>, IsInjective(q)
  PROVE  /\ Head(q) \in S /\ Tail(q) \in Seq(S) /\ IsInjective(Tail(q))
         /\ ToSet(q) = {Head(q)} \cup ToSet(Tail(q)) /\ Head(q) \notin ToSet(Tail(q))
<1> DEFINE n == Len(q)
           v == Tail(q)
<1>1. n \in Nat /\ n > 0 /\ DOMAIN q = 1 .. n /\ Head(q) = q[1] /\ Head(q) \in S
  OBVIOUS
<1>2. v \in Seq(S) /\ DOMAIN v = 1 .. (n - 1) /\ \A i \in 1 .. (n - 1) : v[i] = q[i + 1]
  BY <1>1
<1> HIDE DEF v, n
<1>3. \A i \in 1 .. (n - 1) : i + 1 \in 1 .. n /\ i + 1 # 1
  BY <1>1
<1>4. \A i \in 1 .. n : i = 1 \/ (i - 1 \in 1 .. (n - 1) /\ (i - 1) + 1 = i)
  BY <1>1
<1>5. \A i, j \in 1 .. (n - 1) : i + 1 = j + 1 => i = j
  OBVIOUS
<1>6. ASSUME NEW i \in DOMAIN v, NEW j \in DOMAIN v, v[i] = v[j]
      PROVE  i = j
  <2>1. i \in 1 .. (n - 1) /\ j \in 1 .. (n - 1)
    BY <1>2
  <2>2. q[i + 1] = q[j + 1] /\ i + 1 \in DOMAIN q /\ j + 1 \in DOMAIN q
    BY <1>1, <1>2, <1>3, <1>6, <2>1
  <2>3. i + 1 = j + 1
    BY <2>2 DEF IsInjective
  <2> QED
    BY <1>5, <2>1, <2>3
<1>7. Head(q) \notin ToSet(v)
  <2>1. \A i \in 1 .. (n - 1) : q[i + 1] # q[1]
    BY <1>1, <1>3 DEF IsInjective
  <2> QED
    BY <1>1, <1>2, <2>1 DEF ToSet
<1>8. ToSet(v) \subseteq ToSet(q) /\ Head(q) \in ToSet(q)
  BY <1>1, <1>2, <1>3 DEF ToSet
<1>9. ToSet(q) \subseteq {Head(q)} \cup ToSet(v)
  <2> SUFFICES ASSUME NEW i \in 1 .. n, i # 1
               PROVE  q[i] \in ToSet(v)
    BY <1>1 DEF ToSet
  <2>1. i - 1 \in 1 .. (n - 1) /\ v[i - 1] = q[i]
    BY <1>2, <1>4
  <2> QED
    BY <1>2, <2>1 DEF ToSet
<1> QED
  BY <1>1, <1>2, <1>6, <1>7, <1>8, <1>9 DEF IsInjective, v

LEMMA OnwardGoes ==
  ASSUME NEW s, Idling(s)
  PROVE  Going(Onward(s))
<1>1. CASE s.todo # <<>> \/ s.accounts = <<>>
  BY <1>1 DEF Onward, Going
<1>2. CASE s.todo = <<>> /\ s.accounts # <<>>
  <2> DEFINE a == Head(s.accounts)
             v == Visit(a, s.regions)
             u == [s EXCEPT !.todo = v, !.accounts = Tail(@)]
  <2>1. DOMAIN s = Parts /\ Parts = Fields
    BY FieldsAre DEF Idling, Agenda
  <2>2. /\ DOMAIN u = Parts /\ u.todo = v /\ u.accounts = Tail(s.accounts)
        /\ u.regions = s.regions /\ u.fresh = s.fresh /\ u.seen = s.seen
        /\ u.notes = s.notes /\ u.ok = s.ok /\ u.failures = s.failures
    BY <2>1 DEF Fields
  <2>3. /\ s.accounts \in Seq(Sessions \ {Own}) /\ IsInjective(s.accounts)
        /\ s.regions \in Seq(ToSet(Enabled)) /\ IsInjective(s.regions)
    BY RegionsKnown DEF Idling, Agenda
  <2>4. /\ a \in Sessions \ {Own}
        /\ Tail(s.accounts) \in Seq(Sessions \ {Own})
        /\ IsInjective(Tail(s.accounts))
        /\ ToSet(s.accounts) = {a} \cup ToSet(Tail(s.accounts))
        /\ a \notin ToSet(Tail(s.accounts))
    BY <1>2, <2>3, HeadAndRest
  <2>5. /\ Orderly(v)
        /\ ToSet(v) = Sought(a, s.regions) \cup {<<a, "assume", Home>>, <<a, "merge", Home>>}
    BY <2>3, <2>4, VisitOrderly
  <2>6. Onward(s) = u
    BY <1>2 DEF Onward
  <2> HIDE DEF u, v, a
  <2>7. Left(s) = {} /\ ~Merging(s)
    BY <1>2 DEF Left, Merging, ToSet
  <2>8. \A x \in Left(u) : x[1] = a
    BY <2>2, <2>5, SoughtEnds DEF Left
  <2>9. \A q \in s.ok : q[1] # a /\ q[1] \notin ToSet(u.accounts)
    BY <2>2, <2>4 DEF Idling, Agenda
  <2>10. Agenda(u)
    <3>1. u.failures \in Nat
      BY <2>2 DEF Idling, Agenda
    <3>2. u.regions = IF <<Own, "regions", Home>> \in u.ok THEN Enabled ELSE <<Home>>
      BY <2>2 DEF Idling, Agenda
    <3>4. /\ \A q \in u.ok \cup Left(u) : q[1] \notin ToSet(u.accounts)
          /\ \A x \in Left(u) : x[1] # Own
      BY <2>2, <2>4, <2>8, <2>9
    <3> QED
      BY <2>2, <2>4, <2>5, <3>1, <3>2, <3>4 DEF Agenda
  <2>11. Hoard(u)
    <3>1. s.fresh = <<>> /\ DOMAIN s.fresh = {}
      BY <2>7 DEF Idling, Hoard
    <3>2. \A k \in DOMAIN s.seen : Best(s.ok, k, s.seen[k])
      BY DEF Idling, Hoard
    <3>3. \A k \in DOMAIN s.seen : s.seen[k][1] # a
      BY <2>9, <3>2, SameIs DEF Best
    <3>4. \A q \in s.ok : q[1] # Own /\ q[2] \in Sources => \A k \in Read(q) :
            k \in DOMAIN s.seen  /\ s.seen[k][1] # Own
      BY <3>1 DEF Idling, Hoard
    <3>5. DOMAIN s.fresh \cup DOMAIN s.seen = Told(s.ok)
      BY DEF Idling, Hoard
    <3> QED
      BY <2>2, <2>8, <2>9, <3>1, <3>2, <3>3, <3>4, <3>5 DEF Hoard
  <2>12. Reach(u)
    <3>1. ASSUME NEW m, Covered(s, m)
          PROVE  Covered(u, m)
      BY <2>2, <2>7, <3>1 DEF Covered
    <3>2. Covered(u, a)
      BY <2>2, <2>5 DEF Covered, Left
    <3> QED
      BY <2>2, <2>4, <3>1, <3>2 DEF Idling, Reach
  <2>13. u.todo # <<>>
    <3>1. ToSet(<<>>) = {}
      BY DEF ToSet
    <3>2. <<a, "assume", Home>> \in ToSet(u.todo)
      BY <2>2, <2>5
    <3> QED
      BY <3>1, <3>2
  <2> QED
    BY <2>6, <2>10, <2>11, <2>12, <2>13 DEF Going, Idling
<1> QED
  BY <1>1, <1>2

-----------------------------------------------------------------------------
(* Lemmas: each step of a scan, between two of which it is going.           *)

LEMMA BeginGoes ==
  ASSUME NEW u, NEW regions, DOMAIN u = Parts,
         u.todo = Plan(Own, regions) \o AfterRegions,
         u.accounts = <<>>, u.regions = regions, u.fresh = <<>>, u.seen = <<>>,
         u.failures \in Nat,
         \A q \in u.ok : q = <<Own, "regions", Home>>,
         regions = IF <<Own, "regions", Home>> \in u.ok THEN Enabled ELSE <<Home>>
  PROVE  Going(u)
<1>1. regions \in Seq(ToSet(Enabled)) /\ IsInjective(regions)
  <2>1. Enabled \in Seq(ToSet(Enabled)) /\ IsInjective(Enabled)
    BY EstateAssumption
  <2>2. <<Home>> \in Seq(ToSet(Enabled)) /\ IsInjective(<<Home>>)
    BY HomeEnabled DEF IsInjective
  <2> QED
    BY <2>1, <2>2
<1>2. /\ Orderly(u.todo) /\ Sought(Own, regions) \subseteq Left(u)
      /\ \A x \in Left(u) : x[1] = Own /\ x[2] \notin {"regions", "assume"}
      /\ Merging(u)
  BY <1>1, BeginOrderly DEF Left, Merging
<1>3. /\ u.accounts \in Seq(Sessions \ {Own}) /\ IsInjective(u.accounts)
      /\ ToSet(u.accounts) = {}
  BY DEF IsInjective, ToSet
<1>4. \A q \in u.ok : q = <<Own, "regions", Home>> /\ q[1] = Own /\ q[2] \notin Sources
  BY DEF Sources
<1>5. u.regions = IF <<Own, "regions", Home>> \in u.ok THEN Enabled ELSE <<Home>>
  OBVIOUS
<1>6. Agenda(u)
  BY <1>2, <1>3, <1>4, <1>5 DEF Agenda
<1>7. Told(u.ok) = {} /\ DOMAIN u.fresh = {} /\ DOMAIN u.seen = {}
  BY <1>4 DEF Told
<1>8. Hoard(u)
  BY <1>2, <1>4, <1>7 DEF Hoard
<1>9. <<Own, "organizations", Home>> \notin u.ok
  BY <1>4
<1>10. Reach(u)
  BY <1>2, <1>9 DEF Reach, Covered
<1> QED
  BY <1>6, <1>8, <1>10 DEF Going, Idling

\* A request to a source is answered.
LEMMA AnswerGoes ==
  ASSUME NEW s, NEW u, Going(s), s.todo # <<>>, Head(s.todo)[2] \in Sources,
         DOMAIN u = Parts, u.todo = Tail(s.todo), u.accounts = s.accounts,
         u.regions = s.regions, u.failures = s.failures, s.notes \subseteq u.notes,
         u.seen = s.seen, u.ok = With(s.ok, Head(s.todo)),
         DOMAIN u.fresh = DOMAIN s.fresh \cup Read(Head(s.todo)),
         \A k \in DOMAIN u.fresh :
           u.fresh[k] = IF /\ k \in Read(Head(s.todo))
                           /\ Head(s.todo)[2] = "tagging" => k \notin DOMAIN s.fresh
                          THEN <<Head(s.todo)[1], Head(s.todo)[2]>> ELSE s.fresh[k]
  PROVE  Going(u)
<1>1. Agenda(s) /\ Hoard(s) /\ Reach(s)
  BY DEF Going, Idling
<1>2. u.failures \in Nat
  BY <1>1 DEF Agenda
<1>3. Agenda(u)
  BY <1>1, <1>2, StepAgenda DEF Sources
<1>4. Hoard(u)
  BY <1>1, AnswerHoard
<1>5. Left(s) = {Head(s.todo)} \cup Left(u) /\ Merging(u)
  BY <1>1, HeadDone DEF Stage, Sources
<1>6. Head(s.todo) # <<Own, "organizations", Home>>
  BY DEF Sources
<1>7. Reach(u)
  BY <1>1, <1>5, <1>6, StepReach DEF With
<1>8. u.todo # <<>>
  BY <1>5 DEF Merging, Left, ToSet
<1> QED
  BY <1>3, <1>4, <1>7, <1>8 DEF Going, Idling

\* A request to a source fails and is noted.
LEMMA FailGoes ==
  ASSUME NEW s, NEW u, Going(s), s.todo # <<>>, Head(s.todo)[2] \in Sources,
         DOMAIN u = Parts, u.todo = Tail(s.todo), u.accounts = s.accounts,
         u.regions = s.regions, u.failures \in Nat,
         u.notes = With(s.notes, Head(s.todo)),
         u.seen = s.seen, u.ok = s.ok, u.fresh = s.fresh
  PROVE  Going(u)
<1>1. Agenda(s) /\ Hoard(s) /\ Reach(s)
  BY DEF Going, Idling
<1>2. Agenda(u)
  BY <1>1, StepAgenda
<1>3. Hoard(u)
  BY <1>1, StepHoard DEF Sources
<1>4. Left(s) = {Head(s.todo)} \cup Left(u) /\ Merging(u)
  BY <1>1, HeadDone DEF Stage, Sources
<1>5. Reach(u)
  BY <1>1, <1>4, StepReach DEF With
<1>6. u.todo # <<>>
  BY <1>4 DEF Merging, Left, ToSet
<1> QED
  BY <1>2, <1>3, <1>5, <1>6 DEF Going, Idling

\* The records of an account are merged.
LEMMA MergeIdles ==
  ASSUME NEW s, NEW u, Going(s), s.todo # <<>>, Head(s.todo)[2] = "merge",
         DOMAIN u = Parts, u.todo = Tail(s.todo), u.accounts = s.accounts,
         u.regions = s.regions, u.failures = s.failures, u.notes = s.notes, u.ok = s.ok,
         u.fresh = <<>>, u.seen = Updated(s.seen, s.fresh)
  PROVE  Idling(u)
<1>1. Agenda(s) /\ Hoard(s) /\ Reach(s)
  BY DEF Going, Idling
<1>2. u.failures \in Nat
  BY <1>1 DEF Agenda
<1>3. Agenda(u)
  BY <1>1, <1>2, StepAgenda
<1>4. Hoard(u)
  BY <1>1, MergeHoard
<1>5. Left(s) = {Head(s.todo)} \cup Left(u)
  BY <1>1, HeadDone
<1>6. Reach(u)
  BY <1>1, <1>5, StepReach DEF Sources
<1> QED
  BY <1>3, <1>4, <1>6 DEF Idling

\* The role of an account is assumed.
LEMMA AssumeGoes ==
  ASSUME NEW s, NEW u, Going(s), s.todo # <<>>, Head(s.todo)[2] = "assume",
         DOMAIN u = Parts, u.todo = Tail(s.todo), u.accounts = s.accounts,
         u.regions = s.regions, u.failures = s.failures, u.notes = s.notes,
         u.ok = With(s.ok, Head(s.todo)), u.fresh = s.fresh, u.seen = s.seen
  PROVE  Going(u)
<1>1. Agenda(s) /\ Hoard(s) /\ Reach(s)
  BY DEF Going, Idling
<1>2. u.failures \in Nat
  BY <1>1 DEF Agenda
<1>3. Agenda(u)
  BY <1>1, <1>2, StepAgenda
<1>4. Hoard(u)
  BY <1>1, StepHoard DEF Sources
<1>5. Left(s) = {Head(s.todo)} \cup Left(u) /\ Merging(u)
  BY <1>1, HeadDone DEF Stage
<1>6. Head(s.todo) # <<Own, "organizations", Home>>
  OBVIOUS
<1>7. Reach(u)
  BY <1>1, <1>5, <1>6, StepReach DEF With, Sources
<1>8. u.todo # <<>>
  BY <1>5 DEF Merging, Left, ToSet
<1> QED
  BY <1>3, <1>4, <1>7, <1>8 DEF Going, Idling

\* The role of an account cannot be assumed: the account is noted and left.
LEMMA AssumeFailsIdles ==
  ASSUME NEW s, NEW u, Going(s), s.todo # <<>>, Head(s.todo)[2] = "assume",
         DOMAIN u = Parts, u.todo = <<>>, u.accounts = s.accounts,
         u.regions = s.regions, u.failures \in Nat,
         u.notes = With(s.notes, Head(s.todo)),
         u.ok = s.ok, u.fresh = s.fresh, u.seen = s.seen
  PROVE  Idling(u)
<1> DEFINE r == Head(s.todo)
<1>1. Agenda(s) /\ Hoard(s) /\ Reach(s)
  BY DEF Going, Idling
<1>2. r \in Left(s) /\ (\A x \in Left(s) : x[1] = r[1]) /\ Ends(Left(s))
  <2>1. Orderly(s.todo)
    BY <1>1 DEF Agenda
  <2> QED
    BY <2>1, TailOrderly DEF Left, Orderly, Before
<1>3. Left(u) = {} /\ ~Merging(u)
  BY DEF Left, Merging, ToSet
<1>4. Orderly(u.todo)
  BY DEF Orderly, InOrder, Ends, ToSet
<1>5. Agenda(u)
  BY <1>1, <1>3, <1>4 DEF Agenda
<1>6. s.fresh = <<>>
  BY <1>1, <1>2 DEF Hoard
<1>7. Hoard(u)
  BY <1>1, <1>3, <1>6 DEF Hoard
<1>8. r = <<r[1], "assume", Home>>
  <2>1. r \in Tasks
    BY <1>1, TailOrderly DEF Agenda
  <2> QED
    BY <1>2, <2>1 DEF Ends, Tasks
<1>9. ASSUME NEW m, Covered(s, m)
      PROVE  Covered(u, m)
  <2>1. CASE m = r[1]
    BY <1>8, <2>1 DEF Covered, With
  <2>2. CASE m # r[1]
    BY <1>2, <1>9, <2>2, SoughtEnds DEF Covered, With
  <2> QED
    BY <2>1, <2>2
<1>10. Reach(u)
  BY <1>1, <1>9 DEF Reach
<1> QED
  BY <1>5, <1>7, <1>10 DEF Idling

LEMMA RemoveAtIs ==
  ASSUME NEW S, NEW q \in Seq(S), NEW c \in 1 .. Len(q)
  PROVE  /\ RemoveAt(q, c) \in Seq(S) /\ DOMAIN RemoveAt(q, c) = 1 .. (Len(q) - 1)
         /\ \A i \in 1 .. (Len(q) - 1) : RemoveAt(q, c)[i] = q[IF i < c THEN i ELSE i + 1]
<1> DEFINE n == Len(q)
           u == SubSeq(q, 1, c - 1)
           v == SubSeq(q, c + 1, n)
<1>1. n \in Nat /\ c \in Nat /\ c > 0 /\ c <= n
  OBVIOUS
<1>2. u \in Seq(S) /\ Len(u) = c - 1 /\ \A i \in 1 .. (c - 1) : u[i] = q[i]
  BY <1>1
<1>3. v \in Seq(S) /\ Len(v) = n - c /\ \A i \in 1 .. (n - c) : v[i] = q[c + i]
  BY <1>1
<1>4. RemoveAt(q, c) = u \o v
  BY DEF RemoveAt
<1> HIDE DEF u, v
<1>5. /\ u \o v \in Seq(S) /\ Len(u \o v) = n - 1
      /\ \A i \in 1 .. (c - 1) : (u \o v)[i] = q[i]
      /\ \A i \in 1 .. (n - c) : (u \o v)[(c - 1) + i] = q[c + i]
  <2>1. /\ u \o v \in Seq(S) /\ Len(u \o v) = Len(u) + Len(v)
        /\ \A i \in 1 .. Len(u) : (u \o v)[i] = u[i]
        /\ \A i \in 1 .. Len(v) : (u \o v)[Len(u) + i] = v[i]
    <3>1. u \in Seq(S) /\ v \in Seq(S)
      BY <1>2, <1>3
    <3>2. u \o v \in Seq(S) /\ Len(u \o v) = Len(u) + Len(v)
      BY <3>1
    <3>3. \A i \in 1 .. Len(u) : (u \o v)[i] = u[i]
      BY <3>1
    <3>4. \A i \in 1 .. Len(v) : (u \o v)[Len(u) + i] = v[i]
      BY <3>1
    <3> QED
      BY <3>2, <3>3, <3>4
  <2>2. (c - 1) + (n - c) = n - 1
    BY <1>1
  <2> QED
    BY <1>2, <1>3, <2>1, <2>2
<1>6. ASSUME NEW i \in 1 .. (n - 1)
      PROVE  (u \o v)[i] = q[IF i < c THEN i ELSE i + 1]
  <2>1. CASE i < c
    BY <1>1, <1>5, <2>1
  <2>2. CASE ~(i < c)
    <3>1. i - (c - 1) \in 1 .. (n - c) /\ (c - 1) + (i - (c - 1)) = i /\ c + (i - (c - 1)) = i + 1
      BY <1>1, <2>2
    <3> QED
      BY <1>5, <2>2, <3>1
  <2> QED
    BY <2>1, <2>2
<1> QED
  BY <1>1, <1>4, <1>5, <1>6

\* The members without the current account.
Rest == RemoveAt(Members, CHOOSE i \in DOMAIN Members : Members[i] = Current)

LEMMA RestIs ==
  /\ Rest \in Seq(ToSet(Members) \ {Current}) /\ IsInjective(Rest)
  /\ ToSet(Rest) = ToSet(Members) \ {Current}
<1> DEFINE c == CHOOSE i \in DOMAIN Members : Members[i] = Current
           n == Len(Members)
<1>1. /\ Members \in Seq(ToSet(Members)) /\ IsInjective(Members)
      /\ DOMAIN Members = 1 .. n /\ n \in Nat
  BY EstateAssumption
<1>2. c \in 1 .. n /\ Members[c] = Current
  BY <1>1, EstateAssumption DEF ToSet
<1> DEFINE at(i) == IF i < c THEN i ELSE i + 1
<1> HIDE DEF c, n
<1>3. /\ Rest \in Seq(ToSet(Members)) /\ DOMAIN Rest = 1 .. (n - 1)
      /\ \A i \in 1 .. (n - 1) : Rest[i] = Members[at(i)]
  BY <1>1, <1>2, RemoveAtIs DEF Rest, c, n
<1>4. \A i \in 1 .. (n - 1) : at(i) \in 1 .. n /\ at(i) # c
  BY <1>1, <1>2
<1>5. \A i, j \in 1 .. (n - 1) : at(i) = at(j) => i = j
  BY <1>1, <1>2
<1>6. \A i \in 1 .. n : i # c => \E j \in 1 .. (n - 1) : at(j) = i
  <2> SUFFICES ASSUME NEW i \in 1 .. n, i # c
               PROVE  \E j \in 1 .. (n - 1) : at(j) = i
    OBVIOUS
  <2>1. CASE i < c
    <3>1. i \in 1 .. (n - 1) /\ at(i) = i
      BY <1>1, <1>2, <2>1
    <3> QED
      BY <3>1
  <2>2. CASE ~(i < c)
    <3>1. i - 1 \in 1 .. (n - 1) /\ at(i - 1) = i
      BY <1>1, <1>2, <2>2
    <3> QED
      BY <3>1
  <2> QED
    BY <2>1, <2>2
<1> HIDE DEF at
<1>7. \A i \in 1 .. n : i # c => Members[i] # Current
  BY <1>1, <1>2 DEF IsInjective
<1>8. ToSet(Members) = {Members[i] : i \in 1 .. n}
  BY <1>1 DEF ToSet
<1>9. \A i \in 1 .. (n - 1) : Rest[i] \in ToSet(Members) \ {Current}
  BY <1>3, <1>4, <1>7, <1>8
<1>10. Rest \in Seq(ToSet(Members) \ {Current})
  BY <1>1, <1>3, <1>9
<1>11. IsInjective(Rest)
  <2> SUFFICES ASSUME NEW i \in 1 .. (n - 1), NEW j \in 1 .. (n - 1), Rest[i] = Rest[j]
               PROVE  i = j
    BY <1>3 DEF IsInjective
  <2>1. at(i) = at(j)
    BY <1>1, <1>3, <1>4 DEF IsInjective
  <2> QED
    BY <1>5, <2>1
<1>12. ToSet(Rest) = {Rest[i] : i \in 1 .. (n - 1)}
  BY <1>3 DEF ToSet
<1>13. ASSUME NEW m \in ToSet(Members) \ {Current}
       PROVE  m \in ToSet(Rest)
  <2>1. PICK i \in 1 .. n : m = Members[i]
    BY <1>8
  <2>2. i # c
    BY <1>2, <2>1
  <2>3. PICK j \in 1 .. (n - 1) : at(j) = i
    BY <1>6, <2>2
  <2> QED
    BY <1>3, <1>12, <2>1, <2>3
<1> QED
  BY <1>9, <1>10, <1>11, <1>12, <1>13

LEMMA WiderSeq ==
  ASSUME NEW S, NEW T, S \subseteq T, NEW q \in Seq(S)
  PROVE  q \in Seq(T)
OBVIOUS

LEMMA OthersAre ==
  ASSUME NEW s
  PROVE  /\ Others(s) \in Seq(Sessions \ {Own}) /\ IsInjective(Others(s))
         /\ ToSet(Members) \ {Current} \subseteq ToSet(Others(s))
<1>1. /\ ToSet(Members) \subseteq Sessions \ {Own}
      /\ Members \in Seq(ToSet(Members)) /\ IsInjective(Members)
  BY EstateAssumption DEF Sessions
<1>2. CASE s.known
  <2>1. Others(s) = Rest
    BY <1>2 DEF Others, Rest
  <2> QED
    BY <1>1, <2>1, RestIs, WiderSeq
<1>3. CASE ~s.known
  <2>1. Others(s) = Members
    BY <1>3 DEF Others
  <2> QED
    BY <1>1, <2>1, WiderSeq
<1> QED
  BY <1>2, <1>3

\* What the current account is asked of is asked with the own session.
LEMMA OwnAsks ==
  ASSUME NEW s, Agenda(s), s.todo # <<>>,
         Head(s.todo)[2] \in {"identity", "organizations", "current-account"}
  PROVE  /\ Head(s.todo) = <<Own, Head(s.todo)[2], Home>>
         /\ s.accounts = <<>> /\ <<Own, "organizations", Home>> \notin s.ok
         /\ \A q \in s.ok : q[1] = Own
         /\ Head(s.todo)[2] # "identity" => Left(s) = {Head(s.todo)} /\ Tail(s.todo) = <<>>
<1> DEFINE r == Head(s.todo)
           u == [s EXCEPT !.todo = Tail(@)]
<1>1. /\ Orderly(Tail(s.todo)) /\ r \in Tasks
      /\ Left(s) = {r} \cup ToSet(Tail(s.todo))
      /\ \A x \in ToSet(Tail(s.todo)) : Before(r, x)
      /\ Ends(Left(s))
  BY TailOrderly DEF Agenda, Left, Orderly
<1>2. r = <<Own, r[2], Home>>
  BY <1>1 DEF Ends
<1>3. /\ s.accounts = <<>> /\ <<Own, "organizations", Home>> \notin s.ok
      /\ \A q \in s.ok : q[1] = Own
  BY <1>1, <1>2 DEF Agenda
<1>4. ASSUME r[2] # "identity", NEW x \in ToSet(Tail(s.todo))
      PROVE  FALSE
  <2>1. x \in Tasks /\ x \in Left(s) /\ Before(r, x)
    BY <1>1, <1>4 DEF Orderly, ToSet
  <2>2. CASE r[2] = "organizations"
    <3>1. Stage(x[2]) > 6 /\ x[2] \in Kinds
      BY <2>1, <2>2 DEF Before, Stage, Tasks
    <3>2. x[2] \in {"regions", "current-account"}
      BY <3>1 DEF Kinds, Stage
    <3>3. x[2] = "current-account"
      BY <1>1, <2>1, <3>2 DEF Ends
    <3>4. Left(s) = {<<Own, "current-account", Home>>} /\ r \in Left(s)
      BY <1>1, <2>1, <3>3 DEF Ends
    <3> QED
      BY <2>2, <3>4
  <2>3. CASE r[2] = "current-account"
    <3>1. Left(s) = {<<Own, "current-account", Home>>} /\ r \in Left(s)
      BY <1>1, <2>3 DEF Ends
    <3> QED
      BY <2>1, <3>1 DEF Before
  <2> QED
    BY <1>4, <2>2, <2>3
<1>5. r[2] # "identity" => ToSet(Tail(s.todo)) = {}
  BY <1>4
<1>6. r[2] # "identity" => Tail(s.todo) = <<>>
  <2>1. Tail(s.todo) \in Seq(Tasks)
    BY <1>1 DEF Orderly
  <2>2. Tail(s.todo) # <<>> => 1 \in DOMAIN Tail(s.todo)
    BY <2>1
  <2> QED
    BY <1>5, <2>2 DEF ToSet
<1> QED
  BY <1>1, <1>2, <1>3, <1>5, <1>6

\* The accounts are listed, or the one that stands for them.
LEMMA ListIdles ==
  ASSUME NEW s, NEW u, Going(s), s.todo # <<>>,
         Head(s.todo)[2] \in {"organizations", "current-account"},
         DOMAIN u = Parts, u.todo = Tail(s.todo),
         u.accounts \in Seq(Sessions \ {Own}), IsInjective(u.accounts),
         u.regions = s.regions, u.failures \in Nat, u.notes = s.notes,
         \/ u.ok = s.ok
         \/ /\ u.ok = With(s.ok, Head(s.todo))
            /\ Head(s.todo)[2] = "organizations" =>
                 ToSet(Members) \ {Current} \subseteq ToSet(u.accounts),
         u.fresh = s.fresh, u.seen = s.seen
  PROVE  Idling(u)
<1> DEFINE r == Head(s.todo)
<1>1. Agenda(s) /\ Hoard(s) /\ Reach(s)
  BY DEF Going, Idling
<1>2. /\ r = <<Own, r[2], Home>> /\ <<Own, "organizations", Home>> \notin s.ok
      /\ \A q \in s.ok : q[1] = Own
      /\ Left(s) = {r} /\ u.todo = <<>>
  BY <1>1, OwnAsks
<1>3. r[2] # "merge" /\ r[2] \notin Sources /\ r[2] # "regions"
  BY DEF Sources
<1>4. Left(u) = {} /\ Orderly(u.todo)
  <2>1. ToSet(<<>>) = {} /\ Orderly(<<>>)
    BY DEF Orderly, InOrder, Ends, ToSet
  <2> QED
    BY <1>2, <2>1 DEF Left
<1>5. Agenda(u)
  <2>1. u.regions = IF <<Own, "regions", Home>> \in u.ok THEN Enabled ELSE <<Home>>
    BY <1>1, <1>2, <1>3 DEF Agenda, With
  <2>2. \A q \in u.ok : q[1] = Own
    BY <1>2 DEF With
  <2>3. \A q \in u.ok : q[1] \notin ToSet(u.accounts)
    BY <2>2 DEF ToSet
  <2> QED
    BY <1>4, <2>1, <2>3 DEF Agenda
<1>6. Hoard(u)
  BY <1>1, <1>3, StepHoard
<1>7. ASSUME NEW m, Covered(s, m)
      PROVE  Covered(u, m)
  BY <1>2, <1>3, <1>7, SoughtEnds DEF Covered, With
<1>8. <<Own, "organizations", Home>> \in u.ok =>
        ToSet(Members) \ {Current} \subseteq ToSet(u.accounts)
  BY <1>2 DEF With
<1>9. Reach(u)
  BY <1>1, <1>7, <1>8 DEF Reach
<1> QED
  BY <1>5, <1>6, <1>9 DEF Idling

\* The accounts cannot be listed, and the current account is asked for.
LEMMA ListFailsGoes ==
  ASSUME NEW s, NEW u, Going(s), s.todo # <<>>, Head(s.todo)[2] = "organizations",
         DOMAIN u = Parts, u.todo = <<<<Own, "current-account", Home>>>>,
         u.accounts = s.accounts, u.regions = s.regions, u.failures \in Nat,
         u.notes = s.notes, u.ok = s.ok, u.fresh = s.fresh, u.seen = s.seen
  PROVE  Going(u)
<1> DEFINE r == Head(s.todo)
           x == <<Own, "current-account", Home>>
<1>1. Agenda(s) /\ Hoard(s) /\ Reach(s)
  BY DEF Going, Idling
<1>2. /\ r = <<Own, "organizations", Home>> /\ <<Own, "organizations", Home>> \notin s.ok
      /\ (\A q \in s.ok : q[1] = Own) /\ s.accounts = <<>>
      /\ Left(s) = {r}
  BY <1>1, OwnAsks
<1>3. x \in Tasks /\ x[1] = Own /\ x[2] = "current-account"
  BY HomeEnabled DEF Tasks, Kinds
<1> HIDE DEF x
<1>4. u.todo \in Seq(Tasks) /\ InOrder(u.todo) /\ Left(u) = {x}
  BY <1>3, OneInOrder DEF Left, x
<1>5. Orderly(u.todo)
  BY <1>3, <1>4 DEF Orderly, Ends, Left, Stage, x
<1>6. ~Merging(u) /\ ~Merging(s)
  BY <1>2, <1>3, <1>4 DEF Merging
<1>7. Agenda(u)
  BY <1>1, <1>2, <1>3, <1>4, <1>5 DEF Agenda
<1>8. Hoard(u)
  BY <1>1, <1>3, <1>4, <1>6 DEF Hoard
<1>9. ASSUME NEW m, Covered(s, m)
      PROVE  Covered(u, m)
  BY <1>2, <1>9, SoughtEnds DEF Covered, Sources
<1>10. Reach(u)
  BY <1>1, <1>2, <1>9 DEF Reach
<1> QED
  BY <1>2, <1>7, <1>8, <1>10 DEF Going, Idling

\* The current account is asked for.
LEMMA IdentifyGoes ==
  ASSUME NEW s, NEW u, Going(s), s.todo # <<>>, Head(s.todo)[2] = "identity",
         DOMAIN u = Parts, u.todo = Tail(s.todo), u.accounts = s.accounts,
         u.regions = s.regions, u.failures \in Nat, u.notes = s.notes,
         u.ok = s.ok \/ u.ok = With(s.ok, Head(s.todo)),
         u.fresh = s.fresh, u.seen = s.seen
  PROVE  Going(u)
<1>1. Agenda(s) /\ Hoard(s) /\ Reach(s)
  BY DEF Going, Idling
<1>2. u.accounts = <<>>
  BY <1>1, OwnAsks
<1>3. Left(s) = {Head(s.todo)} \cup Left(u)
  BY <1>1, HeadDone
<1>4. Agenda(u)
  BY <1>1, StepAgenda
<1>5. Hoard(u)
  BY <1>1, StepHoard DEF Sources
<1>6. Head(s.todo) # <<Own, "organizations", Home>>
  OBVIOUS
<1>7. Reach(u)
  BY <1>1, <1>3, <1>6, StepReach DEF Sources, With
<1> QED
  BY <1>2, <1>4, <1>5, <1>7 DEF Going, Idling

-----------------------------------------------------------------------------
LEMMA NoneIsNoScan == DOMAIN None # Parts
BY DEF Parts, NewScan, None

LEMMA Begun ==
  ASSUME NEW t \in Callers, EstateInv
  PROVE  /\ scan[t] # None => DOMAIN scan[t] = Parts
         /\ Doing(t, "regions") => scan[t] = NewScan
         /\ \A kind : Doing(t, kind) /\ kind # "regions" => Going(scan[t])
<1>1. scan[t] # None => scan[t] = NewScan \/ Going(scan[t])
  BY DEF EstateInv, Running
<1>2. DOMAIN NewScan = Parts /\ Head(NewScan.todo)[2] = "regions"
  BY DEF Parts, NewScan
<1>3. ASSUME Going(scan[t]), scan[t].todo # <<>>
      PROVE  Request(t)[2] # "regions"
  BY <1>3, HeadDone DEF Going, Idling, Agenda, Request, Orderly, Ends, Left, ToSet
<1> QED
  BY <1>1, <1>2, <1>3 DEF Doing, Request, Going, Idling, Agenda

\* What every step from the head of the agenda does.
Step(s, u) == DOMAIN u = Parts /\ u.todo = Tail(s.todo) /\ u.regions = s.regions

LEMMA FailsIn ==
  ASSUME NEW s, Going(s)
  PROVE  s.failures + 1 \in Nat
BY DEF Going, Idling, Agenda

\* The answer of a source is recorded.
Recorded(s, u) ==
  /\ Step(s, u) /\ u.accounts = s.accounts /\ u.failures = s.failures
  /\ s.notes \subseteq u.notes /\ u.seen = s.seen /\ u.ok = With(s.ok, Head(s.todo))
  /\ DOMAIN u.fresh = DOMAIN s.fresh \cup Read(Head(s.todo))
  /\ \A k \in DOMAIN u.fresh :
       u.fresh[k] = IF /\ k \in Read(Head(s.todo))
                       /\ Head(s.todo)[2] = "tagging" => k \notin DOMAIN s.fresh
                      THEN <<Head(s.todo)[1], Head(s.todo)[2]>> ELSE s.fresh[k]

LEMMA RecordedGoes ==
  ASSUME NEW s, NEW u, Going(s), s.todo # <<>>, Head(s.todo)[2] \in Sources, Recorded(s, u)
  PROVE  Going(u)
BY AnswerGoes DEF Recorded, Step

LEMMA NotesAndUses ==
  ASSUME NEW s, NEW u, Recorded(s, u)
  PROVE  \A r : Recorded(s, NotedIn(u, r)) /\ Recorded(s, Used(u, r))
<1> SUFFICES ASSUME NEW r
             PROVE  Recorded(s, NotedIn(u, r)) /\ Recorded(s, Used(u, r))
  OBVIOUS
<1>1. DOMAIN u = Fields
  BY FieldsAre DEF Recorded, Step
<1>2. /\ DOMAIN NotedIn(u, r) = Fields /\ u.notes \subseteq NotedIn(u, r).notes
      /\ \A f \in Fields \ {"notes"} : NotedIn(u, r)[f] = u[f]
  BY <1>1 DEF NotedIn, Fields
<1>3. /\ DOMAIN Used(u, r) = Fields
      /\ \A f \in Fields \ {"used"} : Used(u, r)[f] = u[f]
  BY <1>1 DEF Used, Fields
<1>4. Recorded(s, NotedIn(u, r))
  BY <1>2, FieldsAre DEF Recorded, Step, Fields
<1>5. Recorded(s, Used(u, r))
  BY <1>3, FieldsAre DEF Recorded, Step, Fields
<1> QED
  BY <1>4, <1>5

LEMMA OverwriteRecords ==
  ASSUME NEW s, DOMAIN s = Parts, Head(s.todo)[2] \in {"config", "resource-explorer"}
  PROVE  LET r == Head(s.todo)
             u == Overwrite(s, r)
         IN Recorded(s, u) /\ Recorded(s, NotedIn(u, r)) /\ Recorded(s, Used(u, r))
<1> DEFINE r == Head(s.todo)
           u == Overwrite(s, r)
<1>1. Step(s, u) /\ u.accounts = s.accounts /\ u.failures = s.failures
      /\ u.notes = s.notes /\ u.seen = s.seen /\ u.ok = With(s.ok, r)
      /\ u.fresh = Updated(s.fresh, Records(r))
  BY FieldsAre DEF Overwrite, Answered, Step, Fields, With
<1>2. /\ DOMAIN Updated(s.fresh, Records(r)) = DOMAIN s.fresh \cup Read(r)
      /\ \A k \in DOMAIN s.fresh \cup Read(r) : Updated(s.fresh, Records(r))[k] =
           IF k \in Read(r) THEN <<r[1], r[2]>> ELSE s.fresh[k]
  BY DEF Updated, Records
<1>3. Recorded(s, u)
  <2> HIDE DEF u
  <2> QED
    BY <1>1, <1>2 DEF Recorded
<1> QED
  BY <1>3, NotesAndUses

LEMMA SetDefaultRecords ==
  ASSUME NEW s, DOMAIN s = Parts, Head(s.todo)[2] = "tagging"
  PROVE  LET r == Head(s.todo)
         IN Recorded(s, Used(SetDefault(s, r), r))
<1> DEFINE r == Head(s.todo)
           u == SetDefault(s, r)
<1>1. Step(s, u) /\ u.accounts = s.accounts /\ u.failures = s.failures
      /\ u.notes = s.notes /\ u.seen = s.seen /\ u.ok = With(s.ok, r)
      /\ u.fresh = Updated(Records(r), s.fresh)
  BY FieldsAre DEF SetDefault, Answered, Step, Fields, With
<1>2. /\ DOMAIN Updated(Records(r), s.fresh) = DOMAIN s.fresh \cup Read(r)
      /\ \A k \in DOMAIN s.fresh \cup Read(r) : Updated(Records(r), s.fresh)[k] =
           IF k \notin DOMAIN s.fresh THEN <<r[1], r[2]>> ELSE s.fresh[k]
  BY DEF Updated, Records
<1>3. Recorded(s, u)
  <2> HIDE DEF u
  <2> QED
    BY <1>1, <1>2 DEF Recorded
<1> QED
  BY <1>3, NotesAndUses

\* A scan goes on as a scan.
LEMMA WorkGoes ==
  ASSUME NEW t \in Callers, EstateInv, Work(t), ~Store(t)
  PROVE  scan[t] # None /\ \E u : Going(u) /\ Update(t, u)
<1> DEFINE s == scan[t]
           r == Head(s.todo)
<1>0. Request(t) = r
  BY DEF Request
<1>1. CASE ListRegions(t)
  <2>1. s = NewScan
    BY <1>1, Begun DEF ListRegions
  <2> DEFINE u == [Answered(s) EXCEPT !.todo = Plan(Own, Enabled) \o AfterRegions]
             v == [Failed(s) EXCEPT !.regions = <<Home>>,
                     !.todo = Plan(Own, <<Home>>) \o AfterRegions]
  <2>2. s # None
    BY <1>1 DEF ListRegions, Doing
  <2>3. /\ DOMAIN u = Parts /\ u.todo = Plan(Own, Enabled) \o AfterRegions
        /\ u.accounts = <<>> /\ u.regions = Enabled /\ u.fresh = <<>> /\ u.seen = <<>>
        /\ u.failures = 0
        /\ (\A q \in u.ok : q = <<Own, "regions", Home>>)
        /\ <<Own, "regions", Home>> \in u.ok
    BY <2>1, FieldsAre DEF Answered, NewScan, Parts
  <2>4. /\ DOMAIN v = Parts /\ v.todo = Plan(Own, <<Home>>) \o AfterRegions
        /\ v.accounts = <<>> /\ v.regions = <<Home>> /\ v.fresh = <<>> /\ v.seen = <<>>
        /\ v.failures = 1
        /\ (\A q \in v.ok : q = <<Own, "regions", Home>>)
        /\ <<Own, "regions", Home>> \notin v.ok
    BY <2>1, FieldsAre DEF Failed, NewScan, Parts
  <2>5. Update(t, u) \/ Update(t, v)
    BY <1>1, <2>1 DEF ListRegions
  <2> HIDE DEF u, v
  <2>6. Going(u)
    <3>1. u.failures \in Nat
      BY <2>2, <2>3
    <3> QED
      BY <2>3, <3>1, BeginGoes
  <2>7. Going(v)
    <3>1. v.failures \in Nat
      BY <2>4
    <3> QED
      BY <2>4, <3>1, BeginGoes
  <2> QED
    BY <2>2, <2>5, <2>6, <2>7
<1>2. CASE AskConfig(t)
  <2>1. s # None /\ Going(s) /\ s.todo # <<>> /\ r[2] = "config" /\ DOMAIN s = Parts
    BY <1>0, <1>2, Begun DEF AskConfig, Doing
  <2>2. Update(t, Overwrite(s, r)) \/ Update(t, NotedIn(Overwrite(s, r), r))
          \/ Update(t, Used(Overwrite(s, r), r))
    BY <1>0, <1>2 DEF AskConfig, Update
  <2>3. \A u : Recorded(s, u) => Going(u)
    BY <2>1, RecordedGoes DEF Sources
  <2> QED
    BY <2>1, <2>2, <2>3, OverwriteRecords
<1>3. CASE AskResourceExplorer(t)
  <2>1. s # None /\ Going(s) /\ s.todo # <<>> /\ r[2] = "resource-explorer" /\ DOMAIN s = Parts
    BY <1>0, <1>3, Begun DEF AskResourceExplorer, Doing
  <2>2. Update(t, Overwrite(s, r)) \/ Update(t, Used(Overwrite(s, r), r))
    BY <1>0, <1>3 DEF AskResourceExplorer, Update
  <2>3. \A u : Recorded(s, u) => Going(u)
    BY <2>1, RecordedGoes DEF Sources
  <2> QED
    BY <2>1, <2>2, <2>3, OverwriteRecords
<1>4. CASE AskTagging(t)
  <2>1. s # None /\ Going(s) /\ s.todo # <<>> /\ r[2] = "tagging" /\ DOMAIN s = Parts
    BY <1>0, <1>4, Begun DEF AskTagging, Doing
  <2>2. Update(t, Used(SetDefault(s, r), r))
    BY <1>0, <1>4 DEF AskTagging
  <2>3. \A u : Recorded(s, u) => Going(u)
    BY <2>1, RecordedGoes DEF Sources
  <2> QED
    BY <2>1, <2>2, <2>3, SetDefaultRecords
<1>5. CASE SourceFails(t)
  <2>1. s # None /\ Going(s) /\ s.todo # <<>> /\ r[2] \in Sources /\ DOMAIN s = Parts
    BY <1>0, <1>5, Begun DEF SourceFails, Doing, Sources
  <2> DEFINE u == NotedIn(Failed(s), r)
  <2>2. Update(t, u)
    BY <1>0, <1>5 DEF SourceFails
  <2>3. Step(s, u) /\ u.accounts = s.accounts /\ u.fresh = s.fresh /\ u.seen = s.seen
        /\ u.notes = With(s.notes, r) /\ u.ok = s.ok
    BY <2>1, FieldsAre DEF NotedIn, Failed, Step, With, Fields
  <2>4. u.failures \in Nat
    BY <2>1, <2>2, FailsIn, FieldsAre DEF NotedIn, Failed, Fields
  <2> HIDE DEF u
  <2>5. Going(u)
    BY <2>1, <2>3, <2>4, FailGoes DEF Step
  <2> QED
    BY <2>1, <2>2, <2>5
<1>6. CASE Merge(t)
  <2>1. s # None /\ Going(s) /\ s.todo # <<>> /\ r[2] = "merge" /\ DOMAIN s = Parts
    BY <1>0, <1>6, Begun DEF Merge, Doing
  <2> DEFINE u == Merged(s)
             v == [u EXCEPT !.used = @ \cup {r[1]}]
  <2>2. Update(t, Onward(u)) \/ Update(t, Onward(v))
    BY <1>0, <1>6 DEF Merge, Update
  <2>3. Step(s, u) /\ u.accounts = s.accounts /\ u.fresh = <<>> /\ u.seen = Updated(s.seen, s.fresh)
        /\ u.notes = s.notes /\ u.ok = s.ok /\ u.failures = s.failures
    BY <2>1, FieldsAre DEF Merged, Step, Fields
  <2>4. Step(s, v) /\ v.accounts = s.accounts /\ v.fresh = <<>> /\ v.seen = Updated(s.seen, s.fresh)
        /\ v.notes = s.notes /\ v.ok = s.ok /\ v.failures = s.failures
    BY <2>3, FieldsAre DEF Step, Fields
  <2> HIDE DEF u, v
  <2>5. Going(Onward(u))
    BY <2>1, <2>3, MergeIdles, OnwardGoes DEF Step
  <2>6. Going(Onward(v))
    BY <2>1, <2>4, MergeIdles, OnwardGoes DEF Step
  <2> QED
    BY <2>1, <2>2, <2>5, <2>6
<1>7. CASE ListAccounts(t)
  <2>1. s # None /\ Going(s) /\ s.todo # <<>> /\ r[2] = "organizations" /\ DOMAIN s = Parts
    BY <1>0, <1>7, Begun DEF ListAccounts, Doing
  <2> DEFINE u == [Answered(s) EXCEPT !.accounts = Others(s)]
             v == [Failed(s) EXCEPT !.todo = <<<<Own, "current-account", Home>>>>]
  <2>2. Update(t, Onward(u)) \/ Update(t, v)
    BY <1>7 DEF ListAccounts
  <2>3. Step(s, u) /\ u.accounts = Others(s) /\ u.fresh = s.fresh /\ u.seen = s.seen
        /\ u.notes = s.notes /\ u.ok = With(s.ok, r) /\ u.failures = s.failures
    BY <2>1, FieldsAre DEF Answered, Step, Fields, With
  <2>4. DOMAIN v = Parts /\ v.todo = <<<<Own, "current-account", Home>>>>
        /\ v.accounts = s.accounts /\ v.fresh = s.fresh /\ v.seen = s.seen
        /\ v.regions = s.regions /\ v.notes = s.notes /\ v.ok = s.ok
    BY <2>1, FieldsAre DEF Failed, Fields
  <2>5. v.failures \in Nat /\ u.failures \in Nat
    BY <2>1, <2>3, FailsIn, FieldsAre DEF Failed, Fields, Going, Idling, Agenda
  <2> HIDE DEF u, v
  <2>6. Going(Onward(u))
    BY <2>1, <2>3, <2>5, OthersAre, ListIdles, OnwardGoes DEF Step
  <2>7. Going(v)
    BY <2>1, <2>4, <2>5, ListFailsGoes
  <2> QED
    BY <2>1, <2>2, <2>6, <2>7
<1>10. CASE ListCurrentAccount(t)
  <2>1. s # None /\ Going(s) /\ s.todo # <<>> /\ r[2] = "current-account" /\ DOMAIN s = Parts
    BY <1>0, <1>10, Begun DEF ListCurrentAccount, Doing
  <2> DEFINE alone == IF s.known THEN <<>> ELSE <<Current>>
             u == [Answered(s) EXCEPT !.accounts = alone]
             v == [Failed(s) EXCEPT !.accounts = <<Unknown>>]
  <2>2. Update(t, Onward(u)) \/ Update(t, Onward(v))
    BY <1>10 DEF ListCurrentAccount
  <2>3. Step(s, u) /\ u.accounts = alone /\ u.fresh = s.fresh /\ u.seen = s.seen
        /\ u.notes = s.notes /\ u.ok = With(s.ok, r) /\ u.failures = s.failures
    BY <2>1, FieldsAre DEF Answered, Step, Fields, With
  <2>4. Step(s, v) /\ v.accounts = <<Unknown>> /\ v.fresh = s.fresh /\ v.seen = s.seen
        /\ v.notes = s.notes /\ v.ok = s.ok
    BY <2>1, FieldsAre DEF Failed, Step, Fields
  <2>5. v.failures \in Nat /\ u.failures \in Nat
    BY <2>1, <2>3, FailsIn, FieldsAre DEF Failed, Fields, Going, Idling, Agenda
  <2>6. \A w \in {<<>>, <<Current>>, <<Unknown>>} :
          w \in Seq(Sessions \ {Own}) /\ IsInjective(w)
    <3>1. Current \in Sessions \ {Own} /\ Unknown \in Sessions \ {Own}
      BY EstateAssumption DEF Sessions
    <3>2. \A a \in Sessions \ {Own} : <<a>> \in Seq(Sessions \ {Own}) /\ IsInjective(<<a>>)
      BY DEF IsInjective
    <3>3. <<>> \in Seq(Sessions \ {Own}) /\ IsInjective(<<>>)
      BY DEF IsInjective
    <3> QED
      BY <3>1, <3>2, <3>3
  <2>7. alone \in {<<>>, <<Current>>}
    OBVIOUS
  <2> HIDE DEF u, v, alone
  <2>8. Going(Onward(u))
    BY <2>1, <2>3, <2>5, <2>6, <2>7, ListIdles, OnwardGoes DEF Step
  <2>9. Going(Onward(v))
    BY <2>1, <2>4, <2>5, <2>6, ListIdles, OnwardGoes DEF Step
  <2> QED
    BY <2>1, <2>2, <2>8, <2>9
<1>11. CASE Identify(t)
  <2>1. s # None /\ Going(s) /\ s.todo # <<>> /\ r[2] = "identity" /\ DOMAIN s = Parts
    BY <1>0, <1>11, Begun DEF Identify, Doing
  <2> DEFINE u == [Answered(s) EXCEPT !.known = TRUE]
             v == Failed(s)
  <2>2. Update(t, u) \/ Update(t, v)
    BY <1>11 DEF Identify
  <2>3. Step(s, u) /\ u.accounts = s.accounts /\ u.fresh = s.fresh /\ u.seen = s.seen
        /\ u.notes = s.notes /\ u.ok = With(s.ok, r) /\ u.failures = s.failures
    BY <2>1, FieldsAre DEF Answered, Step, Fields, With
  <2>4. Step(s, v) /\ v.accounts = s.accounts /\ v.fresh = s.fresh /\ v.seen = s.seen
        /\ v.notes = s.notes /\ v.ok = s.ok
    BY <2>1, FieldsAre DEF Failed, Step, Fields
  <2>5. v.failures \in Nat /\ u.failures \in Nat
    BY <2>1, <2>3, FailsIn, FieldsAre DEF Failed, Fields, Going, Idling, Agenda
  <2> HIDE DEF u, v
  <2>6. Going(u)
    BY <2>1, <2>3, <2>5, IdentifyGoes DEF Step
  <2>7. Going(v)
    BY <2>1, <2>4, <2>5, IdentifyGoes DEF Step
  <2> QED
    BY <2>1, <2>2, <2>6, <2>7
<1>12. CASE AssumeUnknown(t)
  <2>1. s # None /\ Going(s) /\ s.todo # <<>> /\ r[2] = "assume" /\ DOMAIN s = Parts
    BY <1>0, <1>12, Begun DEF AssumeUnknown, Doing
  <2> DEFINE u == [NotedIn(s, r) EXCEPT !.todo = <<>>]
  <2>2. Update(t, Onward(u))
    BY <1>0, <1>12 DEF AssumeUnknown
  <2>3. /\ DOMAIN u = Parts /\ u.todo = <<>> /\ u.accounts = s.accounts /\ u.regions = s.regions
        /\ u.fresh = s.fresh /\ u.seen = s.seen
        /\ u.notes = With(s.notes, r) /\ u.ok = s.ok /\ u.failures = s.failures
    BY <2>1, FieldsAre DEF NotedIn, With, Fields
  <2>4. u.failures \in Nat
    BY <2>1, <2>3 DEF Going, Idling, Agenda
  <2> HIDE DEF u
  <2>5. Going(Onward(u))
    BY <2>1, <2>3, <2>4, AssumeFailsIdles, OnwardGoes
  <2> QED
    BY <2>1, <2>2, <2>5
<1>8. CASE Assume(t)
  <2>1. s # None /\ Going(s) /\ s.todo # <<>> /\ r[2] = "assume" /\ DOMAIN s = Parts
    BY <1>0, <1>8, Begun DEF Assume, Doing
  <2> DEFINE u == Answered(s)
  <2>2. Update(t, u)
    BY <1>8 DEF Assume
  <2>3. Step(s, u) /\ u.accounts = s.accounts /\ u.fresh = s.fresh /\ u.seen = s.seen
        /\ u.notes = s.notes /\ u.ok = With(s.ok, r) /\ u.failures = s.failures
    BY <2>1, FieldsAre DEF Answered, Step, Fields, With
  <2> HIDE DEF u
  <2>4. Going(u)
    BY <2>1, <2>3, AssumeGoes DEF Step
  <2> QED
    BY <2>1, <2>2, <2>4
<1>9. CASE AssumeFails(t)
  <2>1. s # None /\ Going(s) /\ s.todo # <<>> /\ r[2] = "assume" /\ DOMAIN s = Parts
    BY <1>0, <1>9, Begun DEF AssumeFails, Doing
  <2> DEFINE u == [NotedIn(Failed(s), r) EXCEPT !.todo = <<>>]
  <2>2. Update(t, Onward(u))
    BY <1>0, <1>9 DEF AssumeFails
  <2>3. /\ DOMAIN u = Parts /\ u.todo = <<>> /\ u.accounts = s.accounts /\ u.regions = s.regions
        /\ u.fresh = s.fresh /\ u.seen = s.seen
        /\ u.notes = With(s.notes, r) /\ u.ok = s.ok
    BY <2>1, FieldsAre DEF NotedIn, Failed, With, Fields
  <2>4. u.failures \in Nat
    BY <2>1, <2>2, FailsIn, FieldsAre DEF NotedIn, Failed, Fields
  <2> HIDE DEF u
  <2>5. Going(Onward(u))
    BY <2>1, <2>3, <2>4, AssumeFailsIdles, OnwardGoes
  <2> QED
    BY <2>1, <2>2, <2>5
<1> QED
  BY <1>1, <1>2, <1>3, <1>4, <1>5, <1>6, <1>7, <1>8, <1>9, <1>10, <1>11, <1>12 DEF Work

LEMMA EstateInit == Init => EstateInv
<1> SUFFICES ASSUME Init
             PROVE  EstateInv
  OBVIOUS
<1>1. Running = {}
  BY DEF Init, Running
<1>2. Cardinality(Running) = 0 /\ Cardinality(Callers) \in Nat
  BY <1>1, FS_EmptySet, FS_CardinalityType, EstateAssumption
<1> QED
  BY <1>1, <1>2 DEF Init, EstateInv, OneScan

LEMMA EstateStep == EstateInv /\ [Next]_vars => EstateInv'
<1> SUFFICES ASSUME EstateInv, [Next]_vars
             PROVE  EstateInv'
  OBVIOUS
<1>0. /\ IsFiniteSet(Callers) /\ Cardinality(Callers) \in Nat
      /\ Running \subseteq Callers /\ IsFiniteSet(Running) /\ Cardinality(Running) \in Nat
  BY EstateAssumption, FS_Subset, FS_CardinalityType DEF Running
<1>1. ASSUME NEW t \in Callers, Ask(t)
      PROVE  EstateInv'
  <2>1. /\ scan[t] = None /\ index = None
        /\ scan' = [scan EXCEPT ![t] = NewScan]
        /\ overlap' = (overlap \/ \E u \in Callers : scan[u] # None)
        /\ UNCHANGED <<index, stores>>
    BY <1>1 DEF Ask
  <2>2. /\ scan' = [u \in Callers |-> scan'[u]]
        /\ scan'[t] = NewScan /\ \A u \in Callers : u # t => scan'[u] = scan[u]
    BY <2>1 DEF EstateInv
  <2>3. \A u \in Running' : scan'[u] = NewScan \/ Going(scan'[u])
    BY <2>2 DEF EstateInv, Running
  <2>4. ~overlap' => OneScan'
    BY <2>1, <2>2 DEF EstateInv, OneScan
  <2>5. stores' = 0
    BY <2>1 DEF EstateInv
  <2>6. Running' \subseteq Callers
    BY DEF Running
  <2>7. Cardinality(Running') \in Nat /\ Cardinality(Running') <= Cardinality(Callers)
    BY <1>0, <2>6, FS_Subset, FS_CardinalityType
  <2> QED
    BY <1>0, <2>1, <2>2, <2>3, <2>4, <2>5, <2>7 DEF EstateInv
<1>2. ASSUME NEW t \in Callers, Store(t)
      PROVE  EstateInv'
  <2>1. /\ scan[t] # None /\ scan[t].todo = <<>>
        /\ index' \in {NotedIn(scan[t], Nothing), scan[t]}
        /\ scan' = [scan EXCEPT ![t] = None]
        /\ stores' = stores + 1 /\ overlap' = overlap
    BY <1>2 DEF Store
  <2>2. /\ scan' = [u \in Callers |-> scan'[u]]
        /\ scan'[t] = None /\ \A u \in Callers : u # t => scan'[u] = scan[u]
    BY <2>1 DEF EstateInv
  <2>3. Going(scan[t]) /\ DOMAIN scan[t] = Fields
    <3>1. scan[t] # NewScan
      <4>1. NewScan.todo # <<>>
        BY DEF NewScan
      <4> QED
        BY <2>1, <4>1
    <3> QED
      BY <2>1, <3>1, Begun, FieldsAre DEF EstateInv, Running
  <2>4. /\ DOMAIN index' = Fields /\ scan[t].notes \subseteq index'.notes
        /\ \A f \in Fields \ {"notes"} : index'[f] = scan[t][f]
    BY <2>1, <2>3 DEF NotedIn, Fields
  <2>5. index' # None
    BY <2>4, FieldsAre, NoneIsNoScan
  <2>6. /\ index'.todo = <<>> /\ index'.accounts = <<>> /\ index'.fresh = <<>>
        /\ Hoard(index') /\ Reach(index')
        /\ index'.regions = IF <<Own, "regions", Home>> \in index'.ok THEN Enabled ELSE <<Home>>
    <3>1. scan[t].accounts = <<>> /\ Agenda(scan[t]) /\ Hoard(scan[t]) /\ Reach(scan[t])
      BY <2>1, <2>3 DEF Going, Idling
    <3>2. Left(scan[t]) = {} /\ ~Merging(scan[t])
      BY <2>1 DEF Left, Merging, ToSet
    <3>3. /\ index'.todo = scan[t].todo /\ index'.accounts = scan[t].accounts
          /\ index'.fresh = scan[t].fresh /\ index'.seen = scan[t].seen
          /\ index'.ok = scan[t].ok /\ index'.regions = scan[t].regions
      BY <2>4 DEF Fields
    <3>4. Left(index') = Left(scan[t]) /\ (Merging(index') <=> Merging(scan[t]))
      BY <3>3 DEF Left, Merging
    <3>5. Hoard(index')
      BY <3>1, <3>3, <3>4 DEF Hoard
    <3>6. Reach(index')
      BY <2>4, <3>1, <3>3, <3>4 DEF Reach, Covered
    <3>7. scan[t].fresh = <<>>
      BY <3>1, <3>2 DEF Hoard
    <3> QED
      BY <2>1, <3>1, <3>3, <3>5, <3>6, <3>7 DEF Agenda
  <2>7. \A u \in Running' : scan'[u] = NewScan \/ Going(scan'[u])
    BY <2>2 DEF EstateInv, Running
  <2>8. ~overlap' => OneScan'
    BY <2>1, <2>2, <2>5 DEF EstateInv, OneScan
  <2>9. Running' = Running \ {t} /\ t \in Running
    BY <2>1, <2>2 DEF Running
  <2>10. Cardinality(Running') = Cardinality(Running) - 1
    BY <1>0, <2>9, FS_RemoveElement
  <2>11. stores \in Nat /\ stores + Cardinality(Running) <= Cardinality(Callers)
    BY DEF EstateInv
  <2>12. stores' \in Nat /\ stores' + Cardinality(Running') <= Cardinality(Callers)
    BY <1>0, <2>1, <2>10, <2>11
  <2> QED
    BY <2>2, <2>5, <2>6, <2>7, <2>8, <2>12 DEF EstateInv
<1>3. ASSUME NEW t \in Callers, Work(t), ~Store(t)
      PROVE  EstateInv'
  <2>1. scan[t] # None
    BY <1>3, WorkGoes
  <2>2. PICK s : Going(s) /\ Update(t, s)
    BY <1>3, WorkGoes
  <2>3. /\ scan' = [u \in Callers |-> scan'[u]]
        /\ scan'[t] = s /\ \A u \in Callers : u # t => scan'[u] = scan[u]
        /\ UNCHANGED <<index, stores, overlap>>
    BY <2>2 DEF Update, EstateInv
  <2>4. s # None
    BY <2>2, NoneIsNoScan DEF Going, Idling, Agenda
  <2>5. Running' = Running
    BY <2>1, <2>3, <2>4 DEF Running
  <2>6. \A u \in Running' : scan'[u] = NewScan \/ Going(scan'[u])
    BY <2>2, <2>3, <2>5 DEF EstateInv, Running
  <2>7. ~overlap' => OneScan'
    BY <2>1, <2>3, <2>4 DEF EstateInv, OneScan
  <2> QED
    BY <2>3, <2>5, <2>6, <2>7 DEF EstateInv
<1>4. CASE UNCHANGED vars
  BY <1>4 DEF vars, EstateInv, OneScan, Running
<1> QED
  BY <1>1, <1>2, <1>3, <1>4 DEF Next

\* Questions that do not come while a scan is running share one scan, whatever
\* fails in it and however many accounts it visits.
THEOREM EstateIsScannedOnce == Spec => []SerialScansOnce
<1>1. EstateInv => SerialScansOnce
  BY DEF EstateInv, OneScan, SerialScansOnce
<1> QED
  BY <1>1, EstateInit, EstateStep, PTL DEF Spec

\* The type invariant: the records in hand are of the session whose turn it is,
\* and no more estates are stored than questions were asked.
THEOREM EstateIsTyped == Spec => []TypeOK
<1>1. ASSUME EstateInv
      PROVE  TypeOK
  <2>1. index # None => index.todo = <<>> /\ index.fresh = <<>>
    BY <1>1 DEF EstateInv
  <2>2. ASSUME NEW t \in Callers, scan[t] # None
        PROVE  /\ scan[t].failures \in Nat
               /\ \A k \in DOMAIN scan[t].fresh : scan[t].fresh[k][1] = Request(t)[1]
    <3>1. CASE scan[t] = NewScan
      BY <3>1 DEF NewScan
    <3>2. CASE Going(scan[t])
      <4>1. Agenda(scan[t]) /\ Hoard(scan[t])
        BY <3>2 DEF Going, Idling
      <4>2. scan[t].failures \in Nat
        BY <4>1 DEF Agenda
      <4>3. ASSUME NEW k \in DOMAIN scan[t].fresh
            PROVE  scan[t].fresh[k][1] = Request(t)[1]
        <5>1. scan[t].todo # <<>>
          <6>1. Merging(scan[t])
            BY <4>1, <4>3 DEF Hoard
          <6> QED
            BY <6>1 DEF Merging, Left, ToSet
        <5>2. Head(scan[t].todo) \in Left(scan[t])
          BY <4>1, <5>1, TailOrderly DEF Agenda, Left
        <5> QED
          BY <4>1, <5>2 DEF Hoard, Request
      <4> QED
        BY <4>2, <4>3
    <3> QED
      BY <1>1, <2>2, <3>1, <3>2 DEF EstateInv, Running
  <2>3. stores \in 0 .. Cardinality(Callers)
    <3>1. Cardinality(Running) \in Nat /\ Cardinality(Callers) \in Nat
      BY EstateAssumption, FS_Subset, FS_CardinalityType DEF Running
    <3> QED
      BY <1>1, <3>1 DEF EstateInv
  <2> QED
    BY <2>1, <2>2, <2>3 DEF TypeOK
<1> QED
  BY <1>1, EstateInit, EstateStep, PTL DEF Spec

\* The estate has every resource that was read of an answered request, whatever
\* else failed, and no other; and of the own session and of every account that
\* was listed, what was not answered is noted.
THEOREM EstateTellsAndAdmits == Spec => []EstateIsAccounted
<1>1. ASSUME EstateInv, index # None
      PROVE  DOMAIN index.seen = UNION {Read(r) : r \in {q \in index.ok : q[2] \in Sources}}
  <2>1. index.fresh = <<>> /\ Hoard(index)
    BY <1>1 DEF EstateInv
  <2> QED
    BY <2>1 DEF Hoard, Told
<1>2. ASSUME EstateInv, index # None
      PROVE  GapsAreNoted
  <2>1. /\ index.todo = <<>> /\ index.accounts = <<>> /\ Reach(index)
        /\ index.regions = IF <<Own, "regions", Home>> \in index.ok THEN Enabled ELSE <<Home>>
    BY <1>2 DEF EstateInv
  <2>2. Left(index) = {} /\ ToSet(index.accounts) = {}
    BY <2>1 DEF Left, ToSet
  <2>3. Regions(index.ok) = ToSet(index.regions)
    BY <2>1 DEF Regions, ToSet
  <2>4. ASSUME NEW a, Covered(index, a)
        PROVE  \/ <<a, "assume", Home>> \in index.notes
               \/ \A r \in Regions(index.ok) :
                    {<<a, "config", Home>>, <<a, "resource-explorer", r>>, <<a, "tagging", r>>}
                      \subseteq index.ok \cup index.notes
    <3>1. ASSUME NEW r \in Regions(index.ok)
          PROVE  {<<a, "config", Home>>, <<a, "resource-explorer", r>>, <<a, "tagging", r>>}
                   \subseteq Sought(a, index.regions)
      BY <2>3, <3>1 DEF Sought
    <3> QED
      BY <2>2, <2>4, <3>1 DEF Covered
  <2>5. /\ Covered(index, Own)
        /\ <<Own, "organizations", Home>> \in index.ok =>
             \A m \in ToSet(Members) \ {Current} : Covered(index, m)
    BY <2>1, <2>2 DEF Reach
  <2> QED
    BY <2>4, <2>5 DEF GapsAreNoted
<1>3. EstateInv => EstateIsAccounted
  BY <1>1, <1>2 DEF EstateIsAccounted, EstateIsWhole, GapsAreNoted
<1> QED
  BY <1>3, EstateInit, EstateStep, PTL DEF Spec

\* A resource stands in the estate as a source says that found it, as the tags
\* say only if no other source of that session did, and as a member's if a
\* member found it.
THEOREM EstateRecordsStand == Spec => []RecordsStand
<1>1. ASSUME EstateInv, index # None, NEW k \in DOMAIN index.seen
      PROVE  LET session == index.seen[k][1]
                 source  == index.seen[k][2]
                 same    == {r[2] : r \in {q \in Finds(index.ok, k) : q[1] = session}}
                 members == {r[1] : r \in Finds(index.ok, k)} \ {Own}
             IN /\ source \in same
                /\ source = "tagging" => same = {"tagging"}
                /\ session = Own      => members = {}
  <2>1. index.fresh = <<>> /\ Hoard(index)
    BY <1>1 DEF EstateInv
  <2>2. Best(index.ok, k, index.seen[k])
    BY <2>1 DEF Hoard
  <2>3. ASSUME NEW q \in Finds(index.ok, k), q[1] # Own
        PROVE  index.seen[k][1] # Own
    BY <2>1, <2>3 DEF Hoard, Finds
  <2> QED
    BY <2>2, <2>3 DEF Best, Same
<1>2. EstateInv => RecordsStand
  BY <1>1 DEF RecordsStand
<1> QED
  BY <1>2, EstateInit, EstateStep, PTL DEF Spec

=============================================================================
