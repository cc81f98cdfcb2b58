---------------------------- MODULE DigestProofs ----------------------------
(***************************************************************************)
(* The invariants of Digest, for every world AWS may answer with.          *)
(*                                                                         *)
(* Two inductive invariants carry them: DayInv, about the day, the tasks   *)
(* and the deliveries, and OwnInv, about what was collected of the tasks.  *)
(* The report follows from a world; what it says is proved of the engines' *)
(* operators by induction over their data.  The library's induction takes  *)
(* an operator as a parameter; here it is done over sets, from the least   *)
(* element of a set of numbers and the smallest set that is not in Q.      *)
(***************************************************************************)
EXTENDS Digest, TLAPS, FiniteSetTheorems, WellFoundedInduction

-----------------------------------------------------------------------------
(* Induction, over sets of natural numbers and of finite sets              *)

Less == {p \in Nat \X Nat : p[1] < p[2]}

\* The natural numbers are well founded.
LEMMA LessWF == IsWellFoundedOn(Less, Nat)
BY NatLessThanWellFounded DEF OpToRel, Less

\* A set of natural numbers has a least one.
LEMMA NatMin ==
  ASSUME NEW T \in SUBSET Nat, T # {}
  PROVE  \E n \in T : \A m \in T : n <= m
<1>1. PICK x \in T : \A y \in T : <<y, x>> \notin Less
  BY LessWF, WFMin, Zenon
<1>2. ASSUME NEW y \in T PROVE x <= y
  <2>1. <<y, x>> \notin Less
    BY <1>1
  <2>2. <<y, x>> \in Nat \X Nat /\ <<y,x>>[1] = y /\ <<y,x>>[2] = x
    OBVIOUS
  <2>3. ~(y < x)
    BY <2>1, <2>2 DEF Less
  <2>4. QED BY <2>3
<1>3. QED BY <1>2

\* Induction up to n: Q has 0 and, with each number below n, the next.
LEMMA UpTo ==
  ASSUME NEW n \in Nat, NEW Q, 0 \in Q, \A i \in 0 .. n - 1 : i \in Q => i + 1 \in Q
  PROVE  \A i \in 0 .. n : i \in Q
<1> DEFINE T == {i \in 0 .. n : i \notin Q}
<1>1. SUFFICES ASSUME T # {} PROVE FALSE
  OBVIOUS
<1>2. T \in SUBSET Nat
  OBVIOUS
<1>3. PICK i \in T : \A j \in T : i <= j
  BY <1>1, <1>2, NatMin
<1>4. i # 0 /\ i - 1 \in 0 .. n - 1 /\ i - 1 \notin T
  BY <1>3
<1>5. QED BY <1>3, <1>4

\* Of the subsets of a finite set that are not in Q, one has no smaller.
LEMMA SmallestNot ==
  ASSUME NEW S, IsFiniteSet(S), NEW Q, NEW u \in SUBSET S, u \notin Q
  PROVE  \E s \in SUBSET S : s \notin Q /\ \A x \in s : s \ {x} \in Q
<1> DEFINE T == {Cardinality(s) : s \in {t \in SUBSET S : t \notin Q}}
<1>1. \A s \in SUBSET S : IsFiniteSet(s) /\ Cardinality(s) \in Nat
  BY FS_Subset, FS_CardinalityType
<1>2. T \in SUBSET Nat /\ T # {}
  BY <1>1
<1>3. PICK n \in T : \A m \in T : n <= m
  BY <1>2, NatMin
<1>4. PICK s \in SUBSET S : s \notin Q /\ Cardinality(s) = n
  OBVIOUS
<1>5. ASSUME NEW x \in s PROVE s \ {x} \in Q
  <2>1. Cardinality(s \ {x}) = Cardinality(s) - 1 /\ s \ {x} \in SUBSET S
    BY <1>1, FS_RemoveElement
  <2>2. Cardinality(s \ {x}) \notin T
    BY <1>1, <1>3, <1>4, <2>1
  <2>3. QED BY <2>1, <2>2
<1>6. QED BY <1>4, <1>5

\* What the empty set is, and a set with one more is when it is, every finite set is.
LEMMA FiniteInduction ==
  ASSUME NEW S, IsFiniteSet(S), NEW Q, {} \in Q,
         \A s \in SUBSET S : \A x \in S \ s : s \in Q => s \cup {x} \in Q
  PROVE  S \in Q
<1>1. SUFFICES ASSUME S \notin Q PROVE FALSE
  OBVIOUS
<1>2. PICK s \in SUBSET S : s \notin Q /\ \A x \in s : s \ {x} \in Q
  <2>1. S \in SUBSET S
    OBVIOUS
  <2>2. QED BY <1>1, <2>1, SmallestNot, Zenon
<1>3. PICK x \in s : TRUE
  BY <1>2
<1>4. s \ {x} \in Q /\ s \ {x} \in SUBSET S /\ x \in S \ (s \ {x}) /\ (s \ {x}) \cup {x} = s
  BY <1>2
<1>5. QED BY <1>2, <1>4

-----------------------------------------------------------------------------
(* Recursion over the subsets of a finite set                              *)

Follows(f, S, base, pick, G) ==
  \A s \in SUBSET S : f[s] = IF s = {} THEN base ELSE G[<<pick[s], f[s \ {pick[s]}]>>]

\* A function is defined on every subset by what it is without the picked element.
LEMMA RecursionExists ==
  ASSUME NEW S, IsFiniteSet(S), NEW V, NEW base \in V, NEW G \in [S \X V -> V],
         NEW pick, \A s \in SUBSET S : s # {} => pick[s] \in s
  PROVE  \E f \in [SUBSET S -> V] : Follows(f, S, base, pick, G)
<1> DEFINE D(n) == {s \in SUBSET S : Cardinality(s) <= n}
           Sat(f, n) == /\ f \in [D(n) -> V]
                        /\ \A s \in D(n) :
                             f[s] = IF s = {} THEN base ELSE G[<<pick[s], f[s \ {pick[s]}]>>]
           Q == {n \in Nat : \E f : Sat(f, n)}
<1>1. \A s \in SUBSET S : IsFiniteSet(s) /\ Cardinality(s) \in Nat /\ Cardinality(s) <= Cardinality(S)
  BY FS_Subset, FS_CardinalityType
<1>2. Cardinality(S) \in Nat
  BY FS_CardinalityType
<1>3. \A s \in SUBSET S : s # {} =>
        /\ s \ {pick[s]} \in SUBSET S /\ Cardinality(s \ {pick[s]}) = Cardinality(s) - 1
  BY <1>1, FS_RemoveElement
<1>4. 0 \in Q
  <2> DEFINE f == [s \in D(0) |-> base]
  <2>1. \A s \in D(0) : s = {}
    BY <1>1, FS_EmptySet
  <2>2. Sat(f, 0)
    BY <2>1
  <2>3. QED BY <2>2
<1>5. ASSUME NEW n \in Nat, n \in Q PROVE n + 1 \in Q
  <2>1. PICK f : Sat(f, n)
    BY <1>5
  <2> DEFINE g == [s \in D(n + 1) |-> IF s = {} THEN base ELSE G[<<pick[s], f[s \ {pick[s]}]>>]]
  <2>2. \A s \in D(n + 1) : s # {} => s \ {pick[s]} \in D(n)
    BY <1>1, <1>3
  <2>3. \A s \in D(n) : s \in D(n + 1) /\ g[s] = f[s]
    BY <1>1, <2>1
  <2>4. g \in [D(n + 1) -> V]
    <3>1. ASSUME NEW s \in D(n + 1), s # {} PROVE G[<<pick[s], f[s \ {pick[s]}]>>] \in V
      <4>1. f[s \ {pick[s]}] \in V /\ pick[s] \in S
        BY <2>1, <2>2, <3>1
      <4>2. QED BY <4>1
    <3>2. QED BY <3>1
  <2>5. ASSUME NEW s \in D(n + 1)
        PROVE  g[s] = IF s = {} THEN base ELSE G[<<pick[s], g[s \ {pick[s]}]>>]
    BY <2>2, <2>3
  <2>6. Sat(g, n + 1)
    BY <2>4, <2>5
  <2> HIDE DEF Sat, D, g
  <2>7. QED BY <2>6
<1>6. Cardinality(S) \in Q
  <2> HIDE DEF Q
  <2>1. \A i \in 0 .. Cardinality(S) - 1 : i \in Q => i + 1 \in Q
    BY <1>2, <1>5
  <2>2. \A i \in 0 .. Cardinality(S) : i \in Q
    BY <1>2, <1>4, <2>1, UpTo
  <2>3. QED BY <1>2, <2>2
<1>7. PICK f : Sat(f, Cardinality(S))
  BY <1>6
<1>8. D(Cardinality(S)) = SUBSET S
  BY <1>1
<1>9. QED BY <1>7, <1>8 DEF Follows

-----------------------------------------------------------------------------
(* Sums                                                                    *)

Picks(S) == [s \in SUBSET S |-> CHOOSE x \in s : TRUE]
Adds(fun, S) == [p \in S \X Int |-> fun[p[1]] + p[2]]

\* f has the sum of the numbers of `fun` over each subset of S.
Sums(f, fun, S) ==
  \A s \in SUBSET S : f[s] = IF s = {} THEN 0
                            ELSE fun[CHOOSE x \in s : TRUE] + f[s \ {CHOOSE x \in s : TRUE}]

\* The sum of the library is such a function, with zero for the empty set.
LEMMA SumFollows ==
  ASSUME NEW fun, NEW S, IsFiniteSet(S), \A x \in S : fun[x] \in Int
  PROVE  \E f \in [SUBSET S -> Int] : Sums(f, fun, S) /\ SumFunctionOnSet(fun, S) = f[S]
<1>1. \A s \in SUBSET S : s # {} => Picks(S)[s] \in s /\ Picks(S)[s] = CHOOSE x \in s : TRUE
  BY DEF Picks
<1>2. Adds(fun, S) \in [S \X Int -> Int]
  BY DEF Adds
<1>3. PICK f \in [SUBSET S -> Int] : Follows(f, S, 0, Picks(S), Adds(fun, S))
  <2>1. \A s \in SUBSET S : s # {} => Picks(S)[s] \in s
    BY <1>1
  <2>2. 0 \in Int
    OBVIOUS
  <2>3. QED BY <1>2, <2>1, <2>2, RecursionExists, Zenon
<1>4. ASSUME NEW s \in SUBSET S, s # {}
      PROVE  Adds(fun, S)[<<Picks(S)[s], f[s \ {Picks(S)[s]}]>>] =
               fun[CHOOSE x \in s : TRUE] + f[s \ {CHOOSE x \in s : TRUE}]
  <2> DEFINE x == CHOOSE x \in s : TRUE
  <2>1. Picks(S)[s] = x /\ x \in S
    BY <1>1, <1>4
  <2>2. f[s \ {x}] \in Int
    BY <1>3
  <2> HIDE DEF x
  <2>3. Adds(fun, S)[<<x, f[s \ {x}]>>] = fun[x] + f[s \ {x}]
    BY <2>1, <2>2 DEF Adds
  <2>4. QED BY <2>1, <2>3 DEF x
<1> DEFINE E(g) == [s \in SUBSET S |-> IF s = {} THEN 0
                      ELSE fun[CHOOSE x \in s : TRUE] + g[s \ {CHOOSE x \in s : TRUE}]]
<1>5. f = E(f)
  <2>1. \A s \in SUBSET S : f[s] = E(f)[s]
    BY <1>3, <1>4 DEF Follows
  <2>2. QED BY <1>3, <2>1
<1> DEFINE h == CHOOSE g : g = E(g)
<1>6. h = E(h)
  BY <1>5
<1>7. SumFunctionOnSet(fun, S) = h[S]
  BY DEF SumFunctionOnSet, FoldFunctionOnSet, MapThenFoldSet
<1>8. f = h
  <2> DEFINE Q == {s \in SUBSET S : f[s] = h[s]}
  <2>0. h = [s \in SUBSET S |-> h[s]] /\ f = [s \in SUBSET S |-> f[s]]
    BY <1>6, <1>3
  <2>1. SUFFICES ASSUME NEW u \in SUBSET S, u \notin Q PROVE FALSE
    BY <2>0
  <2>2. PICK s \in SUBSET S : s \notin Q /\ \A x \in s : s \ {x} \in Q
    <3> HIDE DEF Q
    <3>1. QED BY <2>1, SmallestNot, Zenon
  <2>3. /\ f[s] = IF s = {} THEN 0 ELSE fun[CHOOSE x \in s : TRUE] + f[s \ {CHOOSE x \in s : TRUE}]
        /\ h[s] = IF s = {} THEN 0 ELSE fun[CHOOSE x \in s : TRUE] + h[s \ {CHOOSE x \in s : TRUE}]
    BY <1>5, <1>6
  <2> HIDE DEF h
  <2>4. QED BY <2>2, <2>3
<1>9. Sums(f, fun, S)
  BY <1>3, <1>4 DEF Follows, Sums
<1>10. QED BY <1>3, <1>7, <1>8, <1>9

\* Of two such functions, what they say of the same sets is the same.
LEMMA SumsAgree ==
  ASSUME NEW fun, NEW S, IsFiniteSet(S), NEW T, T \subseteq S,
         NEW f, Sums(f, fun, S), NEW g, Sums(g, fun, T)
  PROVE  f[T] = g[T]
<1> DEFINE Q == {s \in SUBSET T : f[s] = g[s]}
<1>1. SUFFICES ASSUME T \notin Q PROVE FALSE
  OBVIOUS
<1>2. IsFiniteSet(T) /\ T \in SUBSET T
  BY FS_Subset
<1>3. PICK s \in SUBSET T : s \notin Q /\ \A x \in s : s \ {x} \in Q
  <2> HIDE DEF Q
  <2>1. QED BY <1>1, <1>2, SmallestNot, Zenon
<1>4. /\ f[s] = IF s = {} THEN 0 ELSE fun[CHOOSE x \in s : TRUE] + f[s \ {CHOOSE x \in s : TRUE}]
      /\ g[s] = IF s = {} THEN 0 ELSE fun[CHOOSE x \in s : TRUE] + g[s \ {CHOOSE x \in s : TRUE}]
  BY DEF Sums
<1>5. QED BY <1>3, <1>4

\* Three facts about sums; nothing else is used of them.
LEMMA SumIsInt ==
  ASSUME NEW fun, NEW S, IsFiniteSet(S), \A x \in S : fun[x] \in Int
  PROVE  SumFunctionOnSet(fun, S) \in Int
<1>1. PICK f \in [SUBSET S -> Int] : Sums(f, fun, S) /\ SumFunctionOnSet(fun, S) = f[S]
  BY SumFollows
<1>2. S \in SUBSET S
  OBVIOUS
<1>3. QED BY <1>1, <1>2

\* The sum of nothing.
LEMMA SumOfNone ==
  ASSUME NEW fun
  PROVE  SumFunctionOnSet(fun, {}) = 0
<1>1. PICK f \in [SUBSET {} -> Int] : Sums(f, fun, {}) /\ SumFunctionOnSet(fun, {}) = f[{}]
  BY SumFollows, FS_EmptySet
<1>2. QED BY <1>1 DEF Sums

\* The sum without one of its members.
LEMMA SumOfMore ==
  ASSUME NEW fun, NEW S, IsFiniteSet(S), \A x \in S : fun[x] \in Int, NEW c \in S
  PROVE  SumFunctionOnSet(fun, S) = fun[c] + SumFunctionOnSet(fun, S \ {c})
<1>1. PICK f \in [SUBSET S -> Int] : Sums(f, fun, S) /\ SumFunctionOnSet(fun, S) = f[S]
  BY SumFollows
<1>2. ASSUME NEW T \in SUBSET S PROVE SumFunctionOnSet(fun, T) = f[T]
  <2>1. IsFiniteSet(T) /\ \A x \in T : fun[x] \in Int
    BY FS_Subset
  <2>2. PICK g \in [SUBSET T -> Int] : Sums(g, fun, T) /\ SumFunctionOnSet(fun, T) = g[T]
    BY <2>1, SumFollows
  <2>3. QED BY <1>1, <2>2, SumsAgree
<1> DEFINE Q == {s \in SUBSET S : \A x \in s : f[s] = fun[x] + f[s \ {x}]}
<1>3. S \in Q
  <2>1. SUFFICES ASSUME S \notin Q PROVE FALSE
    OBVIOUS
  <2>2. PICK s \in SUBSET S : s \notin Q /\ \A x \in s : s \ {x} \in Q
    <3>1. S \in SUBSET S
      OBVIOUS
    <3> HIDE DEF Q
    <3>2. QED BY <2>1, <3>1, SmallestNot, Zenon
  <2>3. PICK y \in s : f[s] # fun[y] + f[s \ {y}]
    BY <2>2
  <2> DEFINE x == CHOOSE x \in s : TRUE
  <2>4. x \in s
    BY <2>3
  <2>5. f[s] = fun[x] + f[s \ {x}]
    BY <1>1, <2>4 DEF Sums
  <2> HIDE DEF x
  <2>6. x # y
    BY <2>3, <2>5
  <2>7. f[s \ {x}] = fun[y] + f[(s \ {x}) \ {y}]
    BY <2>2, <2>4, <2>6
  <2>8. f[s \ {y}] = fun[x] + f[(s \ {y}) \ {x}]
    BY <2>2, <2>4, <2>6
  <2>9. (s \ {x}) \ {y} = (s \ {y}) \ {x} /\ (s \ {x}) \ {y} \in SUBSET S
    OBVIOUS
  <2> DEFINE rest == (s \ {x}) \ {y}
  <2>10. fun[x] \in Int /\ fun[y] \in Int /\ f[rest] \in Int
    BY <2>4, <2>9
  <2>11. f[s \ {x}] = fun[y] + f[rest] /\ f[s \ {y}] = fun[x] + f[rest]
    BY <2>7, <2>8, <2>9
  <2> HIDE DEF rest
  <2>12. f[s] = fun[x] + (fun[y] + f[rest]) /\ f[s] # fun[y] + (fun[x] + f[rest])
    BY <2>3, <2>5, <2>11
  <2>13. QED BY <2>10, <2>12
<1>4. f[S] = fun[c] + f[S \ {c}]
  BY <1>3
<1>5. QED BY <1>1, <1>2, <1>4

\* The sum with one member more.
LEMMA SumWith ==
  ASSUME NEW fun, NEW S, IsFiniteSet(S), \A x \in S : fun[x] \in Int, NEW c, c \notin S, fun[c] \in Int
  PROVE  SumFunctionOnSet(fun, S \cup {c}) = fun[c] + SumFunctionOnSet(fun, S)
<1>1. IsFiniteSet(S \cup {c}) /\ (S \cup {c}) \ {c} = S
  BY FS_AddElement
<1>2. SumFunctionOnSet(fun, S \cup {c}) = fun[c] + SumFunctionOnSet(fun, (S \cup {c}) \ {c})
  BY <1>1, SumOfMore
<1>3. QED BY <1>1, <1>2

\* Two functions that agree on a set have one sum over it.
LEMMA SumAlike ==
  ASSUME NEW f, NEW g, NEW S, IsFiniteSet(S), \A x \in S : f[x] \in Int /\ g[x] = f[x]
  PROVE  SumFunctionOnSet(f, S) = SumFunctionOnSet(g, S)
<1> DEFINE Q == {s \in SUBSET S : SumFunctionOnSet(f, s) = SumFunctionOnSet(g, s)}
<1>1. {} \in Q
  BY SumOfNone
<1>2. ASSUME NEW s \in SUBSET S, NEW x \in S \ s, s \in Q PROVE s \cup {x} \in Q
  <2>1. IsFiniteSet(s)
    BY FS_Subset
  <2>2. SumFunctionOnSet(f, s \cup {x}) = f[x] + SumFunctionOnSet(f, s)
    BY <2>1, SumWith
  <2>3. SumFunctionOnSet(g, s \cup {x}) = g[x] + SumFunctionOnSet(g, s)
    BY <2>1, SumWith
  <2>4. QED BY <1>2, <2>2, <2>3
<1>3. S \in Q
  <2> HIDE DEF Q
  <2>1. QED BY <1>1, <1>2, FiniteInduction
<1>4. QED BY <1>3

\* A sum does not depend on what its terms are called.
LEMMA SumRenamed ==
  ASSUME NEW f, NEW g, NEW b, NEW S, IsFiniteSet(S), \A x \in S : g[x] \in Int /\ f[b[x]] = g[x],
         \A x, y \in S : b[x] = b[y] => x = y
  PROVE  SumFunctionOnSet(g, S) = SumFunctionOnSet(f, {b[x] : x \in S})
<1> DEFINE I(s) == {b[x] : x \in s}
           Q == {s \in SUBSET S : IsFiniteSet(I(s)) /\ SumFunctionOnSet(g, s) = SumFunctionOnSet(f, I(s))}
<1>1. {} \in Q
  <2>1. I({}) = {}
    OBVIOUS
  <2>2. QED BY <2>1, SumOfNone, FS_EmptySet
<1>2. ASSUME NEW s \in SUBSET S, NEW x \in S \ s, s \in Q PROVE s \cup {x} \in Q
  <2>1. IsFiniteSet(s) /\ IsFiniteSet(I(s))
    BY <1>2, FS_Subset
  <2>2. SumFunctionOnSet(g, s \cup {x}) = g[x] + SumFunctionOnSet(g, s)
    BY <2>1, SumWith
  <2>3. I(s \cup {x}) = I(s) \cup {b[x]} /\ b[x] \notin I(s)
    OBVIOUS
  <2>4. /\ \A y \in I(s) : f[y] \in Int
        /\ f[b[x]] = g[x] /\ g[x] \in Int
    OBVIOUS
  <2>5. SumFunctionOnSet(f, I(s) \cup {b[x]}) = f[b[x]] + SumFunctionOnSet(f, I(s))
    <3> HIDE DEF I
    <3>1. QED BY <2>1, <2>3, <2>4, SumWith
  <2>6. IsFiniteSet(I(s) \cup {b[x]})
    <3> HIDE DEF I
    <3>1. QED BY <2>1, FS_AddElement
  <2>7. SumFunctionOnSet(g, s) = SumFunctionOnSet(f, I(s))
    BY <1>2
  <2> HIDE DEF I
  <2>8. QED BY <2>2, <2>3, <2>4, <2>5, <2>6, <2>7
<1>3. S \in Q
  <2> HIDE DEF Q
  <2>1. QED BY <1>1, <1>2, FiniteInduction
<1>4. QED BY <1>3

\* The sum over two disjoint sets.
LEMMA SumOfBoth ==
  ASSUME NEW fun, NEW S, NEW T, IsFiniteSet(S), IsFiniteSet(T), S \cap T = {},
         \A x \in S \cup T : fun[x] \in Int
  PROVE  SumFunctionOnSet(fun, S \cup T) = SumFunctionOnSet(fun, S) + SumFunctionOnSet(fun, T)
<1> DEFINE Q == {t \in SUBSET T : SumFunctionOnSet(fun, S \cup t)
                                  = SumFunctionOnSet(fun, S) + SumFunctionOnSet(fun, t)}
<1>0. SumFunctionOnSet(fun, S) \in Int
  BY SumIsInt
<1>1. {} \in Q
  BY <1>0, SumOfNone
<1>2. ASSUME NEW t \in SUBSET T, NEW x \in T \ t, t \in Q PROVE t \cup {x} \in Q
  <2>1. IsFiniteSet(t) /\ IsFiniteSet(S \cup t)
    BY FS_Subset, FS_Union
  <2>2. SumFunctionOnSet(fun, t \cup {x}) = fun[x] + SumFunctionOnSet(fun, t)
    BY <2>1, SumWith
  <2>3. x \notin S \cup t /\ fun[x] \in Int /\ \A y \in S \cup t : fun[y] \in Int
    OBVIOUS
  <2>4. SumFunctionOnSet(fun, (S \cup t) \cup {x}) = fun[x] + SumFunctionOnSet(fun, S \cup t)
    BY <2>1, <2>3, SumWith
  <2>5. S \cup (t \cup {x}) = (S \cup t) \cup {x}
    OBVIOUS
  <2>6. SumFunctionOnSet(fun, t) \in Int
    BY <2>1, SumIsInt
  <2>7. SumFunctionOnSet(fun, S \cup t) = SumFunctionOnSet(fun, S) + SumFunctionOnSet(fun, t)
    BY <1>2
  <2> DEFINE more == t \cup {x}  both == S \cup t  all == S \cup more
  <2>8. /\ SumFunctionOnSet(fun, more) = fun[x] + SumFunctionOnSet(fun, t)
        /\ SumFunctionOnSet(fun, all) = fun[x] + SumFunctionOnSet(fun, both)
        /\ SumFunctionOnSet(fun, both) = SumFunctionOnSet(fun, S) + SumFunctionOnSet(fun, t)
        /\ fun[x] \in Int
    BY <2>2, <2>3, <2>4, <2>5, <2>7
  <2> HIDE DEF more, both, all
  <2>9. SumFunctionOnSet(fun, all) = SumFunctionOnSet(fun, S) + SumFunctionOnSet(fun, more)
    BY <1>0, <2>6, <2>8
  <2>10. QED BY <2>9 DEF all, more
<1>3. T \in Q
  <2> HIDE DEF Q
  <2>1. QED BY <1>1, <1>2, FiniteInduction
<1>4. QED BY <1>3

\* Terms that are within h of each other have sums within h for each of them.
LEMMA SumsWithin ==
  ASSUME NEW f, NEW g, NEW S, IsFiniteSet(S), NEW k \in Int, NEW h \in Nat,
         \A x \in S : /\ f[x] \in Int /\ g[x] \in Int
                      /\ -h <= f[x] * k - g[x] /\ f[x] * k - g[x] <= h
  PROVE  LET slip == SumFunctionOnSet(f, S) * k - SumFunctionOnSet(g, S)
         IN  -(Cardinality(S) * h) <= slip /\ slip <= Cardinality(S) * h
<1> DEFINE Slip(s) == SumFunctionOnSet(f, s) * k - SumFunctionOnSet(g, s)
           Q == {s \in SUBSET S : -(Cardinality(s) * h) <= Slip(s) /\ Slip(s) <= Cardinality(s) * h}
<1>1. {} \in Q
  BY SumOfNone, FS_EmptySet
<1>2. ASSUME NEW s \in SUBSET S, NEW x \in S \ s, s \in Q PROVE s \cup {x} \in Q
  <2>1. IsFiniteSet(s) /\ Cardinality(s) \in Nat
    BY FS_Subset, FS_CardinalityType
  <2>2. SumFunctionOnSet(f, s \cup {x}) = f[x] + SumFunctionOnSet(f, s)
    BY <2>1, SumWith
  <2>3. SumFunctionOnSet(g, s \cup {x}) = g[x] + SumFunctionOnSet(g, s)
    BY <2>1, SumWith
  <2>4. SumFunctionOnSet(f, s) \in Int /\ SumFunctionOnSet(g, s) \in Int
    BY <2>1, SumIsInt
  <2>5. Cardinality(s \cup {x}) = Cardinality(s) + 1
    BY <2>1, FS_AddElement
  <2>6. -(Cardinality(s) * h) <= Slip(s) /\ Slip(s) <= Cardinality(s) * h
    BY <1>2
  <2> DEFINE a == SumFunctionOnSet(f, s)  c == SumFunctionOnSet(g, s)  n == Cardinality(s)
  <2>7. Slip(s \cup {x}) = (f[x] + a) * k - (g[x] + c)
    BY <2>2, <2>3
  <2>8. a \in Int /\ c \in Int /\ n \in Nat /\ -(n * h) <= a * k - c /\ a * k - c <= n * h
    BY <2>1, <2>4, <2>6
  <2>9. /\ f[x] \in Int /\ g[x] \in Int
        /\ -h <= f[x] * k - g[x] /\ f[x] * k - g[x] <= h
    OBVIOUS
  <2> HIDE DEF a, c, n
  <2>10. (f[x] + a) * k - (g[x] + c) = (f[x] * k - g[x]) + (a * k - c)
    BY <2>8, <2>9
  <2>11. (n + 1) * h = n * h + h
    BY <2>8
  <2>12. /\ -((n + 1) * h) <= (f[x] + a) * k - (g[x] + c)
         /\ (f[x] + a) * k - (g[x] + c) <= (n + 1) * h
    BY <2>8, <2>9, <2>10, <2>11
  <2>13. -(Cardinality(s \cup {x}) * h) <= Slip(s \cup {x}) /\ Slip(s \cup {x}) <= Cardinality(s \cup {x}) * h
    BY <2>5, <2>7, <2>12 DEF n
  <2> HIDE DEF Slip
  <2>14. QED BY <2>13
<1>3. S \in Q
  <2> HIDE DEF Q
  <2>1. QED BY <1>1, <1>2, FiniteInduction
<1>4. QED BY <1>3

\* The members of S, counted class by class.
LEMMA SumOfClasses ==
  ASSUME NEW S, IsFiniteSet(S), NEW class, NEW K, IsFiniteSet(K), \A x \in S : class[x] \in K,
         NEW count, \A k \in K : count[k] = Cardinality({x \in S : class[x] = k})
  PROVE  Cardinality(S) = SumFunctionOnSet(count, K)
<1> DEFINE In(L) == {x \in S : class[x] \in L}
           Q == {L \in SUBSET K : Cardinality(In(L)) = SumFunctionOnSet(count, L)}
<1>1. {} \in Q
  <2>1. In({}) = {}
    OBVIOUS
  <2>2. QED BY <2>1, SumOfNone, FS_EmptySet
<1>2. ASSUME NEW L \in SUBSET K, NEW k \in K \ L, L \in Q PROVE L \cup {k} \in Q
  <2> DEFINE C == {x \in S : class[x] = k}
  <2>1. IsFiniteSet(L) /\ \A l \in L \cup {k} : count[l] \in Int
    <3>1. ASSUME NEW l \in K PROVE count[l] \in Int
      <4>1. IsFiniteSet({x \in S : class[x] = l})
        BY FS_Subset
      <4>2. Cardinality({x \in S : class[x] = l}) \in Nat
        BY <4>1, FS_CardinalityType
      <4>3. count[l] = Cardinality({x \in S : class[x] = l})
        OBVIOUS
      <4>4. QED BY <4>2, <4>3
    <3>2. QED BY <3>1, FS_Subset
  <2>2. SumFunctionOnSet(count, L \cup {k}) = count[k] + SumFunctionOnSet(count, L)
    BY <2>1, SumWith
  <2>3. IsFiniteSet(In(L)) /\ IsFiniteSet(C) /\ In(L) \cap C = {} /\ In(L \cup {k}) = In(L) \cup C
    BY FS_Subset
  <2> HIDE DEF In, C
  <2>4. Cardinality(In(L) \cup C) = Cardinality(In(L)) + Cardinality(C) - Cardinality(In(L) \cap C)
    BY <2>3, FS_Union
  <2>5. Cardinality(In(L)) \in Nat /\ Cardinality(C) \in Nat /\ Cardinality(In(L) \cap C) = 0
    BY <2>3, FS_CardinalityType, FS_EmptySet
  <2>6. count[k] = Cardinality(C)
    BY DEF C
  <2>7. Cardinality(In(L)) = SumFunctionOnSet(count, L)
    BY <1>2
  <2> DEFINE more == L \cup {k}  both == In(L) \cup C
  <2>8. /\ In(more) = both
        /\ SumFunctionOnSet(count, more) = count[k] + SumFunctionOnSet(count, L)
        /\ Cardinality(both) = Cardinality(In(L)) + Cardinality(C) - Cardinality(In(L) \cap C)
    <3>1. In(more) = both
      BY <2>3
    <3>2. SumFunctionOnSet(count, more) = count[k] + SumFunctionOnSet(count, L)
      BY <2>2
    <3>3. Cardinality(both) = Cardinality(In(L)) + Cardinality(C) - Cardinality(In(L) \cap C)
      BY <2>4
    <3> HIDE DEF more, both
    <3>4. QED BY <3>1, <3>2, <3>3
  <2> HIDE DEF more, both
  <2>9. Cardinality(In(more)) = SumFunctionOnSet(count, more)
    BY <2>5, <2>6, <2>7, <2>8
  <2>10. QED BY <2>9 DEF more
<1>3. K \in Q
  <2> HIDE DEF Q
  <2>1. QED BY <1>1, <1>2, FiniteInduction
<1>4. In(K) = S
  OBVIOUS
<1>5. QED BY <1>3, <1>4

-----------------------------------------------------------------------------
(* Walking along a sequence                                                *)

Tops(n) == [s \in SUBSET (1 .. n) |-> Max(s)]

\* A set of the first numbers has a largest one.
LEMMA MaxIs ==
  ASSUME NEW n \in Nat, NEW s \in SUBSET (1 .. n), s # {}
  PROVE  Max(s) \in s /\ \A x \in s : Max(s) >= x
<1> DEFINE T == {n - x : x \in s}
<1>1. T \in SUBSET Nat /\ T # {}
  <2>1. PICK y \in s : TRUE
    OBVIOUS
  <2>2. n - y \in T
    OBVIOUS
  <2>3. \A x \in s : n - x \in Nat
    OBVIOUS
  <2>4. QED BY <2>2, <2>3
<1>2. PICK t \in T : \A u \in T : t <= u
  BY <1>1, NatMin
<1>3. PICK m \in s : t = n - m
  BY <1>2
<1>4. \A x \in s : m >= x
  BY <1>2, <1>3
<1>5. QED BY <1>4 DEF Max

\* The fold of the library takes a sequence from its end.
LEMMA MaxOfFirst ==
  ASSUME NEW i \in Nat, i > 0
  PROVE  Max(1 .. i) = i /\ (1 .. i) \ {Max(1 .. i)} = 1 .. i - 1 /\ 1 .. i # {}
<1>1. 1 .. i \in SUBSET (1 .. i) /\ i \in 1 .. i
  OBVIOUS
<1>2. Max(1 .. i) \in 1 .. i /\ \A x \in 1 .. i : Max(1 .. i) >= x
  BY <1>1, MaxIs
<1>3. Max(1 .. i) = i
  BY <1>1, <1>2
<1>4. QED BY <1>1, <1>3

\* A fold over the first n numbers exists.
LEMMA FoldExists ==
  ASSUME NEW n \in Nat, NEW V, NEW base \in V, NEW G \in [(1 .. n) \X V -> V]
  PROVE  \E f \in [SUBSET (1 .. n) -> V] : Follows(f, 1 .. n, base, Tops(n), G)
<1>1. \A s \in SUBSET (1 .. n) : s # {} => Tops(n)[s] \in s
  BY MaxIs DEF Tops
<1>2. IsFiniteSet(1 .. n)
  BY FS_Interval
<1>3. QED BY <1>1, <1>2, RecursionExists, Zenon

\* f has what the steps of G make of `base`, one after the other.
Steps(G, n, V) == \A i \in 1 .. n : \A v \in V : G[<<i, v>>] \in V
Walks(f, G, n, V, base) ==
  /\ f[0] = base
  /\ \A i \in 0 .. n : f[i] \in V
  /\ \A i \in 1 .. n : f[i] = G[<<i, f[i - 1]>>]

\* What a fold has come to after each member of a sequence.
LEMMA WalkExists ==
  ASSUME NEW n \in Nat, NEW V, NEW base \in V, NEW G, Steps(G, n, V)
  PROVE  \E f : Walks(f, G, n, V, base)
<1> DEFINE H == [p \in (1 .. n) \X V |-> G[<<p[1], p[2]>>]]
<1>0. H \in [(1 .. n) \X V -> V] /\ \A i \in 1 .. n : \A v \in V : H[<<i, v>>] = G[<<i, v>>]
  BY DEF Steps
<1> HIDE DEF H
<1>1. PICK F \in [SUBSET (1 .. n) -> V] : Follows(F, 1 .. n, base, Tops(n), H)
  BY <1>0, FoldExists
<1> DEFINE f == [i \in 0 .. n |-> F[1 .. i]]
<1>2. \A i \in 0 .. n : f[i] \in V
  OBVIOUS
<1>3. f[0] = base
  <2>1. 1 .. 0 = {} /\ {} \in SUBSET (1 .. n)
    OBVIOUS
  <2>2. F[1 .. 0] = base
    BY <1>1, <2>1 DEF Follows
  <2>3. QED BY <2>2
<1>4. ASSUME NEW i \in 1 .. n PROVE f[i] = G[<<i, f[i - 1]>>]
  <2>1. 1 .. i \in SUBSET (1 .. n) /\ Tops(n)[1 .. i] = Max(1 .. i)
    BY DEF Tops
  <2>2. Tops(n)[1 .. i] = i /\ (1 .. i) \ {Tops(n)[1 .. i]} = 1 .. i - 1 /\ 1 .. i # {}
    BY <2>1, MaxOfFirst, SMTT(30)
  <2>3. F[1 .. i] = H[<<i, F[1 .. i - 1]>>]
    BY <1>1, <2>1, <2>2 DEF Follows
  <2>4. f[i] = F[1 .. i] /\ f[i - 1] = F[1 .. i - 1]
    OBVIOUS
  <2> HIDE DEF f
  <2>5. f[i - 1] \in V
    BY <1>2
  <2>6. QED BY <1>0, <2>3, <2>4, <2>5
<1>5. Walks(f, G, n, V, base)
  BY <1>2, <1>3, <1>4 DEF Walks
<1>6. QED BY <1>5

\* What FlattenSeq joins has the members of all.
LEMMA FlattenIs ==
  ASSUME NEW E, NEW ss \in Seq(Seq(E))
  PROVE  LET all == FlattenSeq(ss) IN
         /\ all \in Seq(E)
         /\ \A e : (\E k \in DOMAIN all : all[k] = e)
                     <=> (\E i \in DOMAIN ss : \E k \in DOMAIN ss[i] : ss[i][k] = e)
<1> DEFINE n == Len(ss)
           J(g) == [i \in 1 .. n |-> IF i = 1 THEN ss[i] ELSE g[i - 1] \o ss[i]]
<1>0. n \in Nat /\ DOMAIN ss = 1 .. n /\ \A i \in 1 .. n : ss[i] \in Seq(E)
  OBVIOUS
<1>1. CASE n = 0
  <2>1. FlattenSeq(ss) = ss /\ ss = <<>>
    BY <1>1 DEF FlattenSeq
  <2>2. QED BY <2>1
<1>2. CASE n # 0
  <2> DEFINE G == [p \in (1 .. n) \X Seq(E) |-> IF p[1] = 1 THEN ss[p[1]] ELSE p[2] \o ss[p[1]]]
  <2>1. ASSUME NEW i \in 1 .. n, NEW v \in Seq(E) PROVE G[<<i, v>>] \in Seq(E)
    <3>1. v \o ss[i] \in Seq(E) /\ ss[i] \in Seq(E)
      BY <1>0
    <3>2. QED BY <3>1
  <2>2. \A i \in 1 .. n : \A u \in Seq(E) : G[<<i, u>>] = IF i = 1 THEN ss[i] ELSE u \o ss[i]
    OBVIOUS
  <2> HIDE DEF G
  <2>3. <<>> \in Seq(E)
    OBVIOUS
  <2>n. n \in Nat
    BY <1>0
  <2> HIDE DEF n
  <2>4. PICK f : Walks(f, G, n, Seq(E), <<>>)
    <3> DEFINE V == Seq(E)  empty == <<>>
    <3>1. empty \in V /\ Steps(G, n, V)
      BY <2>1, <2>3 DEF Steps
    <3> HIDE DEF V, empty
    <3>2. \E f : Walks(f, G, n, V, empty)
      BY <2>n, <3>1, WalkExists
    <3>3. QED BY <3>2 DEF V, empty
  <2> DEFINE g == [i \in 1 .. n |-> f[i]]
  <2>5. g = J(g)
    <3>1. ASSUME NEW i \in 1 .. n PROVE f[i] = IF i = 1 THEN ss[i] ELSE f[i - 1] \o ss[i]
      <4>1. f[i - 1] \in Seq(E)
        BY <2>4, <2>n DEF Walks
      <4>2. f[i] = G[<<i, f[i - 1]>>]
        BY <2>4 DEF Walks
      <4>3. QED BY <2>2, <4>1, <4>2
    <3>2. \A i \in 1 .. n : i # 1 => i - 1 \in 1 .. n
      BY <1>0, SMTT(30)
    <3>3. QED BY <3>1, <3>2
  <2> DEFINE h == CHOOSE g0 : g0 = J(g0)
  <2>6. h = J(h)
    BY <2>5, Zenon
  <2>7. FlattenSeq(ss) = h[n]
    BY <1>2, SMTT(30) DEF FlattenSeq, n
  <2>8. \A i \in 1 .. n : h[i] = IF i = 1 THEN ss[i] ELSE h[i - 1] \o ss[i]
    BY <2>6, Zenon
  <2> HIDE DEF h, J
  <2> DEFINE Said(i, e) == \E j \in 1 .. i : \E k \in DOMAIN ss[j] : ss[j][k] = e
             Holds(u, e) == \E k \in DOMAIN u : u[k] = e
             Q == {i \in 0 .. n : i # 0 => h[i] \in Seq(E) /\ \A e \in E : Holds(h[i], e) <=> Said(i, e)}
  <2>9. ASSUME NEW i \in 0 .. n - 1, i \in Q PROVE i + 1 \in Q
    <3>1. i + 1 \in 1 .. n /\ ss[i + 1] \in Seq(E)
      BY <1>0
    <3>2. CASE i = 0
      <4>1. h[i + 1] = ss[i + 1]
        BY <2>8, <3>1, <3>2
      <4>2. \A e \in E : Said(i + 1, e) <=> Holds(ss[i + 1], e)
        BY <3>2
      <4> HIDE DEF Holds, Said
      <4>3. h[i + 1] \in Seq(E) /\ \A e \in E : Holds(h[i + 1], e) <=> Said(i + 1, e)
        BY <3>1, <4>1, <4>2
      <4>4. QED BY <3>1, <4>3
    <3>3. CASE i # 0
      <4>0. i + 1 # 1 /\ (i + 1) - 1 = i
        BY <3>3
      <4>1. h[i + 1] = h[i] \o ss[i + 1] /\ h[i] \in Seq(E)
        <5>1. h[i + 1] = h[(i + 1) - 1] \o ss[i + 1]
          BY <2>8, <3>1, <4>0
        <5>2. h[i] \in Seq(E)
          BY <2>9, <3>3
        <5>3. QED BY <4>0, <5>1, <5>2
      <4>2. h[i + 1] \in Seq(E)
        BY <3>1, <4>1
      <4>3. ASSUME NEW u \in Seq(E), NEW v \in Seq(E), NEW e
            PROVE  Holds(u \o v, e) <=> Holds(u, e) \/ Holds(v, e)
        <5>1. ASSUME NEW k \in DOMAIN u PROVE k \in DOMAIN (u \o v) /\ (u \o v)[k] = u[k]
          OBVIOUS
        <5>2. ASSUME NEW k \in DOMAIN v
              PROVE  Len(u) + k \in DOMAIN (u \o v) /\ (u \o v)[Len(u) + k] = v[k]
          OBVIOUS
        <5>3. ASSUME NEW k \in DOMAIN (u \o v)
              PROVE  \/ k \in DOMAIN u /\ (u \o v)[k] = u[k]
                     \/ k - Len(u) \in DOMAIN v /\ (u \o v)[k] = v[k - Len(u)]
          OBVIOUS
        <5>4. QED BY <5>1, <5>2, <5>3
      <4>4. \A e : Said(i + 1, e) <=> Said(i, e) \/ Holds(ss[i + 1], e)
        BY <3>1, <3>3
      <4>5. \A e \in E : Holds(h[i], e) <=> Said(i, e)
        BY <2>9, <3>3
      <4>6. \A e : Holds(h[i + 1], e) <=> Holds(h[i], e) \/ Holds(ss[i + 1], e)
        <5> HIDE DEF Holds
        <5>1. QED BY <3>1, <4>1, <4>3
      <4> HIDE DEF Holds, Said
      <4>7. QED BY <3>1, <4>2, <4>4, <4>5, <4>6
    <3>4. QED BY <3>2, <3>3
  <2>10. n \in Q
    <3>1. 0 \in Q
      BY <1>0
    <3> HIDE DEF Q
    <3>2. \A i \in 0 .. n : i \in Q
      BY <1>0, <2>9, <3>1, UpTo
    <3>3. QED BY <1>0, <3>2
  <2>11. h[n] \in Seq(E) /\ \A e \in E : Holds(h[n], e) <=> Said(n, e)
    BY <1>2, <2>10
  <2>12. \A e : Holds(h[n], e) => e \in E
    BY <2>11
  <2>13. \A e : Said(n, e) => e \in E
    BY <1>0
  <2>14. \A e : Holds(h[n], e) <=> Said(n, e)
    <3> HIDE DEF Holds, Said
    <3>1. QED BY <2>11, <2>12, <2>13
  <2>15. QED BY <1>0, <2>7, <2>11, <2>14
<1>3. QED BY <1>1, <1>2

-----------------------------------------------------------------------------
(* Order                                                                   *)

\* Order goes through all indices, and what it has earlier is ahead of what it has later.
LEMMA OrderIs ==
  ASSUME NEW n \in Nat, NEW worth \in [1 .. n -> Int]
  PROVE  LET order == Order(worth) IN
         /\ order \in [1 .. n -> 1 .. n]
         /\ \A i \in 1 .. n : \E p \in 1 .. n : order[p] = i
         /\ \A p, q \in 1 .. n : p < q => Ahead(worth, order[p], order[q])
         /\ \A p, q \in 1 .. n : order[p] = order[q] => p = q
<1> DEFINE Sooner(i) == {j \in 1 .. n : Ahead(worth, j, i)}
           place == [i \in 1 .. n |-> Cardinality(Sooner(i))]
<1>1. IsFiniteSet(1 .. n) /\ Cardinality(1 .. n) = n
  BY FS_Interval
<1>2. \A i \in 1 .. n : IsFiniteSet(Sooner(i)) /\ Cardinality(Sooner(i)) \in Nat
  BY <1>1, FS_Subset, FS_CardinalityType
<1>3. \A i, j \in 1 .. n : i # j => Ahead(worth, i, j) \/ Ahead(worth, j, i)
  BY DEF Ahead
<1>4. ASSUME NEW i \in 1 .. n, NEW j \in 1 .. n, Ahead(worth, i, j)
      PROVE  place[i] < place[j]
  <2>1. Sooner(i) \subseteq Sooner(j) /\ i \in Sooner(j) /\ i \notin Sooner(i)
    BY <1>4 DEF Ahead
  <2> HIDE DEF Sooner
  <2>2. Cardinality(Sooner(i)) <= Cardinality(Sooner(j)) /\ Cardinality(Sooner(i)) # Cardinality(Sooner(j))
    BY <1>2, <2>1, FS_Subset
  <2>3. QED BY <1>2, <2>2
<1>5. \A i \in 1 .. n : place[i] \in 0 .. n - 1
  <2>1. ASSUME NEW i \in 1 .. n PROVE Cardinality(Sooner(i)) \in 0 .. n - 1
    <3>1. Sooner(i) \subseteq 1 .. n /\ i \notin Sooner(i)
      BY DEF Ahead
    <3> HIDE DEF Sooner
    <3>2. Cardinality(Sooner(i)) <= n /\ Cardinality(Sooner(i)) # n
      BY <1>1, <3>1, FS_Subset
    <3>3. QED BY <1>2, <3>2
  <2> HIDE DEF Sooner
  <2>2. QED BY <2>1
<1>6. \A i, j \in 1 .. n : place[i] = place[j] => i = j
  <2> HIDE DEF place
  <2>1. QED BY <1>3, <1>4, <1>5
<1>7. \A k \in 0 .. n - 1 : \E i \in 1 .. n : place[i] = k
  <2>1. place \in Injection(1 .. n, 0 .. n - 1)
    <3>1. place \in [1 .. n -> 0 .. n - 1]
      BY <1>5
    <3> HIDE DEF place
    <3>2. QED BY <1>6, <3>1 DEF Injection, IsInjective
  <2>2. IsFiniteSet(0 .. n - 1) /\ Cardinality(0 .. n - 1) = n
    BY FS_Interval
  <2> DEFINE I == {place[i] : i \in 1 .. n}
  <2>3. I \subseteq 0 .. n - 1
    BY <1>5
  <2>4. Cardinality(I) = n
    <3>1. place \in Surjection(1 .. n, I) /\ place \in Injection(1 .. n, I)
      <4>1. place = [i \in 1 .. n |-> place[i]]
        OBVIOUS
      <4> HIDE DEF place
      <4>2. place \in [1 .. n -> I]
        BY <4>1
      <4>3. QED BY <1>6, <4>2 DEF Surjection, Injection, IsInjective
    <3>2. ExistsBijection(1 .. n, I)
      BY <3>1 DEF ExistsBijection, Bijection
    <3> HIDE DEF I
    <3>3. QED BY <1>1, <3>2, FS_Bijection
  <2>5. I = 0 .. n - 1
    <3> HIDE DEF I
    <3>1. QED BY <2>2, <2>3, <2>4, FS_Subset
  <2> HIDE DEF place
  <2>6. QED BY <2>5
<1> DEFINE order == Order(worth)
<1>8. /\ order = [p \in 1 .. n |-> CHOOSE i \in 1 .. n : Place(worth, i) = p - 1]
      /\ \A i \in 1 .. n : Place(worth, i) = place[i]
  <2>1. DOMAIN worth = 1 .. n
    OBVIOUS
  <2>2. \A i \in 1 .. n : Place(worth, i) = place[i]
    BY <2>1 DEF Place
  <2>3. order = [p \in 1 .. n |-> CHOOSE i \in 1 .. n : Place(worth, i) = p - 1]
    BY <1>1, <2>1 DEF Order
  <2> HIDE DEF place, order
  <2>4. QED BY <2>2, <2>3
<1> HIDE DEF place
<1>9. ASSUME NEW p \in 1 .. n PROVE order[p] \in 1 .. n /\ place[order[p]] = p - 1
  <2>1. \E i \in 1 .. n : place[i] = p - 1
    <3>1. p - 1 \in 0 .. n - 1
      OBVIOUS
    <3>2. QED BY <1>7, <3>1
  <2>2. order[p] = CHOOSE i \in 1 .. n : Place(worth, i) = p - 1
    BY <1>8
  <2> HIDE DEF order
  <2>3. \E i \in 1 .. n : Place(worth, i) = p - 1
    BY <1>8, <2>1
  <2>4. order[p] \in 1 .. n /\ Place(worth, order[p]) = p - 1
    BY <2>2, <2>3
  <2>5. QED BY <1>8, <2>4
<1> HIDE DEF order
<1>10. order \in [1 .. n -> 1 .. n]
  BY <1>8, <1>9
<1>11. ASSUME NEW i \in 1 .. n PROVE \E p \in 1 .. n : order[p] = i
  <2>1. place[i] + 1 \in 1 .. n
    BY <1>5
  <2>2. place[order[place[i] + 1]] = place[i] /\ order[place[i] + 1] \in 1 .. n
    BY <1>5, <1>9, <2>1, SMTT(30)
  <2>3. QED BY <1>6, <2>1, <2>2
<1>12. ASSUME NEW p \in 1 .. n, NEW q \in 1 .. n, p < q PROVE Ahead(worth, order[p], order[q])
  <2>1. place[order[p]] < place[order[q]]
    BY <1>9, <1>12
  <2>2. order[p] \in 1 .. n /\ order[q] \in 1 .. n
    BY <1>9
  <2>3. order[p] # order[q] /\ ~(place[order[q]] < place[order[p]])
    <3>1. place[order[p]] = p - 1 /\ place[order[q]] = q - 1
      BY <1>9
    <3>2. p - 1 # q - 1 /\ ~(q - 1 < p - 1)
      BY <1>12
    <3>3. QED BY <3>1, <3>2
  <2>4. ~Ahead(worth, order[q], order[p])
    BY <1>4, <2>2, <2>3
  <2>5. QED BY <1>3, <2>2, <2>3, <2>4
<1>13. ASSUME NEW p \in 1 .. n, NEW q \in 1 .. n, order[p] = order[q] PROVE p = q
  <2>1. place[order[p]] = p - 1 /\ place[order[q]] = q - 1
    BY <1>9
  <2>2. p - 1 = q - 1
    BY <1>13, <2>1
  <2>3. QED BY <2>2
<1>14. QED BY <1>10, <1>11, <1>12, <1>13 DEF order

-----------------------------------------------------------------------------
(* The calendar                                                            *)

\* Each month begins when the one before it has had its days.
NextFirst(y, m) == IF m = 12 THEN Date(y + 1, 1, 1) ELSE Date(y, m + 1, 1)

\* The days of a month.
LEMMA DaysInIs ==
  ASSUME NEW y \in Int, NEW m \in 1 .. 12
  PROVE  DaysIn(y, m) \in 28 .. 31 /\ (m # 2 => DaysIn(y, m) \in 30 .. 31)
BY DEF DaysIn

\* Days of one month have adjoining ordinals.
LEMMA OrdinalIs ==
  ASSUME NEW y \in Int, NEW m \in 1 .. 12, NEW d \in Int
  PROVE  /\ Ordinal(Date(y, m, d)) \in Int
         /\ Ordinal(Date(y, m, d)) = Ordinal(Date(y, m, 1)) + d - 1
<1>1. BeforeMonth[m] \in Int
  BY DEF BeforeMonth
<1> DEFINE past == y - 1
<1>2. past \div 4 \in Int /\ past \div 100 \in Int /\ past \div 400 \in Int /\ past \in Int
  OBVIOUS
<1>3. \A e \in Int : Ordinal(Date(y, m, e)) =
        365 * y + past \div 4 - past \div 100 + past \div 400
          + BeforeMonth[m] + (IF m > 2 /\ Leap(y) THEN 1 ELSE 0) + e
  BY DEF Ordinal, Date
<1> HIDE DEF past
<1> DEFINE leap == IF m > 2 /\ Leap(y) THEN 1 ELSE 0
<1>4. leap \in Int
  OBVIOUS
<1> HIDE DEF leap
<1>5. \A e \in Int : Ordinal(Date(y, m, e)) =
        365 * y + past \div 4 - past \div 100 + past \div 400 + BeforeMonth[m] + leap + e
  BY <1>3 DEF leap
<1>6. QED BY <1>1, <1>2, <1>4, <1>5

\* A year begins 365 or 366 days after the one before.
LEMMA LeapYear ==
  ASSUME NEW y \in Int
  PROVE  y \div 4 - y \div 100 + y \div 400 =
           (y - 1) \div 4 - (y - 1) \div 100 + (y - 1) \div 400 + (IF Leap(y) THEN 1 ELSE 0)
<1>1. y \div 4 = (y - 1) \div 4 + (IF y % 4 = 0 THEN 1 ELSE 0)
  OBVIOUS
<1>2. y \div 100 = (y - 1) \div 100 + (IF y % 100 = 0 THEN 1 ELSE 0)
  OBVIOUS
<1>3. y \div 400 = (y - 1) \div 400 + (IF y % 400 = 0 THEN 1 ELSE 0)
  OBVIOUS
<1>4. (y % 400 = 0 => y % 100 = 0) /\ (y % 100 = 0 => y % 4 = 0)
  OBVIOUS
<1>5. QED BY <1>1, <1>2, <1>3, <1>4 DEF Leap

\* A month begins when the one before it has had its days.
LEMMA NextFirstIs ==
  ASSUME NEW y \in Int, NEW m \in 1 .. 12
  PROVE  Ordinal(NextFirst(y, m)) = Ordinal(Date(y, m, 1)) + DaysIn(y, m)
<1> DEFINE past == y - 1
           cycle(x) == x \div 4 - x \div 100 + x \div 400
           leap == IF Leap(y) THEN 1 ELSE 0
<1>1. leap \in Int /\ cycle(past) \in Int /\ cycle(y) \in Int
  OBVIOUS
<1>2. cycle(y) = cycle(past) + leap
  BY LeapYear
<1>3. \A n \in 1 .. 12 : Ordinal(Date(y, n, 1)) =
        365 * y + cycle(past) + BeforeMonth[n] + (IF n > 2 THEN leap ELSE 0) + 1
  <2>1. ASSUME NEW n \in 1 .. 12
        PROVE  Ordinal(Date(y, n, 1)) = 365 * y + past \div 4 - past \div 100 + past \div 400
                 + BeforeMonth[n] + (IF n > 2 /\ Leap(y) THEN 1 ELSE 0) + 1
    BY DEF Ordinal, Date
  <2>2. \A n \in 1 .. 12 : BeforeMonth[n] \in Int
    BY DEF BeforeMonth
  <2>3. past \div 4 \in Int /\ past \div 100 \in Int /\ past \div 400 \in Int
    OBVIOUS
  <2> HIDE DEF past
  <2>4. QED BY <2>1, <2>2, <2>3
<1>4. Ordinal(Date(y + 1, 1, 1)) = 365 * (y + 1) + cycle(y) + 1
  <2>1. Ordinal(Date(y + 1, 1, 1)) = 365 * (y + 1) + y \div 4 - y \div 100 + y \div 400 + 0 + 0 + 1
    <3>1. (y + 1) - 1 = y
      OBVIOUS
    <3>2. QED BY <3>1 DEF Ordinal, Date, BeforeMonth
  <2>2. y \div 4 \in Int /\ y \div 100 \in Int /\ y \div 400 \in Int
    OBVIOUS
  <2>3. QED BY <2>1, <2>2
<1> HIDE DEF cycle, past
<1>5. CASE m = 12
  <2>1. DaysIn(y, m) = 31 /\ BeforeMonth[m] = 334
    BY <1>5 DEF DaysIn, BeforeMonth
  <2>2. QED BY <1>1, <1>2, <1>3, <1>4, <1>5, <2>1 DEF NextFirst
<1>6. CASE m # 12
  <2>1. BeforeMonth[m + 1] + (IF m + 1 > 2 THEN leap ELSE 0)
          = BeforeMonth[m] + (IF m > 2 THEN leap ELSE 0) + DaysIn(y, m)
    BY <1>6 DEF DaysIn, BeforeMonth
  <2>2. BeforeMonth[m] \in Int /\ BeforeMonth[m + 1] \in Int /\ DaysIn(y, m) \in Int
    BY <1>6 DEF BeforeMonth, DaysIn
  <2>3. m + 1 \in 1 .. 12
    BY <1>6
  <2> HIDE DEF leap
  <2>4. QED BY <1>1, <1>3, <1>6, <2>1, <2>2, <2>3 DEF NextFirst
<1>7. QED BY <1>5, <1>6

\* A year has 365 or 366 days from a month's first day to the same day.
LEMMA YearIs ==
  ASSUME NEW y \in Int, NEW m \in 1 .. 12
  PROVE  Ordinal(Date(y + 1, m, 1)) - Ordinal(Date(y, m, 1)) \in 365 .. 366
<1> DEFINE cycle(x) == x \div 4 - x \div 100 + x \div 400
           leap(x) == IF m > 2 /\ Leap(x) THEN 1 ELSE 0
<1>1. Ordinal(Date(y, m, 1)) = 365 * y + cycle(y - 1) + BeforeMonth[m] + leap(y) + 1
  <2>1. Ordinal(Date(y, m, 1)) = 365 * y + (y - 1) \div 4 - (y - 1) \div 100 + (y - 1) \div 400
          + BeforeMonth[m] + leap(y) + 1
    BY DEF Ordinal, Date
  <2>2. BeforeMonth[m] \in Int /\ leap(y) \in Int
    BY DEF BeforeMonth
  <2>3. QED BY <2>1, <2>2
<1>2. Ordinal(Date(y + 1, m, 1)) = 365 * (y + 1) + cycle(y) + BeforeMonth[m] + leap(y + 1) + 1
  <2>1. Ordinal(Date(y + 1, m, 1)) = 365 * (y + 1) + y \div 4 - y \div 100 + y \div 400
          + BeforeMonth[m] + leap(y + 1) + 1
    <3>1. (y + 1) - 1 = y
      OBVIOUS
    <3>2. QED BY <3>1 DEF Ordinal, Date
  <2>2. BeforeMonth[m] \in Int /\ leap(y + 1) \in Int
    BY DEF BeforeMonth
  <2>3. QED BY <2>1, <2>2
<1>3. cycle(y) = cycle(y - 1) + (IF Leap(y) THEN 1 ELSE 0) /\ cycle(y - 1) \in Int
  BY LeapYear
<1>4. BeforeMonth[m] \in Int
  BY DEF BeforeMonth
<1>5. ~(Leap(y) /\ Leap(y + 1))
  <2>1. ~(y % 4 = 0 /\ (y + 1) % 4 = 0)
    OBVIOUS
  <2>2. QED BY <2>1 DEF Leap
<1> HIDE DEF cycle
<1>6. QED BY <1>1, <1>2, <1>3, <1>4, <1>5

\* A day of a month is a date.
LEMMA DateIs ==
  ASSUME NEW date, IsDate(date)
  PROVE  /\ date = Date(date.y, date.m, date.d)
         /\ date.y \in Int /\ date.m \in 1 .. 12 /\ date.d \in Int /\ date.d \in 1 .. DaysIn(date.y, date.m)
<1>1. date \in [y : Int, m : 1 .. 12, d : 1 .. 31] /\ date.d <= DaysIn(date.y, date.m)
  BY DEF IsDate
<1>2. date = [y |-> date.y, m |-> date.m, d |-> date.d]
  BY <1>1
<1>3. date.y \in Int /\ date.m \in 1 .. 12 /\ date.d \in 1 .. 31
  BY <1>1
<1>4. DaysIn(date.y, date.m) \in Int
  BY <1>3, DaysInIs
<1>5. QED BY <1>1, <1>2, <1>3, <1>4 DEF Date

\* The month that PlusDays looks for.
Within(day, f) == day - Ordinal(f) \in 0 .. DaysIn(f.y, f.m) - 1
Months(years) == {Date(y, m, 1) : y \in years, m \in 1 .. 12}

\* A month counted from year zero.
LEMMA InMonths ==
  ASSUME NEW years, NEW y \in years, NEW m \in 1 .. 12
  PROVE  Date(y, m, 1) \in Months(years)
BY DEF Months

\* A day, counted from the first of a month.
CountedFrom(day, y, m) == Date(y, m, day - Ordinal(Date(y, m, 1)) + 1)

\* A day of a month among these years is found by counting from each month.
LEMMA DayFound ==
  ASSUME NEW day \in Int, NEW years \in SUBSET Int, NEW f \in Months(years), Within(day, f)
  PROVE  /\ IsDate(FromOrdinal(day, years))
         /\ Within(day, FirstOfMonth(FromOrdinal(day, years)))
         /\ FirstOfMonth(FromOrdinal(day, years)) \in Months(years)
<1> DEFINE others == {CountedFrom(day, y, m) : y \in years, m \in 1 .. 12}
           OfMonth(other) == other.d \in 1 .. DaysIn(other.y, other.m)
           there == CHOOSE other \in others : OfMonth(other)
<1>1. FromOrdinal(day, years) = there
  BY DEF FromOrdinal, CountedFrom
<1>2. \A y \in years : y \in Int
  OBVIOUS
<1>3. ASSUME NEW y \in years, NEW m \in 1 .. 12
      PROVE  Ordinal(Date(y, m, 1)) \in Int /\ DaysIn(y, m) \in 28 .. 31
  <2>1. y \in Int /\ 1 \in Int
    BY <1>2
  <2>2. Ordinal(Date(y, m, 1)) \in Int
    BY <2>1, OrdinalIs, Zenon
  <2>3. QED BY <2>1, <2>2, DaysInIs
<1>4. ASSUME NEW y \in years, NEW m \in 1 .. 12
      PROVE  /\ CountedFrom(day, y, m).y = y /\ CountedFrom(day, y, m).m = m
             /\ CountedFrom(day, y, m) \in [y : Int, m : 1 .. 12, d : Int]
  <2> DEFINE o == Ordinal(Date(y, m, 1))
  <2>1. CountedFrom(day, y, m) = [y |-> y, m |-> m, d |-> day - o + 1]
    BY DEF CountedFrom, Date
  <2> HIDE DEF o
  <2>2. o \in Int /\ y \in Int
    BY <1>2, <1>3 DEF o
  <2>3. day - o + 1 \in Int
    BY <2>2
  <2>4. QED BY <2>1, <2>2, <2>3
<1>5. ASSUME NEW y \in years, NEW m \in 1 .. 12
      PROVE  Within(day, Date(y, m, 1)) <=> CountedFrom(day, y, m).d \in 1 .. DaysIn(y, m)
  <2>1. Date(y, m, 1).y = y /\ Date(y, m, 1).m = m
    BY DEF Date
  <2> DEFINE o == Ordinal(Date(y, m, 1))  length == DaysIn(y, m)
  <2>2. Within(day, Date(y, m, 1)) <=> day - o \in 0 .. length - 1
    BY <2>1 DEF Within
  <2>3. CountedFrom(day, y, m).d = day - o + 1
    BY DEF CountedFrom, Date
  <2>4. o \in Int /\ length \in Int
    BY <1>3
  <2> HIDE DEF o, length
  <2>5. day - o \in 0 .. length - 1 <=> day - o + 1 \in 1 .. length
    BY <2>4
  <2>6. CountedFrom(day, y, m).d \in 1 .. length <=> day - o + 1 \in 1 .. length
    BY <2>3, Zenon
  <2>7. Within(day, Date(y, m, 1)) <=> CountedFrom(day, y, m).d \in 1 .. length
    BY <2>2, <2>5, <2>6, Zenon
  <2>8. QED BY <2>7 DEF length
<1>6. \E other \in others : OfMonth(other)
  <2>1. PICK y \in years, m \in 1 .. 12 : f = Date(y, m, 1)
    BY DEF Months
  <2>2. CountedFrom(day, y, m).d \in 1 .. DaysIn(y, m)
    BY <1>5, <2>1
  <2>3. CountedFrom(day, y, m) \in others
    OBVIOUS
  <2> HIDE DEF others
  <2>4. CountedFrom(day, y, m).y = y /\ CountedFrom(day, y, m).m = m
    BY <1>4
  <2>5. OfMonth(CountedFrom(day, y, m))
    BY <2>2, <2>4, Zenon
  <2> HIDE DEF OfMonth
  <2>6. QED BY <2>3, <2>5
<1>7. there \in others /\ OfMonth(there)
  <2> HIDE DEF others, OfMonth
  <2>1. QED BY <1>6
<1> HIDE DEF there
<1>8. PICK y \in years, m \in 1 .. 12 : there = CountedFrom(day, y, m)
  BY <1>7
<1> DEFINE month == Date(y, m, 1)
<1>9. there.y = y /\ there.m = m /\ there \in [y : Int, m : 1 .. 12, d : Int]
  BY <1>4, <1>8
<1>10. there.d \in 1 .. DaysIn(y, m)
  <2>1. there.d \in 1 .. DaysIn(there.y, there.m)
    BY <1>7
  <2>2. QED BY <1>9, <2>1, Zenon
<1>11. month \in Months(years)
  BY DEF Months
<1>12. Within(day, month)
  BY <1>5, <1>8, <1>10
<1>13. FirstOfMonth(there) = month
  BY <1>8 DEF CountedFrom, Date, FirstOfMonth
<1>14. IsDate(there)
  <2> DEFINE length == DaysIn(y, m)  nth == there.d
  <2>1. nth \in 1 .. length /\ length \in 28 .. 31
    BY <1>3, <1>10
  <2> HIDE DEF length, nth
  <2>2. nth \in 1 .. 31
    BY <2>1
  <2>3. there \in [y : Int, m : 1 .. 12, d : 1 .. 31]
    BY <1>9, <2>2 DEF nth
  <2>4. QED BY <1>9, <1>10, <2>3 DEF IsDate
<1>15. QED BY <1>1, <1>11, <1>12, <1>13, <1>14

\* The first of a month is a date.
LEMMA FirstIsDate ==
  ASSUME NEW date, IsDate(date)
  PROVE  IsDate(FirstOfMonth(date)) /\ FirstOfMonth(date) = Date(date.y, date.m, 1)
<1>1. date.y \in Int /\ date.m \in 1 .. 12 /\ date = Date(date.y, date.m, date.d)
  BY DateIs, Zenon
<1>2. FirstOfMonth(Date(date.y, date.m, date.d)) = Date(date.y, date.m, 1)
  BY DEF FirstOfMonth, Date
<1>3. FirstOfMonth(date) = Date(date.y, date.m, 1)
  BY <1>1, <1>2, Zenon
<1>4. IsDate(Date(date.y, date.m, 1))
  BY <1>1, DaysInIs DEF IsDate, Date
<1>5. QED BY <1>3, <1>4, Zenon

\* Adding months ends on the first of a month (dates.py:17).
LEMMA AddMonthsIs ==
  ASSUME NEW y \in Int, NEW m \in 1 .. 12, NEW n \in Int
  PROVE  IsDate(AddMonths(Date(y, m, 1), n))
<1> DEFINE idx == y * 12 + (m - 1) + n
<1>1. idx \in Int
  OBVIOUS
<1>2. AddMonths(Date(y, m, 1), n) = Date(idx \div 12, (idx % 12) + 1, 1)
  BY DEF AddMonths, Date
<1> HIDE DEF idx
<1>3. idx \div 12 \in Int /\ (idx % 12) + 1 \in 1 .. 12
  BY <1>1
<1>4. ASSUME NEW z \in Int, NEW k \in 1 .. 12 PROVE IsDate(Date(z, k, 1))
  BY DaysInIs DEF IsDate, Date
<1>5. QED BY <1>2, <1>3, <1>4

\* The day after a date, and the day thirty days before it.
LEMMA TomorrowIs ==
  ASSUME NEW date, IsDate(date)
  PROVE  /\ IsDate(PlusDays(date, 1))
         /\ PlusDays(date, 1).m = date.m => PlusDays(date, 1).y = date.y
<1> DEFINE y == date.y  m == date.m  d == date.d
           first == Date(y, m, 1)  next == NextFirst(y, m)
           years == (date.y + 1 \div 365 - 1) .. (date.y + 1 \div 365 + 1)
           day == Ordinal(date) + 1
<1>a. PlusDays(date, 1) = FromOrdinal(day, years)
  BY DEF PlusDays
<1>0. date = Date(y, m, d)
  BY DateIs, Zenon
<1>1. y \in Int /\ m \in 1 .. 12 /\ d \in Int /\ d \in 1 .. DaysIn(y, m)
  BY DateIs, Zenon
<1> HIDE DEF y, m, d
<1>2. years = y - 1 .. y + 1
  <2>1. 1 \div 365 = 0
    OBVIOUS
  <2>2. years = (y + 1 \div 365 - 1) .. (y + 1 \div 365 + 1)
    BY DEF y
  <2> HIDE DEF years
  <2>3. QED BY <1>1, <2>1, <2>2
<1> HIDE DEF years
<1>3. /\ Ordinal(first) \in Int /\ DaysIn(y, m) \in 28 .. 31
      /\ day = Ordinal(first) + d
      /\ Ordinal(next) = Ordinal(first) + DaysIn(y, m)
  <2>1. /\ Ordinal(Date(y, m, d)) \in Int /\ Ordinal(Date(y, m, 1)) \in Int
        /\ Ordinal(Date(y, m, d)) = Ordinal(Date(y, m, 1)) + d - 1
    <3>1. 1 \in Int
      OBVIOUS
    <3>2. QED BY <1>1, <3>1, OrdinalIs, Zenon
  <2>2. Ordinal(date) = Ordinal(first) + d - 1
    BY <1>0, <2>1, Zenon
  <2>3. DaysIn(y, m) \in 28 .. 31
    BY <1>1, DaysInIs
  <2>4. Ordinal(next) = Ordinal(first) + DaysIn(y, m)
    BY <1>1, NextFirstIs
  <2>5. Ordinal(first) \in Int
    BY <2>1
  <2> HIDE DEF first, next
  <2>6. QED BY <1>1, <2>2, <2>3, <2>4, <2>5
<1>4. \E f \in Months(years) : Within(day, f)
  <2>1. CASE d < DaysIn(y, m)
    <3>1. first \in Months(years)
      <4>1. y \in years
        BY <1>1, <1>2
      <4>2. QED BY <1>1, <4>1, InMonths, Zenon
    <3>2. Within(day, first)
      <4>1. first.y = y /\ first.m = m
        BY DEF Date
      <4> HIDE DEF first, next, day
      <4>2. QED BY <1>1, <1>3, <2>1, <4>1 DEF Within
    <3>3. QED BY <3>1, <3>2
  <2>2. CASE d = DaysIn(y, m)
    <3>1. next \in Months(years)
      <4>1. y \in years /\ y + 1 \in years /\ 1 \in 1 .. 12 /\ (m # 12 => m + 1 \in 1 .. 12)
        BY <1>1, <1>2
      <4>2. CASE m = 12
        <5>1. next = Date(y + 1, 1, 1)
          BY <4>2 DEF NextFirst
        <5>2. QED BY <4>1, <5>1, InMonths, Zenon
      <4>3. CASE m # 12
        <5>1. next = Date(y, m + 1, 1)
          BY <4>3 DEF NextFirst
        <5>2. QED BY <4>1, <4>3, <5>1, InMonths, Zenon
      <4>4. QED BY <4>2, <4>3
    <3>2. DaysIn(next.y, next.m) \in 28 .. 31
      BY <1>1, DaysInIs DEF NextFirst, Date
    <3> HIDE DEF first, next, day
    <3>3. Within(day, next)
      BY <1>1, <1>3, <2>2, <3>2 DEF Within
    <3>4. QED BY <3>1, <3>3
  <2>3. QED BY <1>1, <1>3, <2>1, <2>2
<1>5. /\ IsDate(PlusDays(date, 1))
      /\ Within(day, FirstOfMonth(PlusDays(date, 1)))
      /\ FirstOfMonth(PlusDays(date, 1)) \in Months(years)
  <2>1. years \in SUBSET Int
    BY <1>1, <1>2
  <2>2. day \in Int
    <3> HIDE DEF day, first, next
    <3>1. QED BY <1>1, <1>3
  <2> HIDE DEF day
  <2>3. PICK f \in Months(years) : Within(day, f)
    BY <1>4
  <2> DEFINE there == FromOrdinal(day, years)
  <2>4. IsDate(there) /\ Within(day, FirstOfMonth(there)) /\ FirstOfMonth(there) \in Months(years)
    BY <2>1, <2>2, <2>3, DayFound
  <2>5. QED BY <1>a, <2>4, Zenon
<1> DEFINE tomorrow == PlusDays(date, 1)
<1>6. ASSUME tomorrow.m = m PROVE tomorrow.y = y
  <2>1. FirstOfMonth(tomorrow) = Date(tomorrow.y, m, 1) /\ tomorrow.y \in Int
    <3>1. FirstOfMonth(tomorrow) = Date(tomorrow.y, tomorrow.m, 1)
      BY <1>5, FirstIsDate, Zenon
    <3>2. tomorrow.y \in Int
      BY <1>5, DateIs, Zenon
    <3> HIDE DEF tomorrow
    <3>3. QED BY <1>6, <3>1, <3>2
  <2> DEFINE z == tomorrow.y
  <2>2. z \in y - 1 .. y + 1
    <3>1. PICK x \in years, k \in 1 .. 12 : FirstOfMonth(tomorrow) = Date(x, k, 1)
      BY <1>5 DEF Months
    <3>2. x = z
      <4> HIDE DEF tomorrow
      <4>1. QED BY <2>1, <3>1 DEF Date
    <3>3. QED BY <1>2, <3>1, <3>2
  <2>3. day - Ordinal(Date(z, m, 1)) \in 0 .. DaysIn(z, m) - 1
    <3>1. Within(day, Date(z, m, 1))
      BY <1>5, <2>1, Zenon
    <3>2. Date(z, m, 1).y = z /\ Date(z, m, 1).m = m
      BY DEF Date
    <3> HIDE DEF z
    <3>3. QED BY <3>1, <3>2 DEF Within
  <2> HIDE DEF z
  <2>4. /\ DaysIn(z, m) \in 28 .. 31
        /\ Ordinal(Date(z, m, 1)) \in Int
    <3>1. z \in Int /\ 1 \in Int
      BY <1>1, <2>2
    <3>2. QED BY <1>1, <3>1, DaysInIs, OrdinalIs, Zenon
  <2>5. ASSUME z = y + 1 PROVE FALSE
    <3>1. Ordinal(Date(z, m, 1)) - Ordinal(Date(y, m, 1)) \in 365 .. 366
      BY <1>1, <2>5, YearIs
    <3> HIDE DEF day
    <3>2. QED BY <1>1, <1>3, <2>3, <2>4, <3>1
  <2>6. ASSUME z = y - 1 PROVE FALSE
    <3>1. y - 1 \in Int /\ (y - 1) + 1 = y
      BY <1>1
    <3>2. Ordinal(Date((y - 1) + 1, m, 1)) - Ordinal(Date(y - 1, m, 1)) \in 365 .. 366
      BY <1>1, <3>1, YearIs, Zenon
    <3>3. Ordinal(Date(y, m, 1)) - Ordinal(Date(z, m, 1)) \in 365 .. 366
      BY <2>6, <3>1, <3>2
    <3> HIDE DEF day
    <3>4. QED BY <1>1, <1>3, <2>3, <2>4, <3>3
  <2>7. z = y
    <3>1. z # y + 1 /\ z # y - 1
      BY <2>5, <2>6, Zenon
    <3>2. QED BY <1>1, <2>2, <3>1
  <2>8. QED BY <2>7 DEF z
<1>7. QED BY <1>5, <1>6 DEF m, y

\* The month before, as a year and a month.
PrevYear(y, m)  == IF m = 1 THEN y - 1 ELSE y
PrevMonth(m)    == IF m = 1 THEN 12 ELSE m - 1

\* The month before is the one that one month less leads to.
LEMMA PrevIs ==
  ASSUME NEW y \in Int, NEW m \in 1 .. 12
  PROVE  /\ PrevYear(y, m) \in Int /\ PrevYear(y, m) \in y - 1 .. y /\ PrevMonth(m) \in 1 .. 12
         /\ m # 1 => PrevYear(y, m) = y
         /\ NextFirst(PrevYear(y, m), PrevMonth(m)) = Date(y, m, 1)
<1>1. PrevYear(y, m) \in Int /\ PrevYear(y, m) \in y - 1 .. y /\ PrevMonth(m) \in 1 .. 12
  BY DEF PrevYear, PrevMonth
<1>2. CASE m = 1
  <2>1. (y - 1) + 1 = y
    OBVIOUS
  <2>2. QED BY <1>1, <1>2, <2>1 DEF NextFirst, PrevYear, PrevMonth
<1>3. CASE m # 1
  <2>1. m - 1 # 12 /\ (m - 1) + 1 = m
    BY <1>3
  <2>2. QED BY <1>1, <1>3, <2>1 DEF NextFirst, PrevYear, PrevMonth
<1>4. QED BY <1>2, <1>3

\* Thirty days ago was a date.
LEMMA ThirtyDaysAgoIs ==
  ASSUME NEW date, IsDate(date)
  PROVE  IsDate(PlusDays(date, -30))
<1> DEFINE y == date.y  m == date.m  d == date.d
           y1 == PrevYear(y, m)    m1 == PrevMonth(m)
           y2 == PrevYear(y1, m1)  m2 == PrevMonth(m1)
           years == (date.y + (-30) \div 365 - 1) .. (date.y + (-30) \div 365 + 1)
           day == Ordinal(date) + (-30)
<1>a. PlusDays(date, -30) = FromOrdinal(day, years)
  BY DEF PlusDays
<1>0. date = Date(y, m, d)
  BY DateIs, Zenon
<1>1. y \in Int /\ m \in 1 .. 12 /\ d \in Int /\ d \in 1 .. DaysIn(y, m)
  BY DateIs, Zenon
<1> HIDE DEF y, m, d
<1>2. /\ y1 \in Int /\ y1 \in y - 1 .. y /\ m1 \in 1 .. 12 /\ NextFirst(y1, m1) = Date(y, m, 1)
      /\ m # 1 => y1 = y
  BY <1>1, PrevIs, Zenon
<1>3. m1 = 2 => m # 1
  BY <1>1 DEF PrevMonth
<1> HIDE DEF y1, m1
<1>4. /\ y2 \in Int /\ y2 \in y1 - 1 .. y1 /\ m2 \in 1 .. 12 /\ NextFirst(y2, m2) = Date(y1, m1, 1)
      /\ m1 # 1 => y2 = y1
  BY <1>2, PrevIs, Zenon
<1>5. m1 = 2 => m2 = 1
  BY DEF PrevMonth
<1> HIDE DEF y2, m2
<1>6. years = y - 2 .. y
  <2>1. (-30) \div 365 = -1
    <3>1. \A k \in Int : k < 0 /\ k >= -365 => k \div 365 = -1
      OBVIOUS
    <3>2. -30 \in Int /\ -30 < 0 /\ -30 >= -365
      OBVIOUS
    <3>3. QED BY <3>1, <3>2, Zenon
  <2>2. years = (y + (-30) \div 365 - 1) .. (y + (-30) \div 365 + 1)
    BY DEF y
  <2> HIDE DEF years
  <2>3. QED BY <1>1, <2>1, <2>2
<1> HIDE DEF years
<1> DEFINE o == Ordinal(Date(y, m, 1))  o1 == Ordinal(Date(y1, m1, 1))  o2 == Ordinal(Date(y2, m2, 1))
<1>7. o \in Int /\ o1 \in Int /\ o2 \in Int
  <2>1. 1 \in Int
    OBVIOUS
  <2>2. QED BY <1>1, <1>2, <1>4, <2>1, OrdinalIs, Zenon
<1>8. day = o + d - 31
  <2>1. Ordinal(Date(y, m, d)) = o + d - 1
    BY <1>1, OrdinalIs, Zenon
  <2>2. Ordinal(date) = o + d - 1
    BY <1>0, <2>1, Zenon
  <2> HIDE DEF o
  <2>3. QED BY <1>1, <1>7, <2>2
<1>9. o = o1 + DaysIn(y1, m1) /\ o1 = o2 + DaysIn(y2, m2)
  BY <1>2, <1>4, NextFirstIs
<1>10. /\ DaysIn(y, m) \in 28 .. 31 /\ DaysIn(y1, m1) \in 28 .. 31 /\ DaysIn(y2, m2) \in 28 .. 31
       /\ m1 # 2 => DaysIn(y1, m1) \in 30 .. 31
       /\ m1 = 2 => DaysIn(y2, m2) = 31
  <2>1. m2 = 1 => DaysIn(y2, m2) = 31
    BY DEF DaysIn
  <2>2. QED BY <1>1, <1>2, <1>4, <1>5, <2>1, DaysInIs
<1> HIDE DEF o, o1, o2, day
<1>11. \E f \in Months(years) : Within(day, f)
  <2>1. \A z, k : Date(z, k, 1).y = z /\ Date(z, k, 1).m = k
    BY DEF Date
  <2>2. CASE d = 31
    <3>1. Date(y, m, 1) \in Months(years)
      <4>1. y \in years
        BY <1>1, <1>6
      <4>2. QED BY <1>1, <4>1, InMonths, Zenon
    <3>2. day - o \in 0 .. DaysIn(y, m) - 1
      BY <1>1, <1>7, <1>8, <1>10, <2>2
    <3>3. Within(day, Date(y, m, 1))
      BY <2>1, <3>2 DEF Within, o
    <3>4. QED BY <3>1, <3>3
  <2>3. CASE d # 31 /\ d - 31 + DaysIn(y1, m1) >= 0
    <3>1. Date(y1, m1, 1) \in Months(years)
      <4>1. y1 \in years
        BY <1>1, <1>2, <1>6
      <4>2. QED BY <1>2, <4>1, InMonths, Zenon
    <3>2. day - o1 \in 0 .. DaysIn(y1, m1) - 1
      <4>1. d <= 30
        BY <1>1, <1>10, <2>3
      <4>2. day - o1 = d - 31 + DaysIn(y1, m1)
        BY <1>1, <1>7, <1>8, <1>9, <1>10
      <4>3. QED BY <1>1, <1>10, <2>3, <4>1, <4>2
    <3>3. Within(day, Date(y1, m1, 1))
      BY <2>1, <3>2 DEF Within, o1
    <3>4. QED BY <3>1, <3>3
  <2>4. CASE d # 31 /\ d - 31 + DaysIn(y1, m1) < 0
    <3>0. m1 = 2 /\ y1 = y
      <4>1. m1 = 2
        BY <1>1, <1>10, <2>4
      <4>2. QED BY <1>2, <1>3, <4>1
    <3>1. Date(y2, m2, 1) \in Months(years)
      <4>1. y2 \in years
        BY <1>1, <1>4, <1>6, <3>0
      <4>2. QED BY <1>4, <4>1, InMonths, Zenon
    <3>2. day - o2 \in 0 .. DaysIn(y2, m2) - 1
      <4>1. day - o2 = d - 31 + DaysIn(y1, m1) + DaysIn(y2, m2) /\ DaysIn(y2, m2) = 31
        BY <1>1, <1>7, <1>8, <1>9, <1>10, <3>0
      <4>2. QED BY <1>1, <1>10, <2>4, <4>1
    <3>3. Within(day, Date(y2, m2, 1))
      BY <2>1, <3>2 DEF Within, o2
    <3>4. QED BY <3>1, <3>3
  <2>5. QED BY <1>1, <1>10, <2>2, <2>3, <2>4
<1>12. years \in SUBSET Int /\ day \in Int
  BY <1>1, <1>6, <1>7, <1>8
<1>13. PICK f \in Months(years) : Within(day, f)
  BY <1>11
<1>14. IsDate(FromOrdinal(day, years))
  BY <1>12, <1>13, DayFound
<1>15. QED BY <1>a, <1>14, Zenon

-----------------------------------------------------------------------------
(* The day, the tasks and the deliveries                                   *)

\* The eight sections.
LEMMA SectionsAre ==
  /\ Len(Sections) = 8 /\ DOMAIN Sections = 1 .. 8
  /\ \A i \in 1 .. 8 : Sections[i] \in SectionSet
  /\ \A k \in SectionSet : \E i \in 1 .. 8 : k = Sections[i]
  /\ \A i, j \in 1 .. 8 : Sections[i] = Sections[j] => i = j
<1>1. Len(Sections) = 8 /\ DOMAIN Sections = 1 .. 8
  BY DEF Sections
<1>2. SectionSet = {Sections[i] : i \in 1 .. 8}
  BY <1>1 DEF SectionSet, ToSet
<1>3. \A i, j \in 1 .. 8 : Sections[i] = Sections[j] => i = j
  BY DEF Sections
<1>4. QED BY <1>1, <1>2, <1>3

\* Each section asks for a range of dates (digest.py:30).
LEMMA PeriodIs ==
  ASSUME NEW k, NEW day, IsDate(day)
  PROVE  \A date \in ToSet(Period(k, day)) : IsDate(date)
<1> DEFINE first == FirstOfMonth(day)
<1>1. IsDate(first) /\ first = Date(day.y, day.m, 1) /\ day.y \in Int /\ day.m \in 1 .. 12
  BY FirstIsDate, DateIs, Zenon
<1>2. \A n \in Int : IsDate(AddMonths(first, n))
  BY <1>1, AddMonthsIs
<1>3. IsDate(PlusDays(day, -30))
  BY ThirtyDaysAgoIs
<1>4. \A a, b : ToSet(<<a, b>>) = {a, b}
  BY DEF ToSet
<1>5. ASSUME NEW a, NEW b, IsDate(a), IsDate(b), Period(k, day) = <<a, b>>
      PROVE  \A date \in ToSet(Period(k, day)) : IsDate(date)
  BY <1>4, <1>5
<1> HIDE DEF first
<1>6. CASE k \in {"mtd", "by_service"}
  <2>1. Period(k, day) = <<first, day>>
    BY <1>6 DEF Period, ResolvePeriod, first
  <2>2. QED BY <1>1, <1>5, <2>1
<1>7. CASE k = "last_month"
  <2>1. Period(k, day) = <<AddMonths(first, -1), first>>
    BY <1>7 DEF Period, ResolvePeriod, first
  <2>2. QED BY <1>1, <1>2, <1>5, <2>1
<1>8. CASE k = "trend"
  <2>1. Period(k, day) = <<AddMonths(first, -(AtLeastOne(6) - 1)), day>>
    BY <1>8 DEF Period, ResolvePeriod, first
  <2>2. -(AtLeastOne(6) - 1) \in Int
    BY DEF AtLeastOne
  <2>3. QED BY <1>2, <1>5, <2>1, <2>2
<1>9. CASE k = "forecast"
  <2>1. Period(k, day) = <<day, AddMonths(first, 1)>>
    BY <1>9 DEF Period, ForecastPeriod, first
  <2>2. QED BY <1>2, <1>5, <2>1
<1>10. CASE k = "anomalies"
  <2>1. Period(k, day) = <<PlusDays(day, -30), day>>
    BY <1>10 DEF Period, ResolvePeriod
  <2>2. QED BY <1>3, <1>5, <2>1
<1>11. CASE k \notin {"mtd", "by_service", "last_month", "trend", "forecast", "anomalies"}
  <2>1. Period(k, day) = <<day, day>>
    BY <1>11 DEF Period
  <2>2. QED BY <1>5, <2>1
<1>12. QED BY <1>6, <1>7, <1>8, <1>9, <1>10, <1>11

-----------------------------------------------------------------------------

\* The day is the first or the next, in the same month unless one was crossed, and
\* each result is of its own section, for the period of one of the two days.
Told(k) ==
  result[k] # None =>
    /\ result[k].of = k /\ result[k].raised \in BOOLEAN
    /\ \E day \in {world.start, today} : result[k].period = Period(k, day)

DayInv ==
  /\ world \in Worlds /\ IsDate(today)
  /\ crossed \in BOOLEAN
  /\ ~crossed => today.m = world.start.m /\ today.y = world.start.y
  /\ result = [k \in SectionSet |-> result[k]]
  /\ \A k \in SectionSet : Told(k)
  /\ collected \in 0 .. 8
  /\ results \in Seq({"error", "skipped", "sent"}) /\ Len(results) <= Len(world.targets)

\* The day is the first one or the one after it, and a result tells its own task and the range of one of the two.
LEMMA DayInductive == Init /\ [][Next]_vars => []DayInv
<1>1. Init => DayInv
  <2> SUFFICES ASSUME Init PROVE DayInv
    OBVIOUS
  <2>1. IsDate(world.start) /\ world.targets \in Seq(STRING)
    BY DigestAssumption DEF Init, IsWorld
  <2>2. results = <<>> /\ Len(results) = 0 /\ results \in Seq({"error", "skipped", "sent"})
    BY DEF Init
  <2>3. Len(results) <= Len(world.targets)
    BY <2>1, <2>2
  <2>4. \A k \in SectionSet : Told(k)
    BY DEF Init, Told
  <2>5. /\ world \in Worlds /\ today = world.start /\ crossed = FALSE
        /\ result = [k \in SectionSet |-> result[k]]
        /\ collected \in 0 .. 8
    BY DEF Init
  <2>6. QED BY <2>1, <2>2, <2>3, <2>4, <2>5, Zenon DEF DayInv
<1>2. DayInv /\ [Next]_vars => DayInv'
  <2> SUFFICES ASSUME DayInv, [Next]_vars PROVE DayInv'
    OBVIOUS
  <2>1. CASE UNCHANGED vars
    BY <2>1 DEF DayInv, Told, vars
  <2>2. ASSUME NEW k \in SectionSet, Run(k) PROVE DayInv'
    <3>1. \A j \in SectionSet : Told(j)'
      <4>1. ASSUME NEW j \in SectionSet, j # k PROVE result'[j] = result[j]
        BY <2>2, <4>1 DEF Run, DayInv
      <4>2. /\ result'[k].of = k /\ result'[k].raised = Raises(k, Period(k, today))
            /\ result'[k].period = Period(k, today)
        BY <2>2 DEF Run, DayInv
      <4>3. Raises(k, Period(k, today)) \in BOOLEAN
        BY Zenon DEF Raises
      <4>4. UNCHANGED <<world, today>>
        BY <2>2 DEF Run
      <4>5. \A j \in SectionSet : Told(j)
        BY DEF DayInv
      <4>6. QED BY <4>1, <4>2, <4>3, <4>4, <4>5 DEF Told
    <3>2. result' = [j \in SectionSet |-> result'[j]]
      BY <2>2 DEF Run, DayInv
    <3>3. QED BY <2>2, <3>1, <3>2 DEF Run, DayInv
  <2>3. CASE Collect
    <3>1. collected' \in 0 .. 8
      BY <2>3, SectionsAre DEF Collect, DayInv
    <3>2. QED BY <2>3, <3>1 DEF Collect, DayInv, Told
  <2>4. CASE Render
    BY <2>4 DEF Render, DayInv, Told
  <2>5. CASE Deliver
    <3>1. Outcome(world.targets[Len(results) + 1]) \in {"error", "skipped", "sent"}
      BY DEF Outcome
    <3>2. world.targets \in Seq(STRING)
      BY DigestAssumption DEF DayInv, IsWorld
    <3> DEFINE E == {"error", "skipped", "sent"}
    <3>3. results \in Seq(E) /\ Len(results) < Len(world.targets)
      BY <2>5 DEF Deliver, DayInv
    <3>4. results' \in Seq(E) /\ Len(results') = Len(results) + 1
      <4>1. results' = Append(results, Outcome(world.targets[Len(results) + 1]))
        BY <2>5 DEF Deliver
      <4> HIDE DEF E
      <4>2. QED BY <3>1, <3>3, <4>1 DEF E
    <3>5. Len(results') <= Len(world.targets)
      BY <3>2, <3>3, <3>4
    <3>6. QED BY <2>5, <3>4, <3>5 DEF Deliver, DayInv, Told
  <2>6. CASE Midnight
    <3>1. IsDate(world.start) /\ today = world.start /\ today' = PlusDays(world.start, 1)
      BY <2>6 DEF Midnight, DayInv
    <3>2. IsDate(today') /\ (today'.m = world.start.m => today'.y = world.start.y)
      BY <3>1, TomorrowIs
    <3>3. crossed' = (today'.m # world.start.m) /\ UNCHANGED <<world, result, collected, results>>
      BY <2>6, <3>1 DEF Midnight
    <3>4. \A k \in SectionSet : Told(k)'
      <4>1. \A k \in SectionSet : Told(k)
        BY DEF DayInv
      <4>2. QED BY <3>1, <3>3, <4>1 DEF Told
    <3>5. crossed' \in BOOLEAN
      BY <3>3
    <3>6. QED BY <3>2, <3>3, <3>4, <3>5 DEF DayInv
  <2>7. QED BY <2>1, <2>2, <2>3, <2>4, <2>5, <2>6 DEF Next
<1>3. QED BY <1>1, <1>2, PTL

\* TypeOK (dates.py:13-66): every date a section is asked for is one of the
\* calendar, across months, years and the night in which the digest is made.
THEOREM DigestIsTyped == Spec => []TypeOK
<1>1. DayInv => TypeOK
  <2> SUFFICES ASSUME DayInv PROVE TypeOK
    OBVIOUS
  <2>1. IsDate(world.start) /\ IsDate(today)
    BY DigestAssumption DEF DayInv, IsWorld
  <2>2. \A k, day : IsDate(day) => \A date \in ToSet(Period(k, day)) : IsDate(date)
    BY PeriodIs
  <2>3. ASSUME NEW k \in SectionSet, result[k] # None, NEW date \in ToSet(result[k].period)
        PROVE  date.m \in 1 .. 12 /\ date.d \in 1 .. DaysIn(date.y, date.m)
    <3>1. IsDate(date)
      BY <2>1, <2>2, <2>3 DEF DayInv, Told
    <3>2. QED BY <3>1, DateIs, Zenon
  <2>4. QED BY <2>3, SectionsAre DEF TypeOK, DayInv, Told
<1>2. QED BY <1>1, DayInductive, PTL DEF Spec

-----------------------------------------------------------------------------
(* What was collected of the tasks                                         *)

\* What was collected for a section: its own result, or one error.
Failures(k) == {f \in DOMAIN errors : errors[f] = k}
Own(k) ==
  /\ result[k] # None
  /\ IF out[k] = None
     THEN result[k].raised /\ \E e \in DOMAIN errors : Failures(k) = {e}
     ELSE out[k] = result[k] /\ k \notin ToSet(errors)

ErrorsAreCollected == \A e \in DOMAIN errors : \E a \in 1 .. collected : errors[e] = Sections[a]
ErrorsAreOrdered ==
  \A i, j \in DOMAIN errors : i < j =>
    \E a, b \in 1 .. collected : a < b /\ Sections[a] = errors[i] /\ Sections[b] = errors[j]

OwnInv ==
  /\ out = [k \in SectionSet |-> out[k]] /\ errors \in Seq(SectionSet)
  /\ \A i \in 1 .. collected : Own(Sections[i])
  /\ ErrorsAreCollected /\ ErrorsAreOrdered

\* A section that was collected is its own, whatever is collected next.
LEMMA OwnInductive == Init /\ [][Next]_vars => []OwnInv
<1>1. Init => OwnInv
  <2> SUFFICES ASSUME Init PROVE OwnInv
    OBVIOUS
  <2>1. errors = <<>> /\ errors \in Seq(SectionSet) /\ DOMAIN errors = {} /\ 1 .. collected = {}
    BY DEF Init
  <2>2. out = [k \in SectionSet |-> out[k]]
    BY DEF Init
  <2>3. \A i \in 1 .. collected : Own(Sections[i])
    BY <2>1
  <2>4. ErrorsAreCollected /\ ErrorsAreOrdered
    BY <2>1 DEF ErrorsAreCollected, ErrorsAreOrdered
  <2>5. errors \in Seq(SectionSet)
    BY <2>1, Zenon
  <2>6. QED BY <2>2, <2>3, <2>4, <2>5, Zenon DEF OwnInv
<1>2. DayInv /\ OwnInv /\ [Next]_vars => OwnInv'
  <2> SUFFICES ASSUME DayInv, OwnInv, [Next]_vars PROVE OwnInv'
    OBVIOUS
  <2>0. collected \in 0 .. 8 /\ \A k \in SectionSet : Told(k)
    BY DEF DayInv
  <2>1. CASE UNCHANGED <<collected, out, errors, result>>
    <3>1. \A i \in 1 .. collected : Own(Sections[i])
      BY DEF OwnInv
    <3>2. \A i \in 1 .. collected' : Own(Sections[i])'
      BY <2>1, <3>1 DEF Own, Failures
    <3>3. (ErrorsAreCollected /\ ErrorsAreOrdered)'
      BY <2>1 DEF OwnInv, ErrorsAreCollected, ErrorsAreOrdered
    <3>4. (out = [k \in SectionSet |-> out[k]] /\ errors \in Seq(SectionSet))'
      BY <2>1 DEF OwnInv
    <3>5. QED BY <3>2, <3>3, <3>4 DEF OwnInv
  <2>2. ASSUME NEW k \in SectionSet, Run(k) PROVE OwnInv'
    <3>1. UNCHANGED <<collected, out, errors>> /\ result[k] = None
          /\ \A j \in SectionSet : j # k => result'[j] = result[j]
      BY <2>2 DEF Run, DayInv
    <3>2. ASSUME NEW i \in 1 .. collected PROVE Own(Sections[i])'
      <4>0. PICK j \in SectionSet : j = Sections[i]
        BY <2>0, SectionsAre
      <4>1. Own(j) /\ j # k
        BY <3>1, <4>0 DEF OwnInv, Own
      <4>2. result'[j] = result[j] /\ out'[j] = out[j] /\ UNCHANGED errors
        BY <3>1, <4>1
      <4>3. Own(j)'
        BY <4>1, <4>2 DEF Own, Failures
      <4>4. QED BY <4>0, <4>3
    <3>3. QED BY <3>1, <3>2 DEF OwnInv, ErrorsAreCollected, ErrorsAreOrdered
  <2>3. CASE Collect
    <3>a. PICK c \in 1 .. 8 : c = collected + 1
      BY <2>0, <2>3, SectionsAre DEF Collect
    <3>b. PICK k \in SectionSet : k = Sections[c]
      BY SectionsAre
    <3>1. /\ c \in 1 .. 8 /\ collected' = c /\ result' = result /\ result[k] # None
          /\ out' = [out EXCEPT ![k] = IF result[k].raised THEN None ELSE result[k]]
          /\ errors' = IF result[k].raised THEN Append(errors, k) ELSE errors
      BY <2>3, <3>a, <3>b DEF Collect, Taken
    <3>2. k \in SectionSet /\ \A i \in 1 .. collected : Sections[i] \in SectionSet /\ Sections[i] # k
      <4>1. \A i \in 1 .. collected : i \in 1 .. 8 /\ i # c
        BY <2>0, <3>a
      <4>2. QED BY <3>b, <4>1, SectionsAre
    <3>3. k \notin ToSet(errors) /\ Failures(k) = {}
      BY <3>2 DEF OwnInv, ErrorsAreCollected, ToSet, Failures
    <3>4. collected \in Int /\ 1 .. collected \subseteq 1 .. c /\ c \in 1 .. c /\ 1 .. c = 1 .. collected \cup {c}
      BY <2>0, <3>a
    <3>5. /\ out'[k] = IF result[k].raised THEN None ELSE result[k]
          /\ \A j \in SectionSet : j # k => out'[j] = out[j]
          /\ out' = [j \in SectionSet |-> out'[j]]
      BY <3>1, <3>2 DEF OwnInv
    <3>6. result[k].raised \in BOOLEAN
      BY <2>0, <3>1, <3>2 DEF Told
    <3>7. CASE ~result[k].raised
      <4>1. errors' = errors /\ out'[k] = result[k]
        BY <3>1, <3>5, <3>7
      <4>2. Own(k)'
        BY <3>1, <3>3, <4>1 DEF Own
      <4>3. ASSUME NEW i \in 1 .. collected PROVE Own(Sections[i])'
        <5>1. Own(Sections[i])
          BY DEF OwnInv
        <5>2. out'[Sections[i]] = out[Sections[i]]
          BY <3>2, <3>5
        <5>3. QED BY <3>1, <4>1, <5>1, <5>2 DEF Own, Failures
      <4>4. \A i \in 1 .. c : Own(Sections[i])'
        BY <3>4, <4>2, <4>3, <3>b
      <4>5. (ErrorsAreCollected /\ ErrorsAreOrdered)'
        <5>1. errors' = errors /\ collected' = c /\ \A a \in 1 .. collected : a \in 1 .. c
          BY <3>1, <3>4, <4>1
        <5>2. ASSUME NEW e \in DOMAIN errors' PROVE \E a \in 1 .. c : errors'[e] = Sections[a]
          <6>1. PICK a \in 1 .. collected : errors[e] = Sections[a]
            BY <5>1 DEF OwnInv, ErrorsAreCollected
          <6>2. QED BY <5>1, <6>1
        <5>3. ASSUME NEW i \in DOMAIN errors', NEW j \in DOMAIN errors', i < j
              PROVE  \E a, b \in 1 .. c : a < b /\ Sections[a] = errors'[i] /\ Sections[b] = errors'[j]
          <6>1. PICK a, b \in 1 .. collected : a < b /\ Sections[a] = errors[i] /\ Sections[b] = errors[j]
            BY <5>1, <5>3 DEF OwnInv, ErrorsAreOrdered
          <6>2. QED BY <5>1, <6>1
        <5>4. ErrorsAreCollected' /\ ErrorsAreOrdered'
          <6>1. collected' = c
            BY <5>1
          <6>2. ErrorsAreCollected'
            BY <5>2, <6>1, Zenon DEF ErrorsAreCollected
          <6>3. ErrorsAreOrdered'
            BY <5>3, <6>1, Zenon DEF ErrorsAreOrdered
          <6>4. QED BY <6>2, <6>3
        <5>5. QED BY <5>4
      <4>6. errors' \in Seq(SectionSet)
        BY <4>1 DEF OwnInv
      <4>7. QED BY <3>1, <3>5, <4>4, <4>5, <4>6 DEF OwnInv
    <3>8. CASE result[k].raised
      <4>0. PICK n \in Nat : n = Len(errors) + 1
        BY DEF OwnInv
      <4>1. /\ errors \in Seq(SectionSet) /\ errors' = Append(errors, k) /\ errors' \in Seq(SectionSet)
            /\ DOMAIN errors' = 1 .. n /\ DOMAIN errors = 1 .. n - 1 /\ n \in Nat /\ n > 0
            /\ errors'[n] = k /\ \A e \in 1 .. n - 1 : errors'[e] = errors[e]
        <5>1. errors \in Seq(SectionSet) /\ errors' = Append(errors, k)
          BY <3>1, <3>8 DEF OwnInv
        <5>2. QED BY <4>0, <5>1
      <4>2. DOMAIN errors' = DOMAIN errors \cup {n} /\ n \notin DOMAIN errors /\ n \in DOMAIN errors'
        BY <4>1
      <4>3. Failures(k)' = {n}
        <5>1. \A f \in DOMAIN errors' : errors'[f] = k <=> f = n
          BY <3>3, <4>1, <4>2 DEF Failures
        <5>2. QED BY <4>2, <5>1 DEF Failures
      <4>4. out'[k] = None
        BY <3>5, <3>8
      <4>5. Own(k)'
        BY <3>1, <3>8, <4>2, <4>3, <4>4 DEF Own
      <4>6. ASSUME NEW i \in 1 .. collected PROVE Own(Sections[i])'
        <5>0. PICK j \in SectionSet : j = Sections[i]
          BY <3>2
        <5>1. Own(j) /\ j # k /\ out'[j] = out[j]
          BY <3>2, <3>5, <5>0 DEF OwnInv
        <5>2. Failures(j)' = Failures(j)
          BY <4>1, <4>2, <5>1 DEF Failures
        <5>3. j \notin ToSet(errors) => j \notin ToSet(errors')
          BY <4>1, <4>2, <5>1 DEF ToSet
        <5>4. Own(j)'
          BY <3>1, <4>2, <5>1, <5>2, <5>3 DEF Own
        <5>5. QED BY <5>0, <5>4
      <4>7. \A i \in 1 .. c : Own(Sections[i])'
        BY <3>4, <4>5, <4>6, <3>b
      <4>8. ASSUME NEW e \in DOMAIN errors' PROVE \E a \in 1 .. c : errors'[e] = Sections[a]
        <5>1. CASE e = n
          BY <3>4, <4>1, <5>1, <3>b
        <5>2. CASE e # n
          BY <3>4, <4>1, <4>2, <5>2 DEF OwnInv, ErrorsAreCollected
        <5>3. QED BY <5>1, <5>2
      <4>9. ASSUME NEW i \in DOMAIN errors', NEW j \in DOMAIN errors', i < j
            PROVE  \E a, b \in 1 .. c : a < b /\ Sections[a] = errors'[i] /\ Sections[b] = errors'[j]
        <5>1. i # n /\ i \in DOMAIN errors /\ errors'[i] = errors[i]
          BY <4>1, <4>2, <4>9
        <5>2. CASE j = n
          <6>1. PICK a \in 1 .. collected : Sections[a] = errors'[i]
            BY <5>1 DEF OwnInv, ErrorsAreCollected
          <6>2. a < c /\ Sections[c] = errors'[j]
            <7>1. errors'[j] = Sections[c]
              BY <3>b, <4>1, <5>2
            <7>2. QED BY <2>0, <3>a, <7>1
          <6>3. QED BY <3>4, <6>1, <6>2
        <5>3. CASE j # n
          <6>1. j \in DOMAIN errors /\ errors'[j] = errors[j]
            BY <4>1, <4>2, <5>3
          <6>2. QED BY <3>4, <4>9, <5>1, <6>1 DEF OwnInv, ErrorsAreOrdered
        <5>4. QED BY <5>2, <5>3
      <4>10. ErrorsAreCollected' /\ ErrorsAreOrdered'
        <5>1. collected' = c
          BY <3>1
        <5>2. ErrorsAreCollected'
          BY <4>8, <5>1, Zenon DEF ErrorsAreCollected
        <5>3. ErrorsAreOrdered'
          BY <4>9, <5>1, Zenon DEF ErrorsAreOrdered
        <5>4. QED BY <5>2, <5>3
      <4>11. errors' \in Seq(SectionSet)
        BY <4>1
      <4>12. QED BY <3>1, <3>5, <4>7, <4>10, <4>11 DEF OwnInv
    <3>9. QED BY <3>6, <3>7, <3>8
  <2>4. QED
    <3>1. Render \/ Deliver \/ Midnight \/ UNCHANGED vars => UNCHANGED <<collected, out, errors, result>>
      BY DEF Render, Deliver, Midnight, vars
    <3>2. QED BY <2>1, <2>2, <2>3, <3>1 DEF Next
<1>3. QED BY <1>1, <1>2, DayInductive, PTL

\* SectionsAreTheirOwn (digest.py:43): in whatever order the tasks end, a section
\* has what its own task returned or exactly one error, in the order of sections.
THEOREM SectionsStayTheirOwn == Spec => []SectionsAreTheirOwn
<1>1. DayInv /\ OwnInv => SectionsAreTheirOwn
  <2> SUFFICES ASSUME DayInv, OwnInv PROVE SectionsAreTheirOwn
    OBVIOUS
  <2>1. collected \in 0 .. 8 /\ 1 .. collected \subseteq DOMAIN Sections
    BY SectionsAre DEF DayInv
  <2>2. QED BY <2>1 DEF OwnInv, Own, Failures, ErrorsAreOrdered, SectionsAreTheirOwn
<1>2. QED BY <1>1, DayInductive, OwnInductive, PTL DEF Spec

-----------------------------------------------------------------------------
(* The months that are compared                                            *)

\* The range of the last month ends where the month to date begins (dates.py:39, :53).
LEMMA MonthBeforeIs ==
  ASSUME NEW y \in Int, NEW m \in 1 .. 12
  PROVE  AddMonths(Date(y, m, 1), -1) = Date(IF m = 1 THEN y - 1 ELSE y, IF m = 1 THEN 12 ELSE m - 1, 1)
<1> DEFINE idx == y * 12 + (m - 1) + (-1)
<1>1. AddMonths(Date(y, m, 1), -1) = Date(idx \div 12, (idx % 12) + 1, 1)
  BY DEF AddMonths, Date
<1>2. CASE m = 1
  <2>1. idx = (y - 1) * 12 + 11
    BY <1>2
  <2>2. idx \div 12 = y - 1 /\ idx % 12 = 11
    <3> HIDE DEF idx
    <3>1. QED BY <2>1
  <2> HIDE DEF idx
  <2>3. QED BY <1>1, <1>2, <2>2
<1>3. CASE m # 1
  <2>1. idx = y * 12 + (m - 2) /\ m - 2 \in 0 .. 10
    BY <1>3
  <2>2. idx \div 12 = y /\ idx % 12 = m - 2
    <3> HIDE DEF idx
    <3>1. QED BY <2>1
  <2>3. (m - 2) + 1 = m - 1
    OBVIOUS
  <2> HIDE DEF idx
  <2>4. QED BY <1>1, <1>3, <2>2, <2>3
<1>4. QED BY <1>2, <1>3

\* The months compared adjoin, unless one ended: both tasks then asked in one month.
LEMMA MonthsAdjoin == DayInv /\ OwnInv => ComparesAdjoiningMonths
<1> SUFFICES ASSUME DayInv, OwnInv, Gathered, ~crossed, out["mtd"] # None, out["last_month"] # None
             PROVE  LET mtd  == out["mtd"].period
                        last == out["last_month"].period IN
                    /\ last[2] = mtd[1]
                    /\ last[1].d = 1
                    /\ ToSet(<<last[1].m, mtd[1].m>>) = {mtd[1].m, IF mtd[1].m = 1 THEN 12 ELSE mtd[1].m - 1}
                    /\ mtd[1].y - last[1].y = IF mtd[1].m = 1 THEN 1 ELSE 0
  BY DEF ComparesAdjoiningMonths
<1> DEFINE y == world.start.y  m == world.start.m
<1>1. y \in Int /\ m \in 1 .. 12 /\ IsDate(world.start) /\ IsDate(today) /\ today.y = y /\ today.m = m
  <2>1. IsDate(world.start)
    BY DigestAssumption DEF DayInv, IsWorld
  <2>2. QED BY <2>1, DateIs, Zenon DEF DayInv
<1>2. \A day \in {world.start, today} : FirstOfMonth(day) = Date(y, m, 1)
  BY <1>1, FirstIsDate
<1> HIDE DEF y, m
<1>3. out["mtd"] = result["mtd"] /\ out["last_month"] = result["last_month"]
      /\ result["mtd"] # None /\ result["last_month"] # None
  <2>1. Sections[1] = "mtd" /\ Sections[2] = "last_month" /\ Len(Sections) = 8
    BY DEF Sections
  <2>2. 1 \in 1 .. collected /\ 2 \in 1 .. collected
    BY <2>1 DEF Gathered
  <2>3. Own(Sections[1]) /\ Own(Sections[2])
    BY <2>2 DEF OwnInv
  <2>4. QED BY <2>1, <2>3 DEF Own
<1>4. Told("mtd") /\ Told("last_month")
  <2>1. "mtd" \in SectionSet /\ "last_month" \in SectionSet
    BY DEF SectionSet, Sections, ToSet
  <2>2. QED BY <2>1 DEF DayInv
<1>5. PICK d1 \in {world.start, today} : result["mtd"].period = Period("mtd", d1)
  BY <1>3, <1>4 DEF Told
<1>6. PICK d2 \in {world.start, today} : result["last_month"].period = Period("last_month", d2)
  BY <1>3, <1>4 DEF Told
<1>7. Period("mtd", d1) = <<Date(y, m, 1), d1>>
  BY <1>2 DEF Period, ResolvePeriod
<1> DEFINE before == Date(IF m = 1 THEN y - 1 ELSE y, IF m = 1 THEN 12 ELSE m - 1, 1)
<1>8. Period("last_month", d2) = <<before, Date(y, m, 1)>>
  <2>1. Period("last_month", d2) = <<AddMonths(FirstOfMonth(d2), -1), FirstOfMonth(d2)>>
    BY DEF Period, ResolvePeriod
  <2>2. AddMonths(Date(y, m, 1), -1) = before
    BY <1>1, MonthBeforeIs
  <2>3. QED BY <1>2, <2>1, <2>2
<1>9. /\ out["mtd"].period[1] = Date(y, m, 1)
      /\ out["last_month"].period[1] = before /\ out["last_month"].period[2] = Date(y, m, 1)
  <2> HIDE DEF before
  <2>1. QED BY <1>3, <1>5, <1>6, <1>7, <1>8
<1>10. \A a, b, c : Date(a, b, c).y = a /\ Date(a, b, c).m = b /\ Date(a, b, c).d = c
  BY DEF Date
<1> DEFINE bm == IF m = 1 THEN 12 ELSE m - 1  by == IF m = 1 THEN y - 1 ELSE y
<1>11. before.d = 1 /\ before.m = bm /\ before.y = by /\ Date(y, m, 1).y = y /\ Date(y, m, 1).m = m
  BY <1>10
<1>12. ToSet(<<bm, m>>) = {m, bm}
  <2>1. \A a, b : ToSet(<<a, b>>) = {b, a}
    BY DEF ToSet
  <2>2. QED BY <2>1, Zenon
<1>13. y - by = IF m = 1 THEN 1 ELSE 0
  BY <1>1
<1>14. bm = IF m = 1 THEN 12 ELSE m - 1
  OBVIOUS
<1> HIDE DEF before, bm, by
<1>15. QED BY <1>9, <1>11, <1>12, <1>13, <1>14

-----------------------------------------------------------------------------
(* The totals of a breakdown                                               *)

\* The totals after each line (explorer.py:157).
Adding(w, lines) ==
  /\ w[0] = <<>>
  /\ \A i \in 1 .. Len(lines) : w[i] = AddTo(w[i - 1], lines[i])

\* Adding a line leaves lines.
LEMMA AddToIs ==
  ASSUME NEW totals \in Seq(LineType), NEW line \in LineType
  PROVE  AddTo(totals, line) \in Seq(LineType)
<1>1. CASE \E i \in DOMAIN totals : totals[i].key = line.key
  <2> DEFINE added == [i \in DOMAIN totals |->
                IF totals[i].key = line.key
                THEN [totals[i] EXCEPT !.amount = @ + line.amount] ELSE totals[i]]
  <2>1. ASSUME NEW i \in DOMAIN totals PROVE added[i] \in LineType
    <3>1. \A t \in LineType : [t EXCEPT !.amount = @ + line.amount] \in LineType
      BY DEF LineType
    <3>2. totals[i] \in LineType
      OBVIOUS
    <3>3. QED BY <3>1, <3>2
  <2>2. DOMAIN totals = 1 .. Len(totals) /\ Len(totals) \in Nat
    OBVIOUS
  <2>3. added = [i \in 1 .. Len(totals) |-> added[i]]
    BY <2>2
  <2> HIDE DEF added
  <2>4. added \in Seq(LineType)
    BY <2>1, <2>2, <2>3
  <2>5. AddTo(totals, line) = added
    BY <1>1 DEF AddTo, added
  <2>6. QED BY <2>4, <2>5
<1>2. CASE ~\E i \in DOMAIN totals : totals[i].key = line.key
  <2>1. AddTo(totals, line) = Append(totals, line)
    BY <1>2 DEF AddTo
  <2>2. QED BY <2>1
<1>3. QED BY <1>1, <1>2

\* The totals of all lines come of adding one after the other.
LEMMA TotalsWalk ==
  ASSUME NEW lines \in Seq(LineType)
  PROVE  \E w : Adding(w, lines) /\ FoldLeft(AddTo, <<>>, lines) = w[Len(lines)]
<1> DEFINE n == Len(lines)
           V == Seq(LineType)
           empty == <<>>
           E(g) == [s \in SUBSET (1 .. n) |->
                      IF s = {} THEN <<>> ELSE AddTo(g[s \ {Max(s)}], lines[Max(s)])]
           h == CHOOSE g : g = E(g)
           G == [p \in (1 .. n) \X V |-> AddTo(p[2], lines[p[1]])]
<1>0. n \in Nat /\ DOMAIN lines = 1 .. n /\ empty \in V /\ \A i \in 1 .. n : lines[i] \in LineType
  OBVIOUS
<1>1. G \in [(1 .. n) \X V -> V]
  <2>1. ASSUME NEW p \in (1 .. n) \X V PROVE AddTo(p[2], lines[p[1]]) \in V
    <3>1. p[2] \in V /\ lines[p[1]] \in LineType
      BY <1>0
    <3>2. QED BY <3>1, AddToIs
  <2>2. QED BY <2>1
<1>2. \E g : g = E(g)
  <2> HIDE DEF V, n, empty
  <2>1. \A i \in 1 .. n : \A v \in V : G[<<i, v>>] = AddTo(v, lines[i])
    OBVIOUS
  <2> HIDE DEF G
  <2>2. PICK f \in [SUBSET (1 .. n) -> V] : Follows(f, 1 .. n, empty, Tops(n), G)
    BY <1>0, <1>1, FoldExists, Zenon
  <2>3. ASSUME NEW s \in SUBSET (1 .. n)
        PROVE  f[s] = IF s = {} THEN <<>> ELSE AddTo(f[s \ {Max(s)}], lines[Max(s)])
    <3>1. CASE s = {}
      BY <2>2, <3>1 DEF Follows, empty
    <3>2. CASE s # {}
      <4>1. Tops(n)[s] = Max(s) /\ Max(s) \in 1 .. n
        BY <1>0, <3>2, MaxIs DEF Tops
      <4>2. f[s \ {Max(s)}] \in V
        OBVIOUS
      <4>3. f[s] = G[<<Max(s), f[s \ {Max(s)}]>>]
        BY <2>2, <3>2, <4>1 DEF Follows
      <4>4. QED BY <2>1, <3>2, <4>1, <4>2, <4>3
    <3>3. QED BY <3>1, <3>2
  <2>4. f = E(f)
    <3>1. f = [s \in SUBSET (1 .. n) |-> f[s]]
      OBVIOUS
    <3>2. QED BY <2>3, <3>1
  <2>5. QED BY <2>4
<1>3. h = E(h)
  BY <1>2
<1>4. FoldLeft(AddTo, <<>>, lines) = h[1 .. n]
  BY <1>0 DEF FoldLeft, MapThenFoldSet
<1> DEFINE w == [i \in 0 .. n |-> h[1 .. i]]
<1>5. \A s \in SUBSET (1 .. n) :
        h[s] = IF s = {} THEN <<>> ELSE AddTo(h[s \ {Max(s)}], lines[Max(s)])
  BY <1>3
<1> HIDE DEF h
<1>6. w[0] = <<>>
  <2>1. 1 .. 0 = {} /\ {} \in SUBSET (1 .. n) /\ 0 \in 0 .. n
    BY <1>0
  <2>2. w[0] = h[{}]
    BY <2>1
  <2>3. QED BY <1>5, <2>1, <2>2
<1>7. ASSUME NEW i \in 1 .. n PROVE w[i] = AddTo(w[i - 1], lines[i])
  <2>0. i \in 0 .. n /\ i - 1 \in 0 .. n /\ i \in Nat /\ i > 0
    BY <1>0
  <2>1. w[i] = h[1 .. i] /\ w[i - 1] = h[1 .. i - 1]
    BY <2>0
  <2>2. Max(1 .. i) = i /\ (1 .. i) \ {Max(1 .. i)} = 1 .. i - 1 /\ 1 .. i # {} /\ 1 .. i \in SUBSET (1 .. n)
    <3>1. 1 .. i \in SUBSET (1 .. n)
      BY <1>0
    <3>2. QED BY <2>0, <3>1, MaxOfFirst, Zenon
  <2> HIDE DEF w
  <2>3. h[1 .. i] = AddTo(h[(1 .. i) \ {Max(1 .. i)}], lines[Max(1 .. i)])
    BY <1>5, <2>2
  <2>4. QED BY <2>1, <2>2, <2>3
<1>8. w[n] = h[1 .. n]
  BY <1>0
<1> HIDE DEF w
<1>9. Adding(w, lines)
  BY <1>6, <1>7 DEF Adding
<1>10. QED BY <1>4, <1>8, <1>9

\* What the totals of the first i lines are.
OfKey(lines, i, k) == {j \in 1 .. i : lines[j].key = k}
Keyed(t) == \A a, b \in DOMAIN t : t[a].key = t[b].key => a = b
AddsUp(t, lines, i) ==
  /\ t \in Seq(LineType) /\ Keyed(t)
  /\ \A j \in 1 .. i : \E a \in DOMAIN t : t[a].key = lines[j].key
  /\ \A a \in DOMAIN t : t[a].amount = SumFunctionOnSet(Amounts(lines), OfKey(lines, i, t[a].key))
  /\ SumFunctionOnSet(Amounts(t), DOMAIN t) = SumFunctionOnSet(Amounts(lines), 1 .. i)

\* The amounts of lines.
LEMMA AmountsAre ==
  ASSUME NEW t \in Seq(LineType)
  PROVE  /\ DOMAIN t = 1 .. Len(t) /\ IsFiniteSet(DOMAIN t) /\ DOMAIN Amounts(t) = DOMAIN t
         /\ \A a \in DOMAIN t : t[a].key \in STRING /\ t[a].amount \in Int /\ Amounts(t)[a] = t[a].amount
<1>1. DOMAIN t = 1 .. Len(t) /\ Len(t) \in Nat
  OBVIOUS
<1>2. IsFiniteSet(DOMAIN t)
  BY <1>1, FS_Interval
<1>3. ASSUME NEW a \in DOMAIN t PROVE t[a].key \in STRING /\ t[a].amount \in Int
  <2>1. t[a] \in LineType
    OBVIOUS
  <2>2. QED BY <2>1 DEF LineType
<1>4. QED BY <1>1, <1>2, <1>3 DEF Amounts

\* The next line adds its amount to the total of its key, or begins one.
LEMMA AddKeeps ==
  ASSUME NEW lines \in Seq(LineType), NEW i \in 1 .. Len(lines), NEW t, AddsUp(t, lines, i - 1)
  PROVE  AddsUp(AddTo(t, lines[i]), lines, i)
<1> DEFINE A == Amounts(lines)  line == lines[i]  u == AddTo(t, line)
           S(s) == SumFunctionOnSet(A, s)
<1>1. /\ i \in Nat /\ i - 1 \in Nat /\ 1 .. i = 1 .. i - 1 \cup {i} /\ i \notin 1 .. i - 1
      /\ \A j \in 1 .. i : j \in DOMAIN lines
  OBVIOUS
<1>2. /\ \A j \in 1 .. i : A[j] \in Int
      /\ A[i] = line.amount /\ line.amount \in Int /\ line \in LineType
  <2>1. \A j \in DOMAIN lines : A[j] = lines[j].amount /\ lines[j].amount \in Int
    BY AmountsAre
  <2>2. QED BY <1>1, <2>1
<1>3. /\ t \in Seq(LineType) /\ u \in Seq(LineType)
      /\ DOMAIN t = 1 .. Len(t) /\ Len(t) \in Nat /\ IsFiniteSet(DOMAIN t)
      /\ \A a \in DOMAIN t : t[a].amount \in Int /\ Amounts(t)[a] = t[a].amount
      /\ \A a \in DOMAIN u : u[a].amount \in Int /\ Amounts(u)[a] = u[a].amount
      /\ IsFiniteSet(DOMAIN u)
  <2>1. t \in Seq(LineType)
    BY DEF AddsUp
  <2>2. u \in Seq(LineType)
    BY <1>2, <2>1, AddToIs
  <2> HIDE DEF u
  <2>3. QED BY <2>1, <2>2, AmountsAre
<1> HIDE DEF A
<1>4. ASSUME NEW s \in SUBSET (1 .. i - 1) PROVE S(s \cup {i}) = line.amount + S(s) /\ S(s) \in Int
  <2>1. IsFiniteSet(s) /\ i \notin s /\ \A j \in s : A[j] \in Int
    <3>1. IsFiniteSet(1 .. i - 1)
      BY <1>1, FS_Interval
    <3>2. IsFiniteSet(s)
      BY <3>1, FS_Subset
    <3>3. QED BY <1>1, <1>2, <3>2
  <2>2. SumFunctionOnSet(A, s \cup {i}) = A[i] + SumFunctionOnSet(A, s)
    BY <1>2, <2>1, SumWith
  <2>3. SumFunctionOnSet(A, s) \in Int
    BY <2>1, SumIsInt
  <2>4. QED BY <1>2, <2>2, <2>3
<1>5. ASSUME NEW k
      PROVE  /\ OfKey(lines, i - 1, k) \in SUBSET (1 .. i - 1)
             /\ k # line.key => OfKey(lines, i, k) = OfKey(lines, i - 1, k)
             /\ k = line.key => OfKey(lines, i, k) = OfKey(lines, i - 1, k) \cup {i}
  BY <1>1 DEF OfKey
<1>6. ASSUME NEW k, k = line.key
      PROVE  S(OfKey(lines, i, k)) = line.amount + S(OfKey(lines, i - 1, k))
  <2> DEFINE old == OfKey(lines, i - 1, k)
  <2>1. old \in SUBSET (1 .. i - 1) /\ OfKey(lines, i, k) = old \cup {i}
    BY <1>5, <1>6
  <2> HIDE DEF old
  <2>2. S(old \cup {i}) = line.amount + S(old)
    BY <1>4, <2>1
  <2> HIDE DEF S
  <2>3. S(OfKey(lines, i, k)) = S(old \cup {i})
    BY <2>1
  <2>4. QED BY <2>2, <2>3 DEF old
<1>7. S(1 .. i) = line.amount + S(1 .. i - 1) /\ S(1 .. i - 1) \in Int
  <2> DEFINE old == 1 .. i - 1
  <2>1. old \in SUBSET old /\ 1 .. i = old \cup {i}
    BY <1>1
  <2>2. S(old \cup {i}) = line.amount + S(old) /\ S(old) \in Int
    BY <1>4
  <2> HIDE DEF old
  <2>3. S(1 .. i) = line.amount + S(old)
    BY <2>1, <2>2
  <2>4. QED BY <2>2, <2>3 DEF old
<1>8. /\ \A j \in 1 .. i - 1 : \E a \in DOMAIN t : t[a].key = lines[j].key
      /\ \A a \in DOMAIN t : t[a].amount = S(OfKey(lines, i - 1, t[a].key))
      /\ SumFunctionOnSet(Amounts(t), DOMAIN t) = S(1 .. i - 1)
      /\ Keyed(t)
  BY DEF AddsUp, A
<1>9. CASE \E a \in DOMAIN t : t[a].key = line.key
  <2>1. PICK a \in DOMAIN t : t[a].key = line.key
    BY <1>9
  <2>2. /\ DOMAIN u = DOMAIN t
        /\ \A b \in DOMAIN t : b # a => u[b] = t[b]
        /\ u[a] = [t[a] EXCEPT !.amount = @ + line.amount]
    <3>1. u = [b \in DOMAIN t |->
                IF t[b].key = line.key
                THEN [t[b] EXCEPT !.amount = @ + line.amount] ELSE t[b]]
      BY <1>9 DEF AddTo
    <3> HIDE DEF u, line
    <3>2. QED BY <1>8, <2>1, <3>1 DEF Keyed
  <2>3. u[a].key = t[a].key /\ u[a].amount = t[a].amount + line.amount
    <3>1. t[a] \in LineType
      BY <1>3
    <3>2. \A l \in LineType : \A x : [l EXCEPT !.amount = x].key = l.key /\ [l EXCEPT !.amount = x].amount = x
      BY DEF LineType
    <3> HIDE DEF u, line
    <3>3. QED BY <2>2, <3>1, <3>2
  <2> HIDE DEF u, line, S
  <2>4. \A b \in DOMAIN t : u[b].key = t[b].key
    BY <2>2, <2>3
  <2>5. Keyed(u)
    BY <1>8, <2>2, <2>4 DEF Keyed
  <2>6. \A j \in 1 .. i : \E b \in DOMAIN u : u[b].key = lines[j].key
    <3>1. ASSUME NEW j \in 1 .. i - 1 PROVE \E b \in DOMAIN u : u[b].key = lines[j].key
      BY <1>8, <2>2, <2>4
    <3>2. u[a].key = lines[i].key
      BY <2>1, <2>3 DEF line
    <3>3. QED BY <1>1, <2>2, <3>1, <3>2
  <2>7. ASSUME NEW b \in DOMAIN u PROVE u[b].amount = S(OfKey(lines, i, u[b].key))
    <3>1. CASE b = a
      <4>1. u[a].key = line.key /\ t[a].key = line.key
        BY <2>1, <2>3
      <4>2. S(OfKey(lines, i, line.key)) = line.amount + S(OfKey(lines, i - 1, line.key))
        BY <1>6
      <4>3. t[a].amount = S(OfKey(lines, i - 1, line.key)) /\ t[a].amount \in Int
        BY <1>3, <1>8, <4>1
      <4>4. u[a].amount = line.amount + t[a].amount
        BY <1>2, <2>3, <4>3
      <4>5. QED BY <3>1, <4>1, <4>2, <4>3, <4>4
    <3>2. CASE b # a
      <4>1. t[b].key # line.key /\ u[b] = t[b] /\ b \in DOMAIN t
        BY <1>8, <2>1, <2>2, <3>2 DEF Keyed
      <4>2. OfKey(lines, i, t[b].key) = OfKey(lines, i - 1, t[b].key)
        BY <1>5, <4>1
      <4>3. QED BY <1>8, <4>1, <4>2
    <3>3. QED BY <3>1, <3>2
  <2>8. SumFunctionOnSet(Amounts(u), DOMAIN u) = S(1 .. i)
    <3> DEFINE rest == DOMAIN t \ {a}
    <3>1. IsFiniteSet(rest)
      BY <1>3, FS_RemoveElement
    <3>a. IsFiniteSet(DOMAIN t) /\ \A b \in DOMAIN t : Amounts(t)[b] \in Int
      BY <1>3
    <3>b. IsFiniteSet(DOMAIN t) /\ \A b \in DOMAIN t : Amounts(u)[b] \in Int
      BY <1>3, <2>2
    <3>c. ASSUME NEW f, NEW D, IsFiniteSet(D), \A x \in D : f[x] \in Int, NEW x \in D
          PROVE  SumFunctionOnSet(f, D) = f[x] + SumFunctionOnSet(f, D \ {x})
      BY <3>c, SumOfMore
    <3>2. SumFunctionOnSet(Amounts(t), DOMAIN t) = Amounts(t)[a] + SumFunctionOnSet(Amounts(t), rest)
      BY <3>a, <3>c
    <3>3. SumFunctionOnSet(Amounts(u), DOMAIN t) = Amounts(u)[a] + SumFunctionOnSet(Amounts(u), rest)
      BY <3>b, <3>c
    <3>4. \A b \in rest : Amounts(t)[b] \in Int /\ Amounts(u)[b] = Amounts(t)[b]
      BY <1>3, <2>2
    <3>5. SumFunctionOnSet(Amounts(t), rest) = SumFunctionOnSet(Amounts(u), rest)
      BY <3>1, <3>4, SumAlike
    <3>6. SumFunctionOnSet(Amounts(t), rest) \in Int
      BY <3>1, <3>4, SumIsInt
    <3>7. Amounts(u)[a] = t[a].amount + line.amount /\ Amounts(t)[a] = t[a].amount /\ t[a].amount \in Int
      BY <1>3, <2>2, <2>3
    <3> HIDE DEF rest
    <3>8. QED BY <1>2, <1>7, <1>8, <2>2, <3>2, <3>3, <3>5, <3>6, <3>7
  <2>9. u \in Seq(LineType)
    BY <1>3
  <2>10. AddsUp(u, lines, i)
    BY <2>5, <2>6, <2>7, <2>8, <2>9, Zenon DEF AddsUp, S, A
  <2>11. QED BY <2>10 DEF u, line
<1>10. CASE ~\E a \in DOMAIN t : t[a].key = line.key
  <2>0. PICK n \in Nat : n = Len(t) + 1
    BY <1>3
  <2>1. u = Append(t, line)
    BY <1>10 DEF AddTo
  <2>2. /\ DOMAIN u = DOMAIN t \cup {n} /\ n \notin DOMAIN t /\ n \in DOMAIN u
        /\ \A b \in DOMAIN t : u[b] = t[b]
        /\ u[n] = line
    <3>1. t \in Seq(LineType) /\ line \in LineType
      BY <1>2, <1>3
    <3> HIDE DEF u, line
    <3>2. DOMAIN u = 1 .. n /\ DOMAIN t = 1 .. n - 1 /\ u[n] = line /\ \A b \in 1 .. n - 1 : u[b] = t[b]
      BY <2>0, <2>1, <3>1
    <3>3. 1 .. n = 1 .. n - 1 \cup {n} /\ n \notin 1 .. n - 1
      BY <2>0
    <3>4. QED BY <3>2, <3>3
  <2> HIDE DEF u, line, S
  <2>3. Keyed(u)
    BY <1>8, <1>10, <2>2 DEF Keyed
  <2>4. \A j \in 1 .. i : \E b \in DOMAIN u : u[b].key = lines[j].key
    <3>1. ASSUME NEW j \in 1 .. i - 1 PROVE \E b \in DOMAIN u : u[b].key = lines[j].key
      BY <1>8, <2>2
    <3>2. u[n].key = lines[i].key
      BY <2>2 DEF line
    <3>3. QED BY <1>1, <2>2, <3>1, <3>2
  <2>5. ASSUME NEW b \in DOMAIN u PROVE u[b].amount = S(OfKey(lines, i, u[b].key))
    <3>1. CASE b = n
      <4>1. OfKey(lines, i - 1, line.key) = {}
        BY <1>8, <1>10 DEF OfKey
      <4>2. S({}) = 0
        BY SumOfNone DEF S
      <4>3. S(OfKey(lines, i, line.key)) = line.amount + S(OfKey(lines, i - 1, line.key))
        BY <1>6
      <4>a. S(OfKey(lines, i - 1, line.key)) = 0
        BY <4>1, <4>2, Zenon
      <4>4. S(OfKey(lines, i, line.key)) = line.amount
        BY <1>2, <4>3, <4>a
      <4>5. u[b] = line
        BY <2>2, <3>1
      <4>6. QED BY <4>4, <4>5
    <3>2. CASE b # n
      <4>1. t[b].key # line.key /\ u[b] = t[b] /\ b \in DOMAIN t
        BY <1>10, <2>2, <3>2
      <4>2. OfKey(lines, i, t[b].key) = OfKey(lines, i - 1, t[b].key)
        BY <1>5, <4>1
      <4>3. QED BY <1>8, <4>1, <4>2
    <3>3. QED BY <3>1, <3>2
  <2>6. SumFunctionOnSet(Amounts(u), DOMAIN u) = S(1 .. i)
    <3>1. \A b \in DOMAIN t : Amounts(t)[b] \in Int /\ Amounts(u)[b] = Amounts(t)[b]
      BY <1>3, <2>2
    <3>2. SumFunctionOnSet(Amounts(t), DOMAIN t) = SumFunctionOnSet(Amounts(u), DOMAIN t)
      BY <1>3, <3>1, SumAlike
    <3>3. Amounts(u)[n] = line.amount /\ \A b \in DOMAIN t : Amounts(u)[b] \in Int
      BY <1>3, <2>2, <3>1
    <3>4. SumFunctionOnSet(Amounts(u), DOMAIN t \cup {n}) = Amounts(u)[n] + SumFunctionOnSet(Amounts(u), DOMAIN t)
      BY <1>2, <1>3, <2>2, <3>3, SumWith
    <3> DEFINE more == DOMAIN t \cup {n}
    <3>5. DOMAIN u = more /\ SumFunctionOnSet(Amounts(u), more) = Amounts(u)[n] + SumFunctionOnSet(Amounts(u), DOMAIN t)
      BY <2>2, <3>4
    <3> HIDE DEF more
    <3>6. QED BY <1>7, <1>8, <3>2, <3>3, <3>5
  <2>7. u \in Seq(LineType)
    BY <1>3
  <2>8. AddsUp(u, lines, i)
    BY <2>3, <2>4, <2>5, <2>6, <2>7, Zenon DEF AddsUp, S, A
  <2>9. QED BY <2>8 DEF u, line
<1>11. QED BY <1>9, <1>10

\* The totals of a sequence of lines add up, one to a key.
LEMMA TotalsAddUp ==
  ASSUME NEW lines \in Seq(LineType)
  PROVE  AddsUp(FoldLeft(AddTo, <<>>, lines), lines, Len(lines))
<1>1. PICK w : Adding(w, lines) /\ FoldLeft(AddTo, <<>>, lines) = w[Len(lines)]
  BY TotalsWalk
<1> DEFINE n == Len(lines)  Q == {i \in 0 .. n : AddsUp(w[i], lines, i)}
<1>2. n \in Nat
  OBVIOUS
<1>3. AddsUp(<<>>, lines, 0)
  <2>1. <<>> \in Seq(LineType) /\ DOMAIN <<>> = {} /\ 1 .. 0 = {}
    OBVIOUS
  <2>2. SumFunctionOnSet(Amounts(<<>>), {}) = 0 /\ SumFunctionOnSet(Amounts(lines), {}) = 0
    BY SumOfNone
  <2>3. Keyed(<<>>)
    BY <2>1 DEF Keyed
  <2>4. SumFunctionOnSet(Amounts(<<>>), DOMAIN <<>>) = SumFunctionOnSet(Amounts(lines), 1 .. 0)
    BY <2>1, <2>2, Zenon
  <2>5. /\ \A j \in 1 .. 0 : \E a \in DOMAIN <<>> : <<>>[a].key = lines[j].key
        /\ \A a \in DOMAIN <<>> : <<>>[a].amount = SumFunctionOnSet(Amounts(lines), OfKey(lines, 0, <<>>[a].key))
    BY <2>1
  <2>6. <<>> \in Seq(LineType)
    BY <2>1, Zenon
  <2>7. QED BY <2>3, <2>4, <2>5, <2>6, Zenon DEF AddsUp
<1>4. 0 \in Q
  BY <1>1, <1>2, <1>3 DEF Adding
<1>5. ASSUME NEW i \in 0 .. n - 1, i \in Q PROVE i + 1 \in Q
  <2>1. i + 1 \in 1 .. n /\ (i + 1) - 1 = i /\ i + 1 \in 0 .. n
    BY <1>2
  <2>2. w[i + 1] = AddTo(w[i], lines[i + 1])
    BY <1>1, <2>1 DEF Adding
  <2>3. AddsUp(w[i], lines, (i + 1) - 1)
    BY <1>5, <2>1
  <2>4. AddsUp(AddTo(w[i], lines[i + 1]), lines, i + 1)
    BY <2>1, <2>3, AddKeeps, Zenon
  <2>5. QED BY <2>1, <2>2, <2>4
<1>6. \A i \in 0 .. n : i \in Q
  <2> HIDE DEF Q, n
  <2>1. QED BY <1>2, <1>4, <1>5, UpTo
<1>7. n \in Q
  <2>1. n \in 0 .. n
    BY <1>2
  <2>2. QED BY <1>6, <2>1, Zenon
<1>8. QED BY <1>1, <1>7

\* The lines of the pages of an answer.
LEMMA LinesAre ==
  ASSUME NEW pages \in Seq(Seq(BlockType))
  PROVE  GroupLines(pages) \in Seq(LineType)
<1> DEFINE blocks == Blocks(pages)  parts == [i \in DOMAIN blocks |-> blocks[i].groups]
<1>1. blocks \in Seq(BlockType)
  BY FlattenIs DEF Blocks
<1> HIDE DEF blocks
<1>2. \A i \in DOMAIN blocks : blocks[i].groups \in Seq(LineType)
  <2>1. \A i \in DOMAIN blocks : blocks[i] \in BlockType
    BY <1>1
  <2>2. QED BY <2>1 DEF BlockType
<1>3. parts \in Seq(Seq(LineType))
  <2>1. parts = [i \in 1 .. Len(blocks) |-> parts[i]] /\ Len(blocks) \in Nat
    BY <1>1
  <2>2. \A i \in 1 .. Len(blocks) : parts[i] \in Seq(LineType)
    BY <1>1, <1>2
  <2> HIDE DEF parts
  <2> DEFINE V == Seq(LineType)
  <2>3. parts = [i \in 1 .. Len(blocks) |-> parts[i]] /\ \A i \in 1 .. Len(blocks) : parts[i] \in V
    BY <2>1, <2>2
  <2> HIDE DEF V
  <2>4. parts \in Seq(V)
    BY <2>1, <2>3
  <2>5. QED BY <2>4 DEF V
<1>4. FlattenSeq(parts) \in Seq(LineType)
  <2> HIDE DEF parts
  <2>1. QED BY <1>3, FlattenIs
<1>5. QED BY <1>4 DEF GroupLines, blocks

-----------------------------------------------------------------------------
(* Its rows: rounded, the largest first                                    *)

\* A sequence has one sum in whatever order it is shown.
LEMMA OrderedSum ==
  ASSUME NEW n \in Nat, NEW worth \in [1 .. n -> Int],
         NEW g, \A p \in 1 .. n : g[p] = worth[Order(worth)[p]]
  PROVE  SumFunctionOnSet(g, 1 .. n) = SumFunctionOnSet(worth, 1 .. n)
<1> DEFINE order == Order(worth)
<1>1. /\ order \in [1 .. n -> 1 .. n]
      /\ \A i \in 1 .. n : \E p \in 1 .. n : order[p] = i
      /\ \A p, q \in 1 .. n : order[p] = order[q] => p = q
  BY OrderIs
<1>a. \A p \in 1 .. n : g[p] = worth[order[p]]
  OBVIOUS
<1> HIDE DEF order
<1>2. \A p \in 1 .. n : g[p] \in Int /\ worth[order[p]] = g[p]
  BY <1>1, <1>a, ZenonT(40)
<1>3. IsFiniteSet(1 .. n)
  BY FS_Interval
<1> DEFINE I == {order[p] : p \in 1 .. n}
<1>4. I = 1 .. n
  <2>1. \A p \in 1 .. n : order[p] \in 1 .. n
    BY <1>1
  <2>2. ASSUME NEW i \in 1 .. n PROVE i \in I
    <3>1. PICK p \in 1 .. n : order[p] = i
      BY <1>1
    <3>2. order[p] \in I
      OBVIOUS
    <3>3. QED BY <3>1, <3>2
  <2>3. QED BY <2>1, <2>2
<1>5. SumFunctionOnSet(g, 1 .. n) = SumFunctionOnSet(worth, I)
  <2> DEFINE D == 1 .. n
  <2>1. IsFiniteSet(D) /\ \A p \in D : g[p] \in Int /\ worth[order[p]] = g[p]
    BY <1>2, <1>3
  <2>2. \A p, q \in D : order[p] = order[q] => p = q
    BY <1>1
  <2> HIDE DEF D
  <2>3. SumFunctionOnSet(g, D) = SumFunctionOnSet(worth, {order[p] : p \in D})
    BY <2>1, <2>2, SumRenamed
  <2>4. QED BY <2>3 DEF D
<1> HIDE DEF I
<1>6. QED BY <1>4, <1>5

\* Rounding is off by half a unit at most (explorer.py:33).
LEMMA RoundIs ==
  ASSUME NEW x \in Int
  PROVE  /\ Round(x) \in Int
         /\ -(Scale \div 2) <= Round(x) * Scale - x /\ Round(x) * Scale - x <= Scale \div 2
<1> DEFINE h == Scale \div 2  y == x + h
<1>1. Scale \in Nat /\ Scale > 0 /\ h \in Nat /\ Scale <= 2 * h + 1
  BY ScaleAssumption
<1>2. y \in Int
  BY <1>1
<1>3. y \div Scale \in Int /\ y % Scale \in 0 .. Scale - 1 /\ y = Scale * (y \div Scale) + (y % Scale)
  <2> HIDE DEF y
  <2>1. QED BY <1>1, <1>2
<1>4. Round(x) = y \div Scale
  BY DEF Round
<1> DEFINE q == y \div Scale  r == y % Scale
<1>5. q \in Int /\ r \in 0 .. Scale - 1 /\ x + h = Scale * q + r
  BY <1>3
<1> HIDE DEF h, q, r
<1>6. q * Scale - x = h - r
  <2>1. Scale * q = q * Scale /\ Scale * q \in Int
    BY <1>1, <1>5
  <2>2. QED BY <1>1, <1>5, <2>1
<1>7. -h <= q * Scale - x /\ q * Scale - x <= h
  BY <1>1, <1>5, <1>6
<1>8. QED BY <1>4, <1>5, <1>7 DEF q, h

\* What the rows are, of the totals t: its lines rounded, one for each key, the largest first.
RowsAre(rows, t, order) ==
  LET n == Len(t) IN
  /\ rows \in Seq(LineType) /\ Len(rows) = n
  /\ order \in [1 .. n -> 1 .. n]
  /\ \A i \in 1 .. n : \E p \in 1 .. n : order[p] = i
  /\ \A p \in 1 .. n : rows[p].key = t[order[p]].key /\ rows[p].amount = Round(t[order[p]].amount)
  /\ \A p, q \in 1 .. n : p < q => rows[p].amount >= rows[q].amount /\ order[p] # order[q]

\* The rows are the totals, rounded, the largest first (explorer.py:162).
LEMMA RowsOrdered ==
  ASSUME NEW t \in Seq(LineType)
  PROVE  LET rows == ByAmount(Rounded(t)) IN
         /\ \E order : RowsAre(rows, t, order)
         /\ SumFunctionOnSet(Amounts(rows), 1 .. Len(t)) = SumFunctionOnSet(Amounts(Rounded(t)), 1 .. Len(t))
         /\ \A i \in 1 .. Len(t) : Amounts(Rounded(t))[i] = Round(t[i].amount)
<1> DEFINE rounded == Rounded(t)  worth == Amounts(rounded)  order == Order(worth)  rows == ByAmount(rounded)
<1>0. PICK n \in Nat : n = Len(t)
  OBVIOUS
<1>1. DOMAIN t = 1 .. n /\ \A i \in 1 .. n : t[i] \in LineType /\ t[i].amount \in Int
  BY <1>0, AmountsAre
<1>2. /\ rounded = [i \in 1 .. n |-> rounded[i]]
      /\ \A i \in 1 .. n : /\ rounded[i] \in LineType
                           /\ rounded[i].key = t[i].key /\ rounded[i].amount = Round(t[i].amount)
  <2>1. rounded = [i \in 1 .. n |-> [t[i] EXCEPT !.amount = Round(@)]]
    BY <1>1 DEF Rounded
  <2>2. ASSUME NEW i \in 1 .. n
        PROVE  /\ rounded[i] \in LineType
               /\ rounded[i].key = t[i].key /\ rounded[i].amount = Round(t[i].amount)
    <3>1. \A l \in LineType : \A x \in Int :
            /\ [l EXCEPT !.amount = x] \in LineType
            /\ [l EXCEPT !.amount = x].key = l.key /\ [l EXCEPT !.amount = x].amount = x
      BY DEF LineType
    <3>2. t[i] \in LineType /\ Round(t[i].amount) \in Int
      BY <1>1, RoundIs
    <3>3. rounded[i] = [t[i] EXCEPT !.amount = Round(t[i].amount)]
      BY <2>1
    <3> HIDE DEF rounded
    <3>4. QED BY <3>1, <3>2, <3>3
  <2> HIDE DEF rounded
  <2>3. QED BY <2>1, <2>2
<1> HIDE DEF rounded
<1>3. worth \in [1 .. n -> Int] /\ \A i \in 1 .. n : worth[i] = Round(t[i].amount)
  <2>1. worth = [i \in 1 .. n |-> rounded[i].amount]
    BY <1>2 DEF Amounts
  <2>2. \A i \in 1 .. n : rounded[i].amount \in Int
    BY <1>2 DEF LineType
  <2> HIDE DEF worth
  <2>3. QED BY <1>2, <2>1, <2>2
<1>4. rows = [p \in 1 .. n |-> rounded[order[p]]]
  <2>1. DOMAIN order = 1 .. n
    <3>1. Cardinality(1 .. n) = n /\ DOMAIN worth = 1 .. n
      BY <1>3, FS_Interval
    <3> HIDE DEF worth
    <3>2. QED BY <3>1 DEF Order
  <2>2. rows = [p \in DOMAIN order |-> rounded[order[p]]]
    BY DEF ByAmount, Descending
  <2> HIDE DEF order, rows
  <2>3. QED BY <2>1, <2>2
<1> HIDE DEF worth
<1>5. /\ order \in [1 .. n -> 1 .. n]
      /\ \A i \in 1 .. n : \E p \in 1 .. n : order[p] = i
      /\ \A p, q \in 1 .. n : p < q => Ahead(worth, order[p], order[q])
      /\ \A p, q \in 1 .. n : order[p] = order[q] => p = q
  BY <1>3, OrderIs
<1> HIDE DEF order, rows
<1>6. rows \in Seq(LineType) /\ Len(rows) = n
  <2>1. \A p \in 1 .. n : rounded[order[p]] \in LineType
    BY <1>2, <1>5
  <2>2. QED BY <1>4, <2>1
<1>7. \A p \in 1 .. n : /\ order[p] \in 1 .. n
                        /\ rows[p].key = t[order[p]].key
                        /\ rows[p].amount = Round(t[order[p]].amount)
                        /\ rows[p].amount = worth[order[p]]
  BY <1>2, <1>3, <1>4, <1>5, ZenonT(40)
<1>8. ASSUME NEW p \in 1 .. n, NEW q \in 1 .. n, p < q
      PROVE  rows[p].amount >= rows[q].amount /\ order[p] # order[q]
  <2>1. Ahead(worth, order[p], order[q]) /\ order[p] # order[q]
    BY <1>5, <1>8
  <2>2. worth[order[p]] \in Int /\ worth[order[q]] \in Int
    BY <1>3, <1>7
  <2>3. QED BY <1>7, <2>1, <2>2 DEF Ahead
<1>9. RowsAre(rows, t, order)
  BY <1>0, <1>5, <1>6, <1>7, <1>8 DEF RowsAre
<1>10. \A p \in 1 .. n : Amounts(rows)[p] = worth[order[p]]
  BY <1>6, <1>7, AmountsAre
<1>11. SumFunctionOnSet(Amounts(rows), 1 .. n) = SumFunctionOnSet(worth, 1 .. n)
  BY <1>3, <1>10, OrderedSum DEF order
<1>12. QED BY <1>0, <1>3, <1>9, <1>11 DEF rows, worth, rounded

-----------------------------------------------------------------------------
(* What the rows come to                                                   *)

\* The part of a sequence of lines.
LEMMA PartIs ==
  ASSUME NEW s \in Seq(LineType), NEW a \in Nat, NEW b \in Nat, a <= b, b <= Len(s)
  PROVE  LET part == SubSeq(s, a + 1, b) IN
         /\ part \in Seq(LineType) /\ Len(part) = b - a
         /\ \A i \in 1 .. b - a : part[i] = s[a + i]
<1>1. /\ a + 1 \in Int /\ b \in Int
      /\ \A i \in a + 1 .. b : s[i] \in LineType
  OBVIOUS
<1> DEFINE part == SubSeq(s, a + 1, b)
<1>2. Len(part) = b - a /\ DOMAIN part = 1 .. b - a
  OBVIOUS
<1>3. part \in Seq(LineType)
  OBVIOUS
<1>4. ASSUME NEW i \in 1 .. b - a PROVE part[i] = s[a + i]
  <2>1. part[i] = s[(a + 1) + i - 1]
    OBVIOUS
  <2>2. (a + 1) + i - 1 = a + i
    OBVIOUS
  <2> HIDE DEF part
  <2>3. QED BY <2>1, <2>2
<1> HIDE DEF part
<1>5. QED BY <1>2, <1>3, <1>4 DEF part

\* The sum of a part.
LEMMA PartSum ==
  ASSUME NEW s \in Seq(LineType), NEW a \in Nat, NEW b \in Nat, a <= b, b <= Len(s)
  PROVE  SumFunctionOnSet(Amounts(SubSeq(s, a + 1, b)), 1 .. b - a)
           = SumFunctionOnSet(Amounts(s), a + 1 .. b)
<1> DEFINE part == SubSeq(s, a + 1, b)  shift == [i \in 1 .. b - a |-> a + i]  D == 1 .. b - a
<1>1. part \in Seq(LineType) /\ Len(part) = b - a /\ \A i \in 1 .. b - a : part[i] = s[a + i]
  BY PartIs, Zenon
<1> HIDE DEF part
<1>2. \A i \in D : Amounts(part)[i] \in Int /\ Amounts(s)[shift[i]] = Amounts(part)[i]
  <2>1. ASSUME NEW i \in 1 .. b - a PROVE i \in DOMAIN part /\ a + i \in DOMAIN s
    BY <1>1
  <2>2. \A i \in 1 .. b - a : Amounts(part)[i] = part[i].amount /\ part[i].amount \in Int
    BY <1>1, <2>1, AmountsAre
  <2>3. \A i \in 1 .. b - a : Amounts(s)[a + i] = s[a + i].amount
    BY <2>1, AmountsAre
  <2>4. QED BY <1>1, <2>2, <2>3
<1>3. \A i, j \in D : shift[i] = shift[j] => i = j
  OBVIOUS
<1>4. IsFiniteSet(D)
  <2>1. b - a \in Int
    OBVIOUS
  <2>2. QED BY <2>1, FS_Interval
<1>5. {shift[i] : i \in D} = a + 1 .. b
  <2>1. ASSUME NEW x \in a + 1 .. b PROVE x - a \in D /\ shift[x - a] = x
    OBVIOUS
  <2>2. \A i \in D : shift[i] \in a + 1 .. b
    OBVIOUS
  <2> HIDE DEF D, shift
  <2>3. QED BY <2>1, <2>2
<1> HIDE DEF shift, D
<1>6. SumFunctionOnSet(Amounts(part), D) = SumFunctionOnSet(Amounts(s), {shift[i] : i \in D})
  BY <1>2, <1>3, <1>4, SumRenamed
<1>7. QED BY <1>5, <1>6, Zenon DEF part, D

\* The rows shown and the rest make up all rows (explorer.py:169).
LEMMA BreakdownConserves ==
  ASSUME NEW rows \in Seq(LineType), NEW topN \in Nat
  PROVE  SumFunction(Amounts(Shown(rows, topN))) + Others(rows, topN) = SumFunction(Amounts(rows))
<1> DEFINE n == Len(rows)  S(u) == SumFunctionOnSet(Amounts(rows), u)
<1>1. /\ n \in Nat /\ DOMAIN Amounts(rows) = 1 .. n /\ IsFiniteSet(1 .. n)
      /\ \A i \in 1 .. n : Amounts(rows)[i] \in Int
  BY AmountsAre
<1>2. SumFunction(Amounts(rows)) = S(1 .. n) /\ S(1 .. n) \in Int
  <2>1. S(1 .. n) \in Int
    <3> DEFINE D == 1 .. n
    <3>1. IsFiniteSet(D) /\ \A i \in D : Amounts(rows)[i] \in Int
      BY <1>1
    <3> HIDE DEF D
    <3>2. SumFunctionOnSet(Amounts(rows), D) \in Int
      BY <3>1, SumIsInt
    <3>3. QED BY <3>2 DEF D
  <2>2. SumFunction(Amounts(rows)) = SumFunctionOnSet(Amounts(rows), DOMAIN Amounts(rows))
    BY DEF SumFunction
  <2>3. QED BY <1>1, <2>1, <2>2
<1>3. CASE ~(topN > 0 /\ n > topN)
  <2>1. Shown(rows, topN) = rows /\ Others(rows, topN) = 0
    BY <1>3 DEF Shown, Others
  <2>2. QED BY <1>2, <2>1
<1>4. CASE topN > 0 /\ n > topN
  <2> DEFINE top == SubSeq(rows, 1, topN)  rest == SubSeq(rows, topN + 1, n)
             A == 1 .. topN  B == topN + 1 .. n
  <2>1. Shown(rows, topN) = top /\ Others(rows, topN) = SumFunction(Amounts(rest))
    BY <1>4 DEF Shown, Others, Sum
  <2>2. SumFunction(Amounts(top)) = S(A)
    <3>1. 0 \in Nat /\ 0 <= topN /\ topN <= Len(rows) /\ 0 + 1 = 1 /\ topN - 0 = topN
      BY <1>1, <1>4
    <3>2. /\ SubSeq(rows, 0 + 1, topN) \in Seq(LineType) /\ Len(SubSeq(rows, 0 + 1, topN)) = topN - 0
          /\ SumFunctionOnSet(Amounts(SubSeq(rows, 0 + 1, topN)), 1 .. topN - 0)
               = SumFunctionOnSet(Amounts(rows), 0 + 1 .. topN)
      BY <3>1, PartIs, PartSum, Zenon
    <3>3. top \in Seq(LineType) /\ Len(top) = topN /\ SumFunctionOnSet(Amounts(top), 1 .. topN) = S(A)
      BY <3>1, <3>2
    <3> HIDE DEF top, S
    <3>4. DOMAIN Amounts(top) = 1 .. topN
      BY <3>3, AmountsAre
    <3>5. QED BY <3>3, <3>4 DEF SumFunction
  <2>3. SumFunction(Amounts(rest)) = S(B)
    <3>1. topN <= n /\ n <= Len(rows)
      BY <1>1, <1>4
    <3>2. /\ rest \in Seq(LineType) /\ Len(rest) = n - topN
          /\ SumFunctionOnSet(Amounts(rest), 1 .. n - topN) = S(B)
      BY <1>1, <3>1, PartIs, PartSum, ZenonT(40)
    <3> HIDE DEF rest, S
    <3>3. DOMAIN Amounts(rest) = 1 .. n - topN
      BY <3>2, AmountsAre
    <3>4. QED BY <3>2, <3>3 DEF SumFunction
  <2>4. S(1 .. n) = S(A) + S(B)
    <3>1. 1 .. n = A \cup B /\ A \cap B = {}
      BY <1>1, <1>4
    <3>2. IsFiniteSet(A) /\ IsFiniteSet(B)
      BY <1>1, FS_Interval
    <3>3. \A i \in A \cup B : Amounts(rows)[i] \in Int
      BY <1>1, <3>1
    <3> DEFINE both == A \cup B
    <3> HIDE DEF A, B
    <3>4. SumFunctionOnSet(Amounts(rows), both) = SumFunctionOnSet(Amounts(rows), A) + SumFunctionOnSet(Amounts(rows), B)
      BY <3>1, <3>2, <3>3, SumOfBoth
    <3>5. 1 .. n = both
      BY <3>1
    <3> HIDE DEF both, n
    <3>6. QED BY <3>4, <3>5
  <2> HIDE DEF A, B, S, top, rest
  <2>5. QED BY <1>2, <2>1, <2>2, <2>3, <2>4
<1>5. QED BY <1>3, <1>4

\* The rows come to the raw total, half a unit for each row aside.
LEMMA RowsReconcile ==
  ASSUME NEW t \in Seq(LineType), NEW r, \A i \in 1 .. Len(t) : r[i] = Round(t[i].amount)
  PROVE  SumFunctionOnSet(r, 1 .. Len(t)) * Scale - SumFunctionOnSet(Amounts(t), 1 .. Len(t))
           \in -((Len(t) * Scale) \div 2) .. (Len(t) * Scale) \div 2
<1> DEFINE n == Len(t)  h == Scale \div 2  D == 1 .. n
<1>1. n \in Nat /\ IsFiniteSet(D) /\ Cardinality(D) = n
  <2>1. n \in Nat
    OBVIOUS
  <2> HIDE DEF n
  <2>2. QED BY <2>1, FS_Interval
<1>2. Scale \in Nat /\ Scale \in Int /\ h \in Nat /\ 2 * h <= Scale
  BY ScaleAssumption
<1>3. \A i \in D : /\ r[i] \in Int /\ Amounts(t)[i] \in Int
                   /\ -h <= r[i] * Scale - Amounts(t)[i] /\ r[i] * Scale - Amounts(t)[i] <= h
  <2>1. \A i \in D : Amounts(t)[i] = t[i].amount /\ t[i].amount \in Int
    BY AmountsAre
  <2>2. QED BY <2>1, RoundIs
<1> DEFINE a == SumFunctionOnSet(r, D)  c == SumFunctionOnSet(Amounts(t), D)  slip == a * Scale - c
<1>4. a \in Int /\ c \in Int
  <2> HIDE DEF D
  <2>1. QED BY <1>1, <1>3, SumIsInt
<1>5. -(Cardinality(D) * h) <= slip /\ slip <= Cardinality(D) * h
  <2> HIDE DEF D, h
  <2>1. QED BY <1>1, <1>2, <1>3, SumsWithin
<1>6. slip \in Int
  <2> HIDE DEF a, c
  <2>1. QED BY <1>2, <1>4
<1> HIDE DEF slip, a, c
<1>7. n * h <= (n * Scale) \div 2 /\ (n * Scale) \div 2 \in Int /\ n * h \in Int
  <2> HIDE DEF n, h
  <2>1. n * h \in Int /\ n * Scale \in Int
    BY <1>1, <1>2
  <2>2. n * (2 * h) <= n * Scale
    BY <1>1, <1>2
  <2>3. n * (2 * h) = 2 * (n * h)
    BY <1>1, <1>2
  <2> DEFINE x == n * h  y == n * Scale
  <2>4. x \in Int /\ y \in Int /\ 2 * x <= y
    BY <2>1, <2>2, <2>3
  <2> HIDE DEF x, y
  <2>5. x <= y \div 2 /\ y \div 2 \in Int
    BY <2>4
  <2>6. QED BY <2>1, <2>5 DEF x, y
<1>8. slip \in -((n * Scale) \div 2) .. (n * Scale) \div 2
  <2> DEFINE most == (n * Scale) \div 2  x == n * h
  <2>1. most \in Int /\ x \in Int /\ x <= most /\ -x <= slip /\ slip <= x
    BY <1>1, <1>5, <1>7
  <2> HIDE DEF most, x
  <2>2. slip \in -most .. most
    BY <1>6, <2>1
  <2>3. QED BY <2>2 DEF most
<1>9. QED BY <1>8 DEF slip, a, c

-----------------------------------------------------------------------------
(* The breakdown that is shown                                             *)

\* What is shown of the rows: the first of them, all or topN.
LEMMA ShownIs ==
  ASSUME NEW rows \in Seq(LineType), NEW topN \in Nat
  PROVE  LET shown == Shown(rows, topN) IN
         /\ Len(shown) <= Len(rows) /\ DOMAIN shown = 1 .. Len(shown) /\ Len(shown) \in Nat
         /\ \A i \in 1 .. Len(shown) : shown[i] = rows[i]
         /\ Len(shown) # Len(rows) => Len(shown) = topN
<1>1. CASE ~(topN > 0 /\ Len(rows) > topN)
  BY <1>1 DEF Shown
<1>2. CASE topN > 0 /\ Len(rows) > topN
  <2>1. 0 \in Nat /\ 0 <= topN /\ topN <= Len(rows) /\ 0 + 1 = 1 /\ topN - 0 = topN
    BY <1>2
  <2>2. LET part == SubSeq(rows, 0 + 1, topN) IN
        /\ part \in Seq(LineType) /\ Len(part) = topN - 0
        /\ \A i \in 1 .. topN - 0 : part[i] = rows[0 + i]
    BY <2>1, PartIs, Zenon
  <2> DEFINE part == SubSeq(rows, 1, topN)
  <2>3. part \in Seq(LineType) /\ Len(part) = topN /\ \A i \in 1 .. topN : part[i] = rows[i]
    BY <2>1, <2>2
  <2>4. Shown(rows, topN) = part
    BY <1>2 DEF Shown
  <2> HIDE DEF part
  <2>5. QED BY <1>2, <2>3, <2>4
<1>3. QED BY <1>1, <1>2

\* A key that is not shown comes to no more than the rows that are.
LEMMA BreakdownShowsLargest ==
  ASSUME NEW pages, NEW topN \in Nat, NEW t, AddsUp(t, GroupLines(pages), Len(GroupLines(pages))),
         GroupLines(pages) \in Seq(LineType),
         NEW rows, NEW order, RowsAre(rows, t, order),
         NEW breakdown, breakdown.groups = Shown(rows, topN)
  PROVE  ShowsLargest(breakdown, pages, topN)
<1> DEFINE n == Len(t)  shown == Shown(rows, topN)  m == Len(shown)  lines == GroupLines(pages)
<1>0. t \in Seq(LineType) /\ n \in Nat /\ DOMAIN t = 1 .. n
  BY DEF AddsUp
<1>1. /\ rows \in Seq(LineType) /\ Len(rows) = n
      /\ order \in [1 .. n -> 1 .. n]
      /\ \A i \in 1 .. n : \E p \in 1 .. n : order[p] = i
      /\ \A p \in 1 .. n : rows[p].key = t[order[p]].key /\ rows[p].amount = Round(t[order[p]].amount)
      /\ \A p, q \in 1 .. n : p < q => rows[p].amount >= rows[q].amount /\ order[p] # order[q]
  BY DEF RowsAre
<1>2. /\ m <= n /\ DOMAIN shown = 1 .. m /\ m \in Nat
      /\ \A i \in 1 .. m : shown[i] = rows[i]
      /\ m # n => m = topN
  BY <1>1, ShownIs
<1> HIDE DEF n, shown, m
<1>3. \A i \in 1 .. m : i \in 1 .. n
  BY <1>0, <1>2
<1>4. ASSUME NEW i \in 1 .. m, NEW j \in 1 .. m, i < j
      PROVE  shown[i].amount >= shown[j].amount /\ shown[i].key # shown[j].key
  <2>1. rows[i].amount >= rows[j].amount /\ order[i] # order[j] /\ order[i] \in 1 .. n /\ order[j] \in 1 .. n
    BY <1>1, <1>3, <1>4
  <2>2. t[order[i]].key # t[order[j]].key
    BY <1>0, <2>1 DEF AddsUp, Keyed
  <2>3. QED BY <1>1, <1>2, <1>3, <2>1, <2>2
<1>5. ASSUME NEW k \in Keys(pages), \A i \in 1 .. m : shown[i].key # k
      PROVE  /\ m = topN
             /\ \A i \in 1 .. m : shown[i].amount >= Round(AmountOf(k, lines))
  <2>1. PICK j \in 1 .. Len(lines) : lines[j].key = k
    BY DEF Keys, ToSet
  <2>2. PICK a \in 1 .. n : t[a].key = k
    BY <1>0, <2>1 DEF AddsUp
  <2>3. t[a].amount = AmountOf(k, lines)
    <3>1. t[a].amount = SumFunctionOnSet(Amounts(lines), OfKey(lines, Len(lines), t[a].key))
      BY <1>0 DEF AddsUp
    <3>2. OfKey(lines, Len(lines), k) = {i \in DOMAIN lines : lines[i].key = k}
      BY DEF OfKey
    <3>3. QED BY <2>2, <3>1, <3>2, Zenon DEF AmountOf
  <2>4. PICK p \in 1 .. n : order[p] = a
    BY <1>1
  <2>5. rows[p].key = k /\ rows[p].amount = Round(AmountOf(k, lines))
    BY <1>1, <2>2, <2>3, <2>4
  <2>6. p \notin 1 .. m
    BY <1>2, <1>5, <2>5
  <2>7. m < p /\ m # n
    BY <1>0, <1>2, <2>6
  <2>8. \A i \in 1 .. m : rows[i].amount >= rows[p].amount
    <3>1. \A i \in 1 .. m : i < p
      BY <1>2, <2>7, SMTT(30)
    <3>2. QED BY <1>1, <1>3, <3>1
  <2>9. QED BY <1>2, <2>5, <2>7, <2>8
<1>6. DOMAIN breakdown.groups = 1 .. m /\ breakdown.groups = shown /\ Len(breakdown.groups) = m
  BY <1>2, Zenon DEF shown, m
<1>7. QED BY <1>4, <1>5, <1>6 DEF ShowsLargest

\* The three together, for any pages of an answer.
LEMMA GroupedCostSound ==
  ASSUME NEW pages \in Seq(Seq(BlockType)), NEW topN \in Nat
  PROVE  LET breakdown == GroupedCost(pages, topN) IN
         Conserves(breakdown) /\ ShowsLargest(breakdown, pages, topN) /\ Reconciles(breakdown, pages)
<1> DEFINE lines == GroupLines(pages)  t == Totals(pages)  rows == ByAmount(Rounded(t))
           breakdown == GroupedCost(pages, topN)  n == Len(t)
<1>1. lines \in Seq(LineType)
  BY LinesAre
<1>2. AddsUp(t, lines, Len(lines))
  <2> HIDE DEF lines
  <2>1. AddsUp(FoldLeft(AddTo, <<>>, lines), lines, Len(lines))
    BY <1>1, TotalsAddUp
  <2>2. QED BY <2>1 DEF Totals, lines
<1>3. t \in Seq(LineType)
  BY <1>2 DEF AddsUp
<1>4. /\ breakdown.total = SumFunction(Amounts(rows)) /\ breakdown.groups = Shown(rows, topN)
      /\ breakdown.others = Others(rows, topN)
  BY DEF GroupedCost, Sum
<1> HIDE DEF breakdown, t, lines
<1>5. /\ \E order : RowsAre(rows, t, order)
      /\ SumFunctionOnSet(Amounts(rows), 1 .. n) = SumFunctionOnSet(Amounts(Rounded(t)), 1 .. n)
      /\ \A i \in 1 .. n : Amounts(Rounded(t))[i] = Round(t[i].amount)
  BY <1>3, RowsOrdered, Zenon
<1> HIDE DEF rows
<1>6. PICK order : RowsAre(rows, t, order)
  BY <1>5
<1>7. rows \in Seq(LineType) /\ Len(rows) = n
  BY <1>6 DEF RowsAre
<1>8. Conserves(breakdown)
  <2>1. SumFunction(Amounts(Shown(rows, topN))) + Others(rows, topN) = SumFunction(Amounts(rows))
    BY <1>7, BreakdownConserves
  <2>2. QED BY <1>4, <2>1 DEF Conserves, Sum
<1>9. ShowsLargest(breakdown, pages, topN)
  <2>1. AddsUp(t, GroupLines(pages), Len(GroupLines(pages))) /\ GroupLines(pages) \in Seq(LineType)
    BY <1>1, <1>2 DEF lines
  <2>2. QED BY <1>4, <1>6, <2>1, BreakdownShowsLargest, Zenon
<1>10. Reconciles(breakdown, pages)
  <2> DEFINE r == Amounts(Rounded(t))  most == (n * Scale) \div 2
             a == SumFunctionOnSet(r, 1 .. n)  c == SumFunctionOnSet(Amounts(t), 1 .. n)
  <2>1. a * Scale - c \in -most .. most
    BY <1>3, <1>5, RowsReconcile
  <2>2. breakdown.total = a
    <3>1. DOMAIN Amounts(rows) = 1 .. n
      BY <1>7, AmountsAre
    <3>2. breakdown.total = SumFunctionOnSet(Amounts(rows), 1 .. n)
      BY <1>4, <3>1 DEF SumFunction
    <3>3. QED BY <1>5, <3>2, Zenon
  <2>3. Sum(Amounts(lines)) = c
    <3>1. DOMAIN Amounts(lines) = 1 .. Len(lines)
      BY <1>1, AmountsAre
    <3>2. DOMAIN t = 1 .. n
      BY <1>3
    <3>3. SumFunctionOnSet(Amounts(t), DOMAIN t) = SumFunctionOnSet(Amounts(lines), 1 .. Len(lines))
      BY <1>2 DEF AddsUp
    <3> HIDE DEF n
    <3>4. QED BY <3>1, <3>2, <3>3 DEF Sum, SumFunction
  <2>4. Len(Totals(pages)) = n
    BY DEF t
  <2> HIDE DEF a, c, most, n
  <2>5. QED BY <2>1, <2>2, <2>3, <2>4 DEF Reconciles, lines, most
<1>11. QED BY <1>8, <1>9, <1>10 DEF breakdown

\* SpendIsSound (explorer.py:150, dates.py:39): for any pages of an answer the rows
\* shown and the rest make up the total, which is the raw total but for rounding, and
\* are the largest, largest first; and the months compared adjoin, unless one ended.
THEOREM SpendStaysSound == Spec => []SpendIsSound
<1>1. DayInv /\ OwnInv => SpendIsSound
  <2> SUFFICES ASSUME DayInv, OwnInv PROVE SpendIsSound
    OBVIOUS
  <2>1. world.services \in Seq(Seq(BlockType)) /\ TopN \in Nat
    <3>1. IsWorld(world) /\ TopN \in Nat
      BY DigestAssumption DEF DayInv
    <3>2. world.services \in {world.services, world.month, world.lastMonth}
      OBVIOUS
    <3>3. {world.services, world.month, world.lastMonth} \subseteq Seq(Seq(BlockType))
      BY <3>1, Zenon DEF IsWorld
    <3>4. QED BY <3>1, <3>2, <3>3, Zenon
  <2>2. BreakdownIsSound
    BY <2>1, GroupedCostSound, Zenon DEF BreakdownIsSound, Breakdown
  <2>3. QED BY <2>2, MonthsAdjoin DEF SpendIsSound
<1>2. QED BY <1>1, DayInductive, OwnInductive, PTL DEF Spec

-----------------------------------------------------------------------------
(* What is made of a finding                                               *)

\* Whatever a source may say.
RecType ==
  {r \in UNION {UNION {ToSet(Made(s, f)) : f \in FindingType} : s \in ToSet(Sources)} : r.savings \in Int}

\* A finding makes at most one recommendation, whose saving is a number.
LEMMA MadeIs ==
  ASSUME NEW source \in ToSet(Sources), NEW f \in FindingType
  PROVE  Made(source, f) \in Seq(RecType)
<1> DEFINE none == <<>>
           One(s, r) == r.savings \in Int /\ s = <<r>>
<1>1. f.savings \in Int
  BY DEF FindingType
<1>2. \A s, a, c, t : One(<<Rec(s, a, c, t, f.savings)>>, Rec(s, a, c, t, f.savings))
  BY <1>1 DEF Rec
<1> HIDE DEF none, One
<1>3. \E r : One(Rightsizing(f), r)
  BY <1>2, Zenon DEF Rightsizing
<1>4. ComputeOptimizer(f) = none \/ \E r : One(ComputeOptimizer(f), r)
  BY <1>2, Zenon DEF ComputeOptimizer, none
<1>5. \A title, action : LET made == Commitment(source, title, action, f)
                         IN  made = none \/ \E r : One(made, r)
  BY <1>2, Zenon DEF Commitment, none
<1>6. \E r : One(Hub(f), r)
  BY <1>2, Zenon DEF Hub
<1>7. Check(f) = none \/ \E r : One(Check(f), r)
  BY <1>2, Zenon DEF Check, none
<1>8. Made(source, f) = none \/ \E r : One(Made(source, f), r)
  BY <1>3, <1>4, <1>5, <1>6, <1>7 DEF Made
<1>9. CASE Made(source, f) = none
  <2>1. <<>> \in Seq(RecType)
    OBVIOUS
  <2>2. QED BY <1>9, <2>1, Zenon DEF none
<1>10. CASE \E r : One(Made(source, f), r)
  <2>1. PICK r : r.savings \in Int /\ Made(source, f) = <<r>>
    BY <1>10 DEF One
  <2>2. r \in ToSet(<<r>>)
    BY DEF ToSet
  <2>3. r \in ToSet(Made(source, f))
    BY <2>1, <2>2
  <2>4. r \in RecType
    <3>1. r \in UNION {ToSet(Made(source, g)) : g \in FindingType}
      BY <2>3, Zenon
    <3>2. QED BY <2>1, <3>1, ZenonT(40) DEF RecType
  <2> HIDE DEF RecType
  <2>5. <<r>> \in Seq(RecType)
    BY <2>4
  <2>6. QED BY <2>1, <2>5
<1>11. QED BY <1>8, <1>9, <1>10

\* What FlattenSeq joins, said of the sets of members.
Joins(ss, r) == \E i \in DOMAIN ss : r \in ToSet(ss[i])

\* Joined lists have the members of each.
LEMMA FlattenHas ==
  ASSUME NEW E, NEW ss \in Seq(Seq(E)), NEW r
  PROVE  FlattenSeq(ss) \in Seq(E) /\ (r \in ToSet(FlattenSeq(ss)) <=> Joins(ss, r))
<1>1. FlattenSeq(ss) \in Seq(E)
  BY FlattenIs
<1>2. (\E k \in DOMAIN FlattenSeq(ss) : FlattenSeq(ss)[k] = r)
        <=> (\E i \in DOMAIN ss : \E k \in DOMAIN ss[i] : ss[i][k] = r)
  <2> DEFINE all == FlattenSeq(ss)
  <2>1. \A e : (\E k \in DOMAIN all : all[k] = e)
                <=> (\E i \in DOMAIN ss : \E k \in DOMAIN ss[i] : ss[i][k] = e)
    BY FlattenIs, ZenonT(40)
  <2> HIDE DEF all
  <2>2. (\E k \in DOMAIN all : all[k] = r)
          <=> (\E i \in DOMAIN ss : \E k \in DOMAIN ss[i] : ss[i][k] = r)
    BY <2>1, Zenon
  <2>3. QED BY <2>2 DEF all
<1>3. QED BY <1>1, <1>2, Zenon DEF ToSet, Joins

\* A sequence of n lists.
LEMMA ListsAre ==
  ASSUME NEW E, NEW n \in Nat, NEW ss, ss = [i \in 1 .. n |-> ss[i]], \A i \in 1 .. n : ss[i] \in Seq(E)
  PROVE  ss \in Seq(Seq(E))
<1> DEFINE V == Seq(E)
<1>1. \A i \in 1 .. n : ss[i] \in V
  OBVIOUS
<1> HIDE DEF V
<1>2. ss \in Seq(V)
  BY <1>1
<1>3. QED BY <1>2 DEF V

\* The recommendations made of findings are those made of each.
LEMMA MadeOfIs ==
  ASSUME NEW source \in ToSet(Sources), NEW fs \in Seq(FindingType)
  PROVE  /\ MadeOf(source, fs) \in Seq(RecType)
         /\ \A r : r \in ToSet(MadeOf(source, fs)) <=> \E f \in ToSet(fs) : r \in ToSet(Made(source, f))
<1> DEFINE ss == [i \in DOMAIN fs |-> Made(source, fs[i])]
<1>1. DOMAIN fs = 1 .. Len(fs) /\ Len(fs) \in Nat /\ \A i \in DOMAIN fs : fs[i] \in FindingType
  OBVIOUS
<1>2. \A i \in DOMAIN fs : ss[i] \in Seq(RecType)
  <2>1. \A i \in DOMAIN fs : Made(source, fs[i]) \in Seq(RecType)
    BY <1>1, MadeIs
  <2>2. \A i \in DOMAIN fs : ss[i] = Made(source, fs[i])
    OBVIOUS
  <2> HIDE DEF ss
  <2>3. QED BY <2>1, <2>2, Zenon
<1>3. ss \in Seq(Seq(RecType))
  <2>1. ss = [i \in 1 .. Len(fs) |-> ss[i]] /\ \A i \in 1 .. Len(fs) : ss[i] \in Seq(RecType)
    BY <1>1, <1>2
  <2> HIDE DEF ss
  <2>2. QED BY <1>1, <2>1, ListsAre, Zenon
<1>4. DOMAIN ss = DOMAIN fs /\ \A i \in DOMAIN fs : ss[i] = Made(source, fs[i])
  OBVIOUS
<1> HIDE DEF ss
<1>5. /\ FlattenSeq(ss) \in Seq(RecType)
      /\ \A r : r \in ToSet(FlattenSeq(ss)) <=> Joins(ss, r)
  BY <1>3, FlattenHas
<1>6. \A r : Joins(ss, r) <=> \E f \in ToSet(fs) : r \in ToSet(Made(source, f))
  <2>1. ToSet(fs) = {fs[i] : i \in DOMAIN fs}
    BY DEF ToSet
  <2>2. QED BY <1>4, <2>1, Zenon DEF Joins
<1>7. MadeOf(source, fs) = FlattenSeq(ss)
  BY DEF MadeOf, ss
<1>8. QED BY <1>5, <1>6, <1>7, Zenon

-----------------------------------------------------------------------------
(* What is read of a source.                                               *)

\* Those findings for which `read` says so, in their order.
LEMMA PickedAre ==
  ASSUME NEW E, NEW s \in Seq(E), NEW parts, parts = [i \in DOMAIN s |-> parts[i]],
         \A i \in DOMAIN s : parts[i] = <<>> \/ parts[i] = <<s[i]>>
  PROVE  /\ FlattenSeq(parts) \in Seq(E)
         /\ ToSet(FlattenSeq(parts)) \subseteq ToSet(s)
         /\ (\A i \in DOMAIN s : parts[i] = <<s[i]>>) => ToSet(FlattenSeq(parts)) = ToSet(s)
<1>1. DOMAIN s = 1 .. Len(s) /\ Len(s) \in Nat /\ \A i \in DOMAIN s : s[i] \in E
  OBVIOUS
<1>2. \A i \in DOMAIN s : parts[i] \in Seq(E)
  <2>1. \A x \in E : <<x>> \in Seq(E)
    OBVIOUS
  <2>2. <<>> \in Seq(E)
    OBVIOUS
  <2> DEFINE V == Seq(E)  empty == <<>>
  <2>3. empty \in V /\ (\A x \in E : <<x>> \in V) /\ \A i \in DOMAIN s : parts[i] = empty \/ parts[i] = <<s[i]>>
    BY <2>1, <2>2, Zenon
  <2> HIDE DEF V, empty
  <2>4. \A i \in DOMAIN s : parts[i] \in V
    BY <1>1, <2>3, Zenon
  <2>5. QED BY <2>4 DEF V
<1>3. parts \in Seq(Seq(E))
  <2>1. parts = [i \in 1 .. Len(s) |-> parts[i]] /\ \A i \in 1 .. Len(s) : parts[i] \in Seq(E)
    BY <1>1, <1>2, Zenon
  <2>2. QED BY <1>1, <2>1, ListsAre, Zenon
<1>4. /\ FlattenSeq(parts) \in Seq(E)
      /\ \A r : r \in ToSet(FlattenSeq(parts)) <=> Joins(parts, r)
  BY <1>3, FlattenHas
<1>5. DOMAIN parts = DOMAIN s
  OBVIOUS
<1>6. \A x : ToSet(<<x>>) = {x}
  BY DEF ToSet
<1>7. \A x : x \notin ToSet(<<>>)
  BY DEF ToSet
<1>8. ASSUME NEW r \in ToSet(FlattenSeq(parts)) PROVE r \in ToSet(s)
  <2>1. PICK i \in DOMAIN s : r \in ToSet(parts[i])
    BY <1>4, <1>5, Zenon DEF Joins
  <2>2. parts[i] = <<s[i]>>
    BY <1>7, <2>1
  <2>3. r = s[i]
    BY <1>6, <2>1, <2>2
  <2>4. QED BY <2>3 DEF ToSet
<1>9. ASSUME \A i \in DOMAIN s : parts[i] = <<s[i]>>, NEW r \in ToSet(s)
      PROVE  r \in ToSet(FlattenSeq(parts))
  <2>1. PICK i \in DOMAIN s : r = s[i]
    BY DEF ToSet
  <2>2. r \in ToSet(parts[i])
    BY <1>6, <1>9, <2>1
  <2>3. QED BY <1>4, <1>5, <2>2, Zenon DEF Joins
<1>10. QED BY <1>4, <1>8, <1>9, Zenon

IsSource(s, w) == w.findings \in Seq(FindingType) /\ w.fails \subseteq CallsTo(s, w)

\* Pages up to the one that fails (engine.py:57).
LEMMA PagesAre ==
  ASSUME NEW w, w.findings \in Seq(FindingType), w.fails \subseteq 1 .. Len(w.findings) + 1
  PROVE  /\ ReadPages(w) \in Seq(FindingType)
         /\ ToSet(ReadPages(w)) \subseteq ToSet(w.findings)
         /\ w.fails = {} => ReadPages(w) = w.findings
<1> DEFINE fs == w.findings
<1>1. fs \in Seq(FindingType) /\ Len(fs) \in Nat /\ DOMAIN fs = 1 .. Len(fs)
  OBVIOUS
<1>2. CASE w.fails = {}
  BY <1>1, <1>2 DEF ReadPages
<1>3. CASE w.fails # {}
  <2> DEFINE F == w.fails
  <2>1. F \in SUBSET Nat /\ F # {}
    BY <1>1, <1>3
  <2>2. \E n \in F : \A m \in F : n <= m
    BY <2>1, NatMin, Zenon
  <2>3. Min(F) \in F
    <3> HIDE DEF F
    <3>1. QED BY <2>2 DEF Min
  <2>4. PICK k \in 0 .. Len(fs) : k = Min(F) - 1
    BY <1>1, <2>3
  <2>5. ReadPages(w) = SubSeq(fs, 1, k)
    BY <1>3, <2>4 DEF ReadPages
  <2> HIDE DEF fs, F
  <2>6. /\ SubSeq(fs, 1, k) \in Seq(FindingType)
        /\ DOMAIN SubSeq(fs, 1, k) = 1 .. k /\ \A i \in 1 .. k : SubSeq(fs, 1, k)[i] = fs[i]
    BY <1>1
  <2>7. \A i \in 1 .. k : i \in DOMAIN fs
    BY <1>1
  <2>8. ToSet(SubSeq(fs, 1, k)) \subseteq ToSet(fs)
    BY <2>6, <2>7 DEF ToSet
  <2>9. QED BY <1>3, <2>5, <2>6, <2>8 DEF fs
<1>4. QED BY <1>2, <1>3

\* Getters that do not fail (engine.py:106).
LEMMA GettersAre ==
  ASSUME NEW w, w.findings \in Seq(FindingType)
  PROVE  /\ ReadGetters(w) \in Seq(FindingType)
         /\ ToSet(ReadGetters(w)) \subseteq ToSet(w.findings)
         /\ w.fails = {} => ToSet(ReadGetters(w)) = ToSet(w.findings)
<1> DEFINE fs == w.findings
           Asked(i) == \A c \in w.fails : c # 0 /\ fs[i].type # Getters[c]
           parts == [i \in DOMAIN fs |-> IF Asked(i) THEN <<fs[i]>> ELSE <<>>]
<1>1. ReadGetters(w) = FlattenSeq(parts)
  BY DEF ReadGetters
<1>2. parts = [i \in DOMAIN fs |-> parts[i]]
  OBVIOUS
<1>3. \A i \in DOMAIN fs : parts[i] = <<>> \/ parts[i] = <<fs[i]>>
  <2> HIDE DEF fs, Asked
  <2>1. QED OBVIOUS
<1>4. w.fails = {} => \A i \in DOMAIN fs : parts[i] = <<fs[i]>>
  <2>1. w.fails = {} => \A i \in DOMAIN fs : Asked(i)
    OBVIOUS
  <2> HIDE DEF fs, Asked
  <2>2. QED BY <2>1
<1>5. fs \in Seq(FindingType)
  OBVIOUS
<1> HIDE DEF parts, fs
<1>6. /\ FlattenSeq(parts) \in Seq(FindingType)
      /\ ToSet(FlattenSeq(parts)) \subseteq ToSet(fs)
      /\ (\A i \in DOMAIN fs : parts[i] = <<fs[i]>>) => ToSet(FlattenSeq(parts)) = ToSet(fs)
  BY <1>2, <1>3, <1>5, PickedAre, Zenon
<1>7. QED BY <1>1, <1>4, <1>6, Zenon DEF fs

\* Checks that do not fail (engine.py:211).
LEMMA ChecksAre ==
  ASSUME NEW w, w.findings \in Seq(FindingType)
  PROVE  /\ ReadChecks(w) \in Seq(FindingType)
         /\ ToSet(ReadChecks(w)) \subseteq ToSet(w.findings)
         /\ w.fails = {} => ToSet(ReadChecks(w)) = ToSet(w.findings)
<1> DEFINE fs == w.findings
           Asked(i) == w.fails \cap {1, i + 1} = {}
           parts == [i \in DOMAIN fs |-> IF Asked(i) THEN <<fs[i]>> ELSE <<>>]
<1>1. ReadChecks(w) = FlattenSeq(parts)
  BY DEF ReadChecks
<1>2. parts = [i \in DOMAIN fs |-> parts[i]]
  OBVIOUS
<1>3. \A i \in DOMAIN fs : parts[i] = <<>> \/ parts[i] = <<fs[i]>>
  <2> HIDE DEF fs, Asked
  <2>1. QED OBVIOUS
<1>4. w.fails = {} => \A i \in DOMAIN fs : parts[i] = <<fs[i]>>
  <2>1. w.fails = {} => \A i \in DOMAIN fs : Asked(i)
    OBVIOUS
  <2> HIDE DEF fs, Asked
  <2>2. QED BY <2>1
<1>5. fs \in Seq(FindingType)
  OBVIOUS
<1> HIDE DEF parts, fs
<1>6. /\ FlattenSeq(parts) \in Seq(FindingType)
      /\ ToSet(FlattenSeq(parts)) \subseteq ToSet(fs)
      /\ (\A i \in DOMAIN fs : parts[i] = <<fs[i]>>) => ToSet(FlattenSeq(parts)) = ToSet(fs)
  BY <1>2, <1>3, <1>5, PickedAre, Zenon
<1>7. QED BY <1>1, <1>4, <1>6, Zenon DEF fs

\* The six sources.
LEMMA SourcesAre ==
  /\ DOMAIN Sources = 1 .. 6
  /\ ToSet(Sources) = {"rightsizing", "compute-optimizer", "savings-plans", "reservations",
                       "cost-optimization-hub", "trusted-advisor"}
  /\ \A i \in 1 .. 6 : Sources[i] \in ToSet(Sources)
  /\ \A s \in ToSet(Sources) : \E i \in 1 .. 6 : s = Sources[i]
<1>1. DOMAIN Sources = 1 .. 6
  BY DEF Sources
<1>2. ToSet(Sources) = {Sources[i] : i \in 1 .. 6}
  BY <1>1 DEF ToSet
<1>3. {Sources[i] : i \in 1 .. 6} =
        {"rightsizing", "compute-optimizer", "savings-plans", "reservations",
         "cost-optimization-hub", "trusted-advisor"}
  BY DEF Sources
<1>4. QED BY <1>1, <1>2, <1>3

\* What is read of a source is a part of what it has, and all of it when no call fails.
LEMMA ReadIs ==
  ASSUME NEW s \in ToSet(Sources), NEW w, IsSource(s, w)
  PROVE  /\ Read(s, w) \in Seq(FindingType)
         /\ ToSet(Read(s, w)) \subseteq ToSet(w.findings)
         /\ w.fails = {} => ToSet(Read(s, w)) = ToSet(w.findings)
<1>1. w.findings \in Seq(FindingType)
  BY DEF IsSource
<1>2. CASE s \in Paged
  <2>1. Read(s, w) = ReadPages(w)
    BY <1>2 DEF Read, Paged, Single
  <2>2. w.fails \subseteq 1 .. Len(w.findings) + 1
    BY <1>2 DEF IsSource, CallsTo, Paged
  <2>3. QED BY <1>1, <2>1, <2>2, PagesAre, Zenon
<1>3. CASE s = "compute-optimizer"
  <2>1. Read(s, w) = ReadGetters(w)
    BY <1>3 DEF Read, Paged, Single
  <2>2. QED BY <1>1, <2>1, GettersAre, Zenon
<1>4. CASE s \in Single
  <2>1. Read(s, w) = ReadAnswer(w)
    BY <1>4 DEF Read, Paged, Single
  <2>2. CASE w.fails = {}
    BY <1>1, <2>1, <2>2 DEF ReadAnswer
  <2>3. CASE w.fails # {}
    <3>1. Read(s, w) = <<>>
      BY <2>1, <2>3 DEF ReadAnswer
    <3>2. <<>> \in Seq(FindingType) /\ ToSet(<<>>) = {}
      BY DEF ToSet
    <3>3. QED BY <2>3, <3>1, <3>2, Zenon
  <2>4. QED BY <2>2, <2>3
<1>5. CASE s \notin Paged /\ s # "compute-optimizer" /\ s \notin Single
  <2>1. Read(s, w) = ReadChecks(w)
    BY <1>5 DEF Read
  <2>2. QED BY <1>1, <2>1, ChecksAre, Zenon
<1>6. QED BY <1>2, <1>3, <1>4, <1>5

-----------------------------------------------------------------------------
(* The best recommendation for each key                                    *)

\* The best recommendations after each one (engine.py, best[k] = r).
Keeping(w, recs) ==
  /\ w[0] = <<>>
  /\ \A i \in 1 .. Len(recs) : w[i] = Keep(w[i - 1], recs[i])

\* A saving is a number.
LEMMA SavesInt == \A r \in RecType : r.savings \in Int
  BY DEF RecType

\* Keeping one more: at its key's place if it saves more, or at the end (engine.py:250).
LEMMA KeepIs ==
  ASSUME NEW t \in Seq(RecType), NEW r \in RecType
  PROVE  /\ Keep(t, r) \in Seq(RecType)
         /\ (\A a \in DOMAIN t : Key(t[a]) # Key(r)) => Keep(t, r) = Append(t, r)
         /\ (\E a \in DOMAIN t : Key(t[a]) = Key(r)) =>
              /\ DOMAIN Keep(t, r) = DOMAIN t
              /\ \A a \in DOMAIN t :
                   Keep(t, r)[a] = IF Key(t[a]) = Key(r) /\ r.savings > t[a].savings THEN r ELSE t[a]
<1> DEFINE same == {a \in DOMAIN t : Key(t[a]) = Key(r)}
           u == [a \in DOMAIN t |-> IF a \in same /\ r.savings > t[a].savings THEN r ELSE t[a]]
<1>1. Keep(t, r) = IF same = {} THEN Append(t, r) ELSE u
  BY DEF Keep
<1>2. /\ same = {} <=> \A a \in DOMAIN t : Key(t[a]) # Key(r)
      /\ \A a \in DOMAIN t : a \in same <=> Key(t[a]) = Key(r)
  OBVIOUS
<1>3. DOMAIN t = 1 .. Len(t) /\ Len(t) \in Nat /\ \A a \in DOMAIN t : t[a] \in RecType
  OBVIOUS
<1> HIDE DEF same
<1>4. u \in Seq(RecType)
  <2>1. u = [a \in 1 .. Len(t) |-> u[a]] /\ \A a \in 1 .. Len(t) : u[a] \in RecType
    BY <1>3
  <2> HIDE DEF u
  <2>2. QED BY <1>3, <2>1
<1>5. Append(t, r) \in Seq(RecType)
  OBVIOUS
<1>6. DOMAIN u = DOMAIN t /\ \A a \in DOMAIN t :
         u[a] = IF Key(t[a]) = Key(r) /\ r.savings > t[a].savings THEN r ELSE t[a]
  BY <1>2
<1> HIDE DEF u
<1>7. QED BY <1>1, <1>2, <1>4, <1>5, <1>6

\* The best come of keeping one recommendation after the other.
LEMMA KeepWalk ==
  ASSUME NEW recs \in Seq(RecType)
  PROVE  \E w : Keeping(w, recs) /\ FoldLeft(Keep, <<>>, recs) = w[Len(recs)]
<1> DEFINE n == Len(recs)
           V == Seq(RecType)
           empty == <<>>
           E(g) == [s \in SUBSET (1 .. n) |->
                      IF s = {} THEN <<>> ELSE Keep(g[s \ {Max(s)}], recs[Max(s)])]
           h == CHOOSE g : g = E(g)
           G == [p \in (1 .. n) \X V |-> Keep(p[2], recs[p[1]])]
<1>0. n \in Nat /\ DOMAIN recs = 1 .. n /\ empty \in V /\ \A i \in 1 .. n : recs[i] \in RecType
  OBVIOUS
<1>1. G \in [(1 .. n) \X V -> V]
  <2>1. ASSUME NEW p \in (1 .. n) \X V PROVE Keep(p[2], recs[p[1]]) \in V
    <3>1. p[2] \in V /\ recs[p[1]] \in RecType
      BY <1>0
    <3>2. QED BY <3>1, KeepIs
  <2>2. QED BY <2>1
<1>2. \E g : g = E(g)
  <2> HIDE DEF V, n, empty
  <2>1. \A i \in 1 .. n : \A v \in V : G[<<i, v>>] = Keep(v, recs[i])
    OBVIOUS
  <2> HIDE DEF G
  <2>2. PICK f \in [SUBSET (1 .. n) -> V] : Follows(f, 1 .. n, empty, Tops(n), G)
    BY <1>0, <1>1, FoldExists, Zenon
  <2>3. ASSUME NEW s \in SUBSET (1 .. n)
        PROVE  f[s] = IF s = {} THEN <<>> ELSE Keep(f[s \ {Max(s)}], recs[Max(s)])
    <3>1. CASE s = {}
      BY <2>2, <3>1 DEF Follows, empty
    <3>2. CASE s # {}
      <4>1. Tops(n)[s] = Max(s) /\ Max(s) \in 1 .. n
        BY <1>0, <3>2, MaxIs DEF Tops
      <4>2. f[s \ {Max(s)}] \in V
        OBVIOUS
      <4>3. f[s] = G[<<Max(s), f[s \ {Max(s)}]>>]
        BY <2>2, <3>2, <4>1 DEF Follows
      <4>4. QED BY <2>1, <3>2, <4>1, <4>2, <4>3
    <3>3. QED BY <3>1, <3>2
  <2>4. f = E(f)
    <3>1. f = [s \in SUBSET (1 .. n) |-> f[s]]
      OBVIOUS
    <3>2. QED BY <2>3, <3>1
  <2>5. QED BY <2>4
<1>3. h = E(h)
  BY <1>2
<1>4. FoldLeft(Keep, <<>>, recs) = h[1 .. n]
  BY <1>0 DEF FoldLeft, MapThenFoldSet
<1> DEFINE w == [i \in 0 .. n |-> h[1 .. i]]
<1>5. \A s \in SUBSET (1 .. n) :
        h[s] = IF s = {} THEN <<>> ELSE Keep(h[s \ {Max(s)}], recs[Max(s)])
  BY <1>3
<1> HIDE DEF h
<1>6. w[0] = <<>>
  <2>1. 1 .. 0 = {} /\ {} \in SUBSET (1 .. n) /\ 0 \in 0 .. n
    BY <1>0
  <2>2. w[0] = h[{}]
    BY <2>1
  <2>3. QED BY <1>5, <2>1, <2>2
<1>7. ASSUME NEW i \in 1 .. n PROVE w[i] = Keep(w[i - 1], recs[i])
  <2>0. i \in 0 .. n /\ i - 1 \in 0 .. n /\ i \in Nat /\ i > 0
    BY <1>0
  <2>1. w[i] = h[1 .. i] /\ w[i - 1] = h[1 .. i - 1]
    BY <2>0
  <2>2. Max(1 .. i) = i /\ (1 .. i) \ {Max(1 .. i)} = 1 .. i - 1 /\ 1 .. i # {} /\ 1 .. i \in SUBSET (1 .. n)
    <3>1. 1 .. i \in SUBSET (1 .. n)
      BY <1>0
    <3>2. QED BY <2>0, <3>1, MaxOfFirst, Zenon
  <2> HIDE DEF w
  <2>3. h[1 .. i] = Keep(h[(1 .. i) \ {Max(1 .. i)}], recs[Max(1 .. i)])
    BY <1>5, <2>2
  <2>4. QED BY <2>1, <2>2, <2>3
<1>8. w[n] = h[1 .. n]
  BY <1>0
<1> HIDE DEF w
<1>9. Keeping(w, recs)
  BY <1>6, <1>7 DEF Keeping
<1>10. QED BY <1>4, <1>8, <1>9

\* What the best of the first i recommendations are.
Distinct(t) == \A a, b \in DOMAIN t : Key(t[a]) = Key(t[b]) => a = b
BestOf(t, recs, i) ==
  /\ t \in Seq(RecType) /\ Distinct(t)
  /\ \A a \in DOMAIN t : \E j \in 1 .. i : t[a] = recs[j]
  /\ \A j \in 1 .. i : \E a \in DOMAIN t : Key(t[a]) = Key(recs[j]) /\ t[a].savings >= recs[j].savings

\* One more keeps them the best.
LEMMA KeepKeeps ==
  ASSUME NEW recs \in Seq(RecType), NEW i \in 1 .. Len(recs), NEW t, BestOf(t, recs, i - 1)
  PROVE  BestOf(Keep(t, recs[i]), recs, i)
<1> DEFINE r == recs[i]  u == Keep(t, r)
<1>1. /\ i \in Nat /\ i - 1 \in Nat /\ \A j \in 1 .. i : j \in 1 .. i - 1 \/ j = i
      /\ i \in 1 .. i /\ \A j \in 1 .. i - 1 : j \in 1 .. i
      /\ \A j \in 1 .. i : j \in DOMAIN recs
  OBVIOUS
<1>2. r \in RecType /\ r.savings \in Int /\ \A j \in 1 .. i : recs[j] \in RecType /\ recs[j].savings \in Int
  <2>1. \A j \in DOMAIN recs : recs[j] \in RecType
    OBVIOUS
  <2>2. QED BY <1>1, <2>1, SavesInt
<1>3. /\ t \in Seq(RecType) /\ Distinct(t)
      /\ \A a \in DOMAIN t : \E j \in 1 .. i - 1 : t[a] = recs[j]
      /\ \A j \in 1 .. i - 1 : \E a \in DOMAIN t : Key(t[a]) = Key(recs[j]) /\ t[a].savings >= recs[j].savings
  BY DEF BestOf
<1>4. DOMAIN t = 1 .. Len(t) /\ Len(t) \in Nat /\ \A a \in DOMAIN t : t[a] \in RecType /\ t[a].savings \in Int
  BY <1>3, SavesInt
<1>5. /\ u \in Seq(RecType)
      /\ (\A a \in DOMAIN t : Key(t[a]) # Key(r)) => u = Append(t, r)
      /\ (\E a \in DOMAIN t : Key(t[a]) = Key(r)) =>
           /\ DOMAIN u = DOMAIN t
           /\ \A a \in DOMAIN t :
                u[a] = IF Key(t[a]) = Key(r) /\ r.savings > t[a].savings THEN r ELSE t[a]
  <2> HIDE DEF r
  <2>1. QED BY <1>2, <1>3, KeepIs
<1>6. CASE \E a \in DOMAIN t : Key(t[a]) = Key(r)
  <2>1. PICK c \in DOMAIN t : Key(t[c]) = Key(r)
    BY <1>6
  <2>2. DOMAIN u = DOMAIN t /\ \A a \in DOMAIN t :
          u[a] = IF Key(t[a]) = Key(r) /\ r.savings > t[a].savings THEN r ELSE t[a]
    BY <1>5, <1>6
  <2> HIDE DEF u
  <2>3. \A a \in DOMAIN t : Key(u[a]) = Key(t[a])
    BY <2>2
  <2>4. \A a \in DOMAIN t : u[a].savings >= t[a].savings
    <3> HIDE DEF r
    <3>1. QED BY <1>2, <1>4, <2>2, SMTT(30)
  <2>5. u[c].savings >= r.savings
    <3> HIDE DEF r
    <3>1. QED BY <1>2, <1>4, <2>1, <2>2
  <2>6. \A a \in DOMAIN u : \E j \in 1 .. i : u[a] = recs[j]
    <3>1. ASSUME NEW a \in DOMAIN t PROVE \E j \in 1 .. i : u[a] = recs[j]
      <4>1. CASE u[a] = t[a]
        BY <1>1, <1>3, <4>1
      <4>2. CASE u[a] = r
        BY <1>1, <4>2
      <4>3. QED BY <2>2, <4>1, <4>2
    <3>2. QED BY <2>2, <3>1
  <2>7. \A a \in DOMAIN u : u[a].savings \in Int
    <3> HIDE DEF r
    <3>1. QED BY <1>2, <1>4, <2>2
  <2>8. ASSUME NEW j \in 1 .. i
        PROVE  \E a \in DOMAIN u : Key(u[a]) = Key(recs[j]) /\ u[a].savings >= recs[j].savings
    <3>1. CASE j = i
      BY <2>1, <2>2, <2>3, <2>5, <3>1
    <3>2. CASE j \in 1 .. i - 1
      <4>1. PICK a \in DOMAIN t : Key(t[a]) = Key(recs[j]) /\ t[a].savings >= recs[j].savings
        BY <1>3, <3>2
      <4>2. u[a].savings >= recs[j].savings
        <5>1. u[a].savings >= t[a].savings /\ recs[j].savings \in Int /\ t[a].savings \in Int /\ u[a].savings \in Int
          BY <1>2, <1>4, <2>2, <2>4, <2>7
        <5>2. QED BY <4>1, <5>1
      <4>3. QED BY <2>2, <2>3, <4>1, <4>2
    <3>3. QED BY <1>1, <3>1, <3>2
  <2>9. Distinct(u)
    BY <1>3, <2>2, <2>3 DEF Distinct
  <2>10. BestOf(u, recs, i)
    BY <1>5, <2>6, <2>8, <2>9, Zenon DEF BestOf
  <2>11. QED BY <2>10 DEF u
<1>7. CASE \A a \in DOMAIN t : Key(t[a]) # Key(r)
  <2>0. PICK n \in Nat : n = Len(t) + 1
    BY <1>4
  <2>1. u = Append(t, r)
    BY <1>5, <1>7
  <2>2. /\ DOMAIN u = DOMAIN t \cup {n} /\ n \notin DOMAIN t /\ n \in DOMAIN u
        /\ \A a \in DOMAIN t : u[a] = t[a]
        /\ u[n] = r
    <3>1. t \in Seq(RecType) /\ r \in RecType
      BY <1>2, <1>3
    <3> HIDE DEF u, r
    <3>2. DOMAIN u = 1 .. n /\ DOMAIN t = 1 .. n - 1 /\ u[n] = r /\ \A a \in 1 .. n - 1 : u[a] = t[a]
      BY <2>0, <2>1, <3>1
    <3>3. 1 .. n = 1 .. n - 1 \cup {n} /\ n \notin 1 .. n - 1
      BY <2>0
    <3>4. QED BY <3>2, <3>3
  <2> HIDE DEF u
  <2>3. Distinct(u)
    <3> HIDE DEF r
    <3>1. QED BY <1>3, <1>7, <2>2, ZenonT(40) DEF Distinct
  <2>4. \A a \in DOMAIN u : \E j \in 1 .. i : u[a] = recs[j]
    BY <1>1, <1>3, <2>2
  <2>5. \A j \in 1 .. i : \E a \in DOMAIN u : Key(u[a]) = Key(recs[j]) /\ u[a].savings >= recs[j].savings
    <3>1. ASSUME NEW j \in 1 .. i - 1
          PROVE  \E a \in DOMAIN u : Key(u[a]) = Key(recs[j]) /\ u[a].savings >= recs[j].savings
      <4>1. PICK a \in DOMAIN t : Key(t[a]) = Key(recs[j]) /\ t[a].savings >= recs[j].savings
        BY <1>3, Zenon
      <4>2. a \in DOMAIN u /\ u[a] = t[a]
        BY <2>2
      <4>3. QED BY <4>1, <4>2, Zenon
    <3>2. Key(u[n]) = Key(recs[i]) /\ u[n].savings >= recs[i].savings
      BY <1>2, <2>2
    <3>3. QED BY <1>1, <2>2, <3>1, <3>2
  <2>6. BestOf(u, recs, i)
    BY <1>5, <2>3, <2>4, <2>5, Zenon DEF BestOf
  <2>7. QED BY <2>6 DEF u
<1>8. QED BY <1>6, <1>7

\* What is kept of any recommendations are the best.
LEMMA KeptAreBest ==
  ASSUME NEW recs \in Seq(RecType)
  PROVE  BestOf(FoldLeft(Keep, <<>>, recs), recs, Len(recs))
<1>1. PICK w : Keeping(w, recs) /\ FoldLeft(Keep, <<>>, recs) = w[Len(recs)]
  BY KeepWalk, Zenon
<1> DEFINE n == Len(recs)
           Q == {i \in 0 .. n : BestOf(w[i], recs, i)}
<1>2. n \in Nat
  OBVIOUS
<1>3. 0 \in Q
  <2>1. w[0] = <<>>
    BY <1>1 DEF Keeping
  <2>2. BestOf(<<>>, recs, 0)
    BY DEF BestOf, Distinct
  <2>3. 0 \in 0 .. n
    BY <1>2
  <2>4. QED BY <2>1, <2>2, <2>3
<1>4. ASSUME NEW i \in 0 .. n - 1, i \in Q PROVE i + 1 \in Q
  <2>1. PICK j \in 1 .. n : j = i + 1 /\ j - 1 = i
    BY <1>2
  <2>2. BestOf(w[j - 1], recs, j - 1)
    BY <1>4, <2>1
  <2>3. BestOf(Keep(w[j - 1], recs[j]), recs, j)
    BY <2>2, KeepKeeps
  <2>4. w[j] = Keep(w[j - 1], recs[j])
    BY <1>1 DEF Keeping
  <2>5. j \in 0 .. n
    BY <1>2
  <2>6. QED BY <2>1, <2>3, <2>4, <2>5
<1> HIDE DEF Q
<1>5. \A i \in 0 .. n : i \in Q
  BY <1>2, <1>3, <1>4, UpTo, Zenon
<1>6. n \in Q
  BY <1>2, <1>5
<1>7. BestOf(w[n], recs, n)
  BY <1>6 DEF Q
<1>8. QED BY <1>1, <1>7

-----------------------------------------------------------------------------
(* What is read of all sources, and what is shown of it                    *)

\* All that was read, one source after the other.
Said(w) == FlattenSeq([i \in DOMAIN Sources |-> MadeOf(Sources[i], Read(Sources[i], w[Sources[i]]))])
AreSources(w) == \A s \in ToSet(Sources) : IsSource(s, w[s])

\* What was read of the sources, together.
LEMMA SaidAre ==
  ASSUME NEW w, AreSources(w)
  PROVE  /\ Said(w) \in Seq(RecType)
         /\ \A r : r \in ToSet(Said(w)) <=> \E s \in ToSet(Sources) : r \in ToSet(MadeOf(s, Read(s, w[s])))
<1> DEFINE ss == [i \in DOMAIN Sources |-> MadeOf(Sources[i], Read(Sources[i], w[Sources[i]]))]
<1>1. \A s \in ToSet(Sources) : MadeOf(s, Read(s, w[s])) \in Seq(RecType)
  <2>1. ASSUME NEW s \in ToSet(Sources) PROVE Read(s, w[s]) \in Seq(FindingType)
    BY ReadIs DEF AreSources
  <2>2. QED BY <2>1, MadeOfIs
<1>2. /\ DOMAIN ss = 1 .. 6 /\ ss = [i \in 1 .. 6 |-> ss[i]]
      /\ \A i \in 1 .. 6 : ss[i] = MadeOf(Sources[i], Read(Sources[i], w[Sources[i]]))
  BY SourcesAre
<1> HIDE DEF ss
<1>3. ss \in Seq(Seq(RecType))
  <2>1. \A i \in 1 .. 6 : ss[i] \in Seq(RecType)
    BY <1>1, <1>2, SourcesAre, Zenon
  <2>2. 6 \in Nat
    OBVIOUS
  <2>3. QED BY <1>2, <2>1, <2>2, ListsAre, Zenon
<1>4. /\ FlattenSeq(ss) \in Seq(RecType)
      /\ \A r : r \in ToSet(FlattenSeq(ss)) <=> Joins(ss, r)
  BY <1>3, FlattenHas
<1>5. \A r : Joins(ss, r) <=> \E s \in ToSet(Sources) : r \in ToSet(MadeOf(s, Read(s, w[s])))
  <2>1. ASSUME NEW r, NEW i \in 1 .. 6, r \in ToSet(ss[i])
        PROVE  \E s \in ToSet(Sources) : r \in ToSet(MadeOf(s, Read(s, w[s])))
    <3>1. Sources[i] \in ToSet(Sources)
      BY SourcesAre
    <3>2. r \in ToSet(MadeOf(Sources[i], Read(Sources[i], w[Sources[i]])))
      BY <1>2, <2>1
    <3>3. QED BY <3>1, <3>2, Zenon
  <2>2. ASSUME NEW r, NEW s \in ToSet(Sources), r \in ToSet(MadeOf(s, Read(s, w[s])))
        PROVE  \E i \in 1 .. 6 : r \in ToSet(ss[i])
    <3>1. PICK i \in 1 .. 6 : s = Sources[i]
      BY SourcesAre
    <3>2. r \in ToSet(ss[i])
      BY <1>2, <2>2, <3>1
    <3>3. QED BY <3>2
  <2>3. QED BY <1>2, <2>1, <2>2, Zenon DEF Joins
<1>6. Said(w) = FlattenSeq(ss)
  BY DEF Said, ss
<1>7. QED BY <1>4, <1>5, <1>6, Zenon

\* The recommendations as they are shown: those that were kept, the largest saving first.
LEMMA RankedAre ==
  ASSUME NEW t \in Seq(RecType), Distinct(t)
  PROVE  LET shown == Ranked(t) IN
         /\ shown \in Seq(RecType)
         /\ \A r : (\E p \in DOMAIN shown : shown[p] = r) <=> (\E i \in DOMAIN t : t[i] = r)
         /\ Distinct(shown)
         /\ \A p, q \in DOMAIN shown : p < q => shown[p].savings >= shown[q].savings
<1> DEFINE worth == SavingsOf(t)  order == Order(worth)  shown == Ranked(t)
<1>0. PICK n \in Nat : n = Len(t)
  OBVIOUS
<1>1. DOMAIN t = 1 .. n /\ \A i \in 1 .. n : t[i] \in RecType
  BY <1>0
<1>2. worth \in [1 .. n -> Int] /\ \A i \in 1 .. n : worth[i] = t[i].savings
  BY <1>1, SavesInt DEF SavingsOf
<1>3. shown = [p \in 1 .. n |-> t[order[p]]]
  <2>1. DOMAIN order = 1 .. n
    BY <1>2, FS_Interval DEF Order
  <2>2. shown = [p \in DOMAIN order |-> t[order[p]]]
    BY DEF Ranked, Descending
  <2> HIDE DEF order, shown
  <2>3. QED BY <2>1, <2>2
<1> HIDE DEF worth
<1>4. /\ order \in [1 .. n -> 1 .. n]
      /\ \A i \in 1 .. n : \E p \in 1 .. n : order[p] = i
      /\ \A p, q \in 1 .. n : p < q => Ahead(worth, order[p], order[q])
      /\ \A p, q \in 1 .. n : order[p] = order[q] => p = q
  BY <1>2, OrderIs
<1> HIDE DEF order, shown
<1>5. \A p \in 1 .. n : order[p] \in 1 .. n /\ shown[p] = t[order[p]] /\ shown[p] \in RecType
  BY <1>1, <1>3, <1>4
<1>6. shown \in Seq(RecType) /\ DOMAIN shown = 1 .. n
  BY <1>3, <1>5
<1>7. ASSUME NEW r PROVE (\E p \in 1 .. n : shown[p] = r) <=> (\E i \in 1 .. n : t[i] = r)
  <2>1. ASSUME NEW p \in 1 .. n, shown[p] = r PROVE \E i \in 1 .. n : t[i] = r
    BY <1>5, <2>1
  <2>2. ASSUME NEW i \in 1 .. n, t[i] = r PROVE \E p \in 1 .. n : shown[p] = r
    <3>1. PICK p \in 1 .. n : order[p] = i
      BY <1>4
    <3>2. QED BY <1>5, <2>2, <3>1
  <2>3. QED BY <2>1, <2>2
<1>8. Distinct(shown)
  <2>1. ASSUME NEW p \in 1 .. n, NEW q \in 1 .. n, Key(shown[p]) = Key(shown[q]) PROVE p = q
    <3>1. order[p] = order[q]
      BY <1>1, <1>5, <2>1 DEF Distinct
    <3>2. QED BY <1>4, <3>1
  <2>2. QED BY <1>6, <2>1 DEF Distinct
<1>9. ASSUME NEW p \in 1 .. n, NEW q \in 1 .. n, p < q PROVE shown[p].savings >= shown[q].savings
  <2>1. Ahead(worth, order[p], order[q]) /\ worth[order[p]] \in Int /\ worth[order[q]] \in Int
    BY <1>2, <1>4, <1>5, <1>9
  <2>2. worth[order[p]] >= worth[order[q]]
    BY <2>1 DEF Ahead
  <2>3. QED BY <1>2, <1>5, <2>2
<1>10. QED BY <1>1, <1>6, <1>7, <1>8, <1>9 DEF shown

\* What is shown of what was read.
ShowsBest(shown, said) ==
  /\ shown \in Seq(RecType) /\ Distinct(shown)
  /\ \A p, q \in DOMAIN shown : p < q => shown[p].savings >= shown[q].savings
  /\ ToSet(shown) \subseteq ToSet(said)
  /\ \A r \in ToSet(said) : \E q \in ToSet(shown) : Key(q) = Key(r) /\ q.savings >= r.savings

\* What is shown of any recommendations are the best, the largest saving first (engine.py:249).
LEMMA BestAreShown ==
  ASSUME NEW recs \in Seq(RecType)
  PROVE  ShowsBest(Ranked(FoldLeft(Keep, <<>>, recs)), recs)
<1> DEFINE t == FoldLeft(Keep, <<>>, recs)  shown == Ranked(t)
<1>1. BestOf(t, recs, Len(recs))
  BY KeptAreBest, Zenon
<1> HIDE DEF t
<1>2. DOMAIN recs = 1 .. Len(recs)
  OBVIOUS
<1>3. /\ shown \in Seq(RecType)
      /\ \A r : (\E p \in DOMAIN shown : shown[p] = r) <=> (\E i \in DOMAIN t : t[i] = r)
      /\ Distinct(shown)
      /\ \A p, q \in DOMAIN shown : p < q => shown[p].savings >= shown[q].savings
  <2>1. t \in Seq(RecType) /\ Distinct(t)
    BY <1>1 DEF BestOf
  <2>2. QED BY <2>1, RankedAre
<1> HIDE DEF shown
<1>4. \A r : (r \in ToSet(shown) <=> \E i \in DOMAIN t : t[i] = r)
  BY <1>3, Zenon DEF ToSet
<1>5. ToSet(shown) \subseteq ToSet(recs)
  <2>1. ASSUME NEW r \in ToSet(shown) PROVE r \in ToSet(recs)
    <3>1. PICK i \in DOMAIN t : t[i] = r
      BY <1>4, Zenon
    <3>2. PICK j \in 1 .. Len(recs) : t[i] = recs[j]
      BY <1>1, Zenon DEF BestOf
    <3>3. QED BY <1>2, <3>1, <3>2, Zenon DEF ToSet
  <2>2. QED BY <2>1
<1>6. ASSUME NEW r \in ToSet(recs)
      PROVE  \E q \in ToSet(shown) : Key(q) = Key(r) /\ q.savings >= r.savings
  <2>1. PICK j \in 1 .. Len(recs) : recs[j] = r
    BY <1>2, Zenon DEF ToSet
  <2>2. PICK a \in DOMAIN t : Key(t[a]) = Key(recs[j]) /\ t[a].savings >= recs[j].savings
    BY <1>1, Zenon DEF BestOf
  <2>3. t[a] \in ToSet(shown)
    BY <1>4, Zenon
  <2>4. QED BY <2>1, <2>2, <2>3, Zenon
<1>7. QED BY <1>3, <1>5, <1>6, Zenon DEF ShowsBest, shown, t

-----------------------------------------------------------------------------
(* The report of the savings                                               *)

Noting(w) == [i \in DOMAIN Sources |-> Noted(Sources[i], w[Sources[i]])]
SourcesIn(shown) == {r.source : r \in ToSet(shown)}
Counted(shown) ==
  [s \in SourcesIn(shown) |-> Cardinality({i \in DOMAIN shown : shown[i].source = s})]

\* The parts of the report (engine.py:241).
LEMMA ReportIs ==
  ASSUME NEW w, AreSources(w)
  PROVE  LET report == AllRecommendations(w)
             shown  == report.recommendations IN
         /\ ShowsBest(shown, Said(w))
         /\ report.total = SumFunction(SavingsOf(shown))
         /\ report.bySource = Counted(shown)
         /\ report.notes = FlattenSeq(Noting(w))
<1> DEFINE ranked == Ranked(FoldLeft(Keep, <<>>, Said(w)))
<1>1. AllRecommendations(w) =
        [total           |-> SumFunction(SavingsOf(ranked)),
         recommendations |-> ranked,
         bySource        |-> Counted(ranked),
         notes           |-> FlattenSeq(Noting(w))]
  BY Zenon DEF AllRecommendations, Said, Noting, Counted, SourcesIn
<1>2. ShowsBest(ranked, Said(w))
  BY SaidAre, BestAreShown, Zenon
<1> HIDE DEF ranked
<1>3. QED BY <1>1, <1>2

\* The total is that of the recommendations, each once.
LEMMA ShowsTotal ==
  ASSUME NEW shown \in Seq(RecType), Distinct(shown)
  PROVE  SumFunction(SavingsOf(shown)) = SumFunction([r \in ToSet(shown) |-> r.savings])
<1> DEFINE D == DOMAIN shown  g == SavingsOf(shown)  f == [r \in ToSet(shown) |-> r.savings]
<1>1. D = 1 .. Len(shown) /\ Len(shown) \in Int /\ \A i \in D : shown[i] \in RecType
  OBVIOUS
<1>2. IsFiniteSet(D)
  BY <1>1, FS_Interval
<1>3. DOMAIN g = D /\ \A i \in D : g[i] = shown[i].savings /\ g[i] \in Int
  BY <1>1, SavesInt DEF SavingsOf
<1>4. DOMAIN f = ToSet(shown) /\ \A r \in ToSet(shown) : f[r] = r.savings
  OBVIOUS
<1>5. {shown[i] : i \in D} = ToSet(shown)
  BY DEF ToSet
<1>6. \A i \in D : g[i] \in Int /\ f[shown[i]] = g[i]
  BY <1>3, <1>4, <1>5
<1>7. \A i, j \in D : shown[i] = shown[j] => i = j
  BY DEF Distinct
<1> HIDE DEF D, g, f
<1>8. SumFunctionOnSet(g, D) = SumFunctionOnSet(f, {shown[i] : i \in D})
  BY <1>2, <1>6, <1>7, SumRenamed
<1>9. SumFunctionOnSet(g, DOMAIN g) = SumFunctionOnSet(f, DOMAIN f)
  BY <1>3, <1>4, <1>5, <1>8, Zenon
<1>10. QED BY <1>9, Zenon DEF SumFunction, g, f

\* The counts by source come to what is shown.
LEMMA ShowsCount ==
  ASSUME NEW shown \in Seq(RecType)
  PROVE  Len(shown) = SumFunction(Counted(shown))
<1> DEFINE D == DOMAIN shown  class == [i \in D |-> shown[i].source]  K == SourcesIn(shown)
           count == Counted(shown)
<1>1. D = 1 .. Len(shown) /\ Len(shown) \in Nat
  OBVIOUS
<1>2. IsFiniteSet(D) /\ Cardinality(D) = Len(shown)
  BY <1>1, FS_Interval
<1>3. K = {class[i] : i \in D}
  BY DEF SourcesIn, ToSet
<1>4. \A i \in D : class[i] \in K
  BY <1>3
<1>5. IsFiniteSet(K)
  <2>1. class \in Surjection(D, K)
    BY <1>3, <1>4 DEF Surjection
  <2>2. QED BY <1>2, <2>1, FS_Surjection, Zenon
<1>6. DOMAIN count = K /\ \A s \in K : count[s] = Cardinality({i \in D : class[i] = s})
  <2>1. ASSUME NEW s PROVE {i \in D : class[i] = s} = {i \in DOMAIN shown : shown[i].source = s}
    OBVIOUS
  <2>2. \A s \in K : count[s] = Cardinality({i \in DOMAIN shown : shown[i].source = s})
    BY DEF Counted
  <2>3. DOMAIN count = K
    BY DEF Counted
  <2> HIDE DEF count, K, class, D
  <2>4. QED BY <2>1, <2>2, <2>3, Zenon
<1> HIDE DEF D, class, K, count
<1>7. Cardinality(D) = SumFunctionOnSet(count, K)
  BY <1>2, <1>4, <1>5, <1>6, SumOfClasses
<1>8. QED BY <1>2, <1>6, <1>7, Zenon DEF SumFunction, count

\* A source has all that is read of it.
LEMMA SaidByAll ==
  ASSUME NEW w, AreSources(w), NEW r \in ToSet(Said(w))
  PROVE  \E s \in ToSet(Sources) : r \in ToSet(MadeOf(s, w[s].findings))
<1>1. PICK s \in ToSet(Sources) : r \in ToSet(MadeOf(s, Read(s, w[s])))
  BY SaidAre, Zenon
<1>2. /\ Read(s, w[s]) \in Seq(FindingType) /\ w[s].findings \in Seq(FindingType)
      /\ ToSet(Read(s, w[s])) \subseteq ToSet(w[s].findings)
  <2>1. IsSource(s, w[s])
    BY DEF AreSources
  <2>2. w[s].findings \in Seq(FindingType)
    BY <2>1 DEF IsSource
  <2>3. QED BY <2>1, <2>2, ReadIs, Zenon
<1>3. PICK f \in ToSet(Read(s, w[s])) : r \in ToSet(Made(s, f))
  BY <1>1, <1>2, MadeOfIs, Zenon
<1>4. f \in ToSet(w[s].findings)
  BY <1>2, Zenon
<1>5. r \in ToSet(MadeOf(s, w[s].findings))
  BY <1>2, <1>3, <1>4, MadeOfIs, Zenon
<1>6. QED BY <1>5, Zenon

\* The report of any sources is their best.
LEMMA ReportIsBest ==
  ASSUME NEW w, AreSources(w)
  PROVE  IsBest(AllRecommendations(w), w)
<1> DEFINE report == AllRecommendations(w)  shown == report.recommendations
           said == UNION {ToSet(MadeOf(s, w[s].findings)) : s \in ToSet(Sources)}
<1>1. /\ ShowsBest(shown, Said(w))
      /\ report.total = SumFunction(SavingsOf(shown))
      /\ report.bySource = Counted(shown)
  BY ReportIs, Zenon
<1>2. IsBest(report, w) <=>
        /\ \A s \in ToSet(Sources) : \A r \in ToSet(MadeOf(s, Read(s, w[s]))) : Represented(report, r)
        /\ ToSet(shown) \subseteq said
        /\ \A i, j \in DOMAIN shown : i < j =>
             Key(shown[i]) # Key(shown[j]) /\ shown[i].savings >= shown[j].savings
        /\ report.total = SumFunction([r \in ToSet(shown) |-> r.savings])
        /\ Len(shown) = SumFunction(report.bySource)
  BY Zenon DEF IsBest
<1>3. ASSUME NEW s \in ToSet(Sources), NEW r \in ToSet(MadeOf(s, Read(s, w[s])))
      PROVE  Represented(report, r)
  <2>1. r \in ToSet(Said(w))
    BY SaidAre, Zenon
  <2>2. QED BY <1>1, <2>1, Zenon DEF Represented, ShowsBest
<1> HIDE DEF report
<1>4. ToSet(shown) \subseteq said
  <2>1. ASSUME NEW r \in ToSet(shown) PROVE r \in said
    <3>1. r \in ToSet(Said(w))
      BY <1>1 DEF ShowsBest
    <3>2. PICK s \in ToSet(Sources) : r \in ToSet(MadeOf(s, w[s].findings))
      BY <3>1, SaidByAll, Zenon
    <3>3. QED BY <3>2, Zenon
  <2>2. QED BY <2>1, Zenon
<1> HIDE DEF said
<1>5. shown \in Seq(RecType) /\ Distinct(shown)
  BY <1>1 DEF ShowsBest
<1>6. ASSUME NEW i \in DOMAIN shown, NEW j \in DOMAIN shown, i < j
      PROVE  Key(shown[i]) # Key(shown[j]) /\ shown[i].savings >= shown[j].savings
  <2>1. shown[i].savings >= shown[j].savings
    BY <1>1, <1>6, Zenon DEF ShowsBest
  <2>2. i # j
    <3>1. DOMAIN shown \subseteq Int
      BY <1>5
    <3> HIDE DEF shown
    <3>2. QED BY <1>6, <3>1
  <2>3. QED BY <1>5, <2>1, <2>2, Zenon DEF Distinct
<1>7. report.total = SumFunction([r \in ToSet(shown) |-> r.savings])
  BY <1>1, <1>5, ShowsTotal, Zenon
<1>8. Len(shown) = SumFunction(report.bySource)
  BY <1>1, <1>5, ShowsCount, Zenon
<1>9. IsBest(report, w)
  BY <1>2, <1>3, <1>4, <1>6, <1>7, <1>8, Zenon
<1>10. QED BY <1>9 DEF report

\* A world answers for each source.
LEMMA WorldHasSources ==
  ASSUME NEW w \in Worlds
  PROVE  AreSources(w.optimization)
BY DigestAssumption, Zenon DEF IsWorld, AreSources, IsSource

\* SavingsAreBest (optimize/engine.py:250): whatever calls fail, each key that a source
\* which could be read has a finding for is shown once, with the most it can save, the
\* largest saving first; total and counts are those of what is shown.
THEOREM SavingsStayBest == Spec => []SavingsAreBest
<1>1. DayInv => SavingsAreBest
  <2>1. SUFFICES ASSUME DayInv PROVE SavingsAreBest
    OBVIOUS
  <2>2. world \in Worlds
    BY <2>1 DEF DayInv
  <2>3. AreSources(world.optimization)
    BY <2>2, WorldHasSources, Zenon
  <2>4. IsBest(AllRecommendations(world.optimization), world.optimization)
    BY <2>3, ReportIsBest, Zenon
  <2>5. QED BY <2>4, Zenon DEF SavingsAreBest, Savings
<1>2. QED BY <1>1, DayInductive, PTL DEF Spec

-----------------------------------------------------------------------------
(* What could not be read                                                  *)

\* The first n of a list that is not empty.
LEMMA FirstIs ==
  ASSUME NEW E, NEW s \in Seq(E), NEW n \in Nat, n > 0, s # <<>>
  PROVE  FirstOf(s, n) # <<>>
<1>1. Len(s) \in Nat /\ Len(s) > 0
  OBVIOUS
<1>2. PICK k \in Nat : k = (IF Len(s) < n THEN Len(s) ELSE n) /\ k > 0 /\ k <= Len(s)
  BY <1>1
<1>3. Len(SubSeq(s, 1, k)) = k
  BY <1>2
<1>4. FirstOf(s, n) = SubSeq(s, 1, k)
  BY <1>2 DEF FirstOf
<1>5. QED BY <1>2, <1>3, <1>4

\* A list with a member is not empty.
LEMMA MembersAre ==
  ASSUME NEW E, NEW s \in Seq(E), NEW r \in ToSet(s)
  PROVE  s # <<>>
BY DEF ToSet

(* A source with a call that failed has left a note, unless it is Trusted Advisor. *)
LEMMA NotedIs ==
  ASSUME NEW s \in ToSet(Sources), NEW w, IsSource(s, w)
  PROVE  /\ Noted(s, w) \in Seq(ToSet(Sources))
         /\ s # "trusted-advisor" /\ w.fails # {} => s \in ToSet(Noted(s, w))
<1> DEFINE V == Seq(ToSet(Sources))
<1>1. <<>> \in V /\ <<s>> \in V /\ s \in ToSet(<<s>>)
  BY DEF ToSet
<1>2. CASE s = "trusted-advisor"
  <2>1. Noted(s, w) = IF 1 \in w.fails THEN <<s>> ELSE <<>>
    BY <1>2 DEF Noted
  <2>2. CASE 1 \in w.fails
    BY <1>1, <1>2, <2>1, <2>2, Zenon
  <2>3. CASE 1 \notin w.fails
    <3>1. Noted(s, w) = <<>>
      BY <2>1, <2>3
    <3>2. QED BY <1>1, <1>2, <3>1, Zenon
  <2>4. QED BY <2>2, <2>3, Zenon
<1>3. CASE s = "compute-optimizer"
  <2> DEFINE n == IF 0 \in w.fails THEN 1 ELSE Cardinality(w.fails)
             notes == [i \in 1 .. n |-> s]
  <2>1. Noted(s, w) = notes
    BY <1>3 DEF Noted
  <2>2. IsFiniteSet(w.fails)
    <3>1. w.fails \subseteq 0 .. 3
      BY <1>3 DEF IsSource, CallsTo, Getters
    <3>2. IsFiniteSet(0 .. 3)
      <4>1. 0 \in Int /\ 3 \in Int
        OBVIOUS
      <4>2. QED BY <4>1, FS_Interval, Zenon
    <3>3. QED BY <3>1, <3>2, FS_Subset, Zenon
  <2>3. n \in Nat /\ (w.fails # {} => n >= 1)
    <3>1. Cardinality(w.fails) \in Nat /\ (Cardinality(w.fails) = 0 <=> w.fails = {})
      BY <2>2, FS_CardinalityType, FS_EmptySet
    <3>2. QED BY <3>1
  <2> HIDE DEF n
  <2>4. notes \in Seq(ToSet(Sources))
    BY <2>3
  <2>5. w.fails # {} => s \in ToSet(notes)
    <3>1. w.fails # {} => 1 \in DOMAIN notes /\ notes[1] = s
      BY <2>3
    <3>2. QED BY <3>1 DEF ToSet
  <2>6. QED BY <2>1, <2>4, <2>5, Zenon
<1>4. CASE s # "trusted-advisor" /\ s # "compute-optimizer"
  <2>1. Noted(s, w) = IF w.fails # {} THEN <<s>> ELSE <<>>
    BY <1>4 DEF Noted
  <2>2. CASE w.fails # {}
    BY <1>1, <2>1, <2>2, Zenon
  <2>3. CASE w.fails = {}
    <3>1. Noted(s, w) = <<>>
      BY <2>1, <2>3
    <3>2. QED BY <1>1, <2>3, <3>1, Zenon
  <2>4. QED BY <2>2, <2>3, Zenon
<1>5. QED BY <1>2, <1>3, <1>4

\* The report has the notes of all sources.
LEMMA NotesAre ==
  ASSUME NEW w, AreSources(w)
  PROVE  /\ FlattenSeq(Noting(w)) \in Seq(ToSet(Sources))
         /\ \A s \in ToSet(Sources) : s # "trusted-advisor" /\ w[s].fails # {}
              => s \in ToSet(FlattenSeq(Noting(w)))
<1> DEFINE ss == Noting(w)  E == ToSet(Sources)
<1>1. /\ DOMAIN ss = 1 .. 6 /\ ss = [i \in 1 .. 6 |-> ss[i]]
      /\ \A i \in 1 .. 6 : ss[i] = Noted(Sources[i], w[Sources[i]])
  BY SourcesAre DEF Noting
<1> HIDE DEF ss
<1>2. \A s \in ToSet(Sources) : /\ Noted(s, w[s]) \in Seq(ToSet(Sources))
                                /\ s # "trusted-advisor" /\ w[s].fails # {} => s \in ToSet(Noted(s, w[s]))
  BY NotedIs, Zenon DEF AreSources
<1>3. ss \in Seq(Seq(E))
  <2>1. \A i \in 1 .. 6 : ss[i] \in Seq(E)
    BY <1>1, <1>2, SourcesAre, Zenon
  <2>2. 6 \in Nat
    OBVIOUS
  <2>3. QED BY <1>1, <2>1, <2>2, ListsAre, Zenon
<1>4. FlattenSeq(ss) \in Seq(E) /\ \A r : r \in ToSet(FlattenSeq(ss)) <=> Joins(ss, r)
  BY <1>3, FlattenHas
<1>5. ASSUME NEW s \in ToSet(Sources), s # "trusted-advisor", w[s].fails # {}
      PROVE  s \in ToSet(FlattenSeq(ss))
  <2>1. PICK i \in 1 .. 6 : s = Sources[i]
    BY SourcesAre
  <2>2. s \in ToSet(ss[i])
    BY <1>1, <1>2, <1>5, <2>1
  <2>3. Joins(ss, s)
    BY <1>1, <2>2 DEF Joins
  <2>4. QED BY <1>4, <2>3, Zenon
<1>6. QED BY <1>4, <1>5 DEF ss

\* A source is read, or noted.
LEMMA SourcesAreAccounted ==
  ASSUME NEW w, AreSources(w), NEW s \in ToSet(Sources), s # "trusted-advisor"
  PROVE  Accounts(AllRecommendations(w), w, s)
<1> DEFINE report == AllRecommendations(w)
<1>1. ShowsBest(report.recommendations, Said(w)) /\ report.notes = FlattenSeq(Noting(w))
  BY ReportIs, Zenon
<1> HIDE DEF report
<1>2. CASE w[s].fails # {}
  <2>1. s \in ToSet(report.notes)
    BY <1>1, <1>2, NotesAre, Zenon
  <2>2. QED BY <2>1, Zenon DEF Accounts, report
<1>3. CASE w[s].fails = {}
  <2>1. /\ Read(s, w[s]) \in Seq(FindingType) /\ w[s].findings \in Seq(FindingType)
        /\ ToSet(Read(s, w[s])) = ToSet(w[s].findings)
    <3>1. IsSource(s, w[s])
      BY DEF AreSources
    <3>2. w[s].findings \in Seq(FindingType)
      BY <3>1 DEF IsSource
    <3>3. QED BY <1>3, <3>1, <3>2, ReadIs, Zenon
  <2>2. ASSUME NEW r \in ToSet(MadeOf(s, w[s].findings)) PROVE Represented(report, r)
    <3>1. PICK f \in ToSet(w[s].findings) : r \in ToSet(Made(s, f))
      BY <2>1, MadeOfIs, Zenon
    <3>2. r \in ToSet(MadeOf(s, Read(s, w[s])))
      BY <2>1, <3>1, MadeOfIs, Zenon
    <3>3. r \in ToSet(Said(w))
      BY <3>2, SaidAre, Zenon
    <3>4. QED BY <1>1, <3>3, Zenon DEF Represented, ShowsBest
  <2>3. QED BY <2>2, Zenon DEF Accounts, report
<1>4. QED BY <1>2, <1>3

\* A page of anomalies that fails is noted (anomaly/engine.py:78).
LEMMA AnomalyNotes ==
  ASSUME NEW w, w.failsAt # 0
  PROVE  Anomalies(w).notes # <<>> /\ \E E : Anomalies(w).notes \in Seq(E)
<1> DEFINE E == {"anomaly-monitors", "anomalies"}
           first == IF w.monitorsFail THEN <<"anomaly-monitors">> ELSE <<>>
           second == <<"anomalies">>
<1>1. first \in Seq(E) /\ second \in Seq(E) /\ Len(second) = 1
  <2>1. <<"anomaly-monitors">> \in Seq(E) /\ <<"anomalies">> \in Seq(E) /\ Len(<<"anomalies">>) = 1
    OBVIOUS
  <2>2. <<>> \in Seq(E)
    OBVIOUS
  <2> HIDE DEF E
  <2>3. QED BY <2>1, <2>2, Zenon DEF first, second
<1>2. Anomalies(w).notes = first \o second
  BY DEF Anomalies
<1> HIDE DEF first, second, E
<1>3. first \o second \in Seq(E) /\ Len(first \o second) > 0
  BY <1>1
<1>4. QED BY <1>2, <1>3

\* The budgets are all there, or a note is (anomaly/engine.py:86).
LEMMA BudgetsAre ==
  ASSUME NEW w, w.pages \in Seq(Seq(BudgetType))
  PROVE  Len(Budgets(w).budgets) = Len(FlattenSeq(w.pages)) \/ Budgets(w).notes # <<>>
<1>1. CASE w.noAccount
  <2>1. Budgets(w).notes = <<"no account id">>
    BY <1>1 DEF Budgets
  <2>2. <<"no account id">> # <<>>
    OBVIOUS
  <2>3. QED BY <2>1, <2>2, Zenon
<1>2. CASE ~w.noAccount /\ w.failsAt # 0
  <2>1. Budgets(w).notes = <<"budgets">>
    BY <1>2 DEF Budgets
  <2>2. <<"budgets">> # <<>>
    OBVIOUS
  <2>3. QED BY <2>1, <2>2, Zenon
<1>3. CASE ~w.noAccount /\ w.failsAt = 0
  <2> DEFINE read == FlattenSeq(w.pages)
  <2>1. read \in Seq(BudgetType)
    BY FlattenHas
  <2>2. PagesRead(w) = w.pages
    BY <1>3 DEF PagesRead
  <2>3. Budgets(w).budgets = [i \in DOMAIN read |-> Budget(read[i])]
    BY <1>3, <2>2 DEF Budgets
  <2> HIDE DEF read
  <2>4. DOMAIN read = 1 .. Len(read) /\ Len(read) \in Nat
    BY <2>1
  <2>5. Len([i \in 1 .. Len(read) |-> Budget(read[i])]) = Len(read)
    BY <2>4
  <2>6. QED BY <2>3, <2>4, <2>5 DEF read
<1>4. QED BY <1>1, <1>2, <1>3

\* Each gap is told.
LEMMA GapsAreTold ==
  ASSUME DayInv
  PROVE  GapsAreNoted
<1>1. AreSources(world.optimization) /\ IsWorld(world)
  BY WorldHasSources, DigestAssumption DEF DayInv
<1>2. /\ ShowsBest(Savings.recommendations, Said(world.optimization))
      /\ Savings.notes = FlattenSeq(Noting(world.optimization))
  BY <1>1, ReportIs, Zenon DEF Savings
<1>3. ASSUME Report.savings = <<>>, NEW s \in ToSet(Sources) \ {"trusted-advisor"},
             world.optimization[s].fails # {}
      PROVE  Report.savingsNotes # <<>>
  <2>1. Report.savings = FirstOf(Savings.recommendations, 5)
    BY DEF Report
  <2>2. Savings.recommendations \in Seq(RecType)
    BY <1>2 DEF ShowsBest
  <2>3. Savings.recommendations = <<>>
    <3>1. 5 \in Nat /\ 5 > 0
      OBVIOUS
    <3>2. QED BY <1>3, <2>1, <2>2, <3>1, FirstIs, Zenon
  <2>4. Report.savingsNotes = FirstOf(Savings.notes, 3)
    BY <2>3 DEF Report
  <2>5. Savings.notes \in Seq(ToSet(Sources)) /\ s \in ToSet(Savings.notes)
    BY <1>1, <1>2, <1>3, NotesAre
  <2>6. Savings.notes # <<>>
    BY <2>5, MembersAre, Zenon
  <2>7. 3 \in Nat /\ 3 > 0
    OBVIOUS
  <2>8. QED BY <2>4, <2>5, <2>6, <2>7, FirstIs, Zenon
<1>4. ASSUME Report.anomalies = <<>>, world.anomalies.failsAt # 0 PROVE Report.anomalyNote # <<>>
  <2>1. Report.anomalies = Anomalous.anomalies
    BY DEF Report
  <2>2. Report.anomalyNote = FirstOf(Anomalous.notes, 1)
    <3>1. Report.anomalyNote = IF Anomalous.anomalies # <<>> THEN <<>> ELSE FirstOf(Anomalous.notes, 1)
      BY DEF Report
    <3>2. QED BY <1>4, <2>1, <3>1
  <2>3. Anomalous.notes # <<>> /\ \E E : Anomalous.notes \in Seq(E)
    BY <1>4, AnomalyNotes, Zenon DEF Anomalous
  <2>4. 1 \in Nat /\ 1 > 0
    OBVIOUS
  <2>5. QED BY <2>2, <2>3, <2>4, FirstIs, Zenon
<1>5. ASSUME out["last_month"] = None PROVE Report.delta = NoAmount
  <2>1. TotalOf("last_month", world.lastMonth) = 0
    BY <1>5 DEF TotalOf
  <2>2. \A spend : DeltaPct(spend, 0) = NoAmount
    BY DEF DeltaPct
  <2>3. Report.delta = DeltaPct(TotalOf("mtd", world.month), TotalOf("last_month", world.lastMonth))
    BY DEF Report
  <2>4. QED BY <2>1, <2>2, <2>3
<1>6. \A s \in ToSet(Sources) \ {"trusted-advisor"} : Accounts(Savings, world.optimization, s)
  BY <1>1, SourcesAreAccounted DEF Savings
<1>7. Anomalous.anomalies = ByImpact(FlattenSeq(world.anomalies.pages)) \/ Anomalous.notes # <<>>
  <2>1. CASE world.anomalies.failsAt = 0
    <3>1. PagesRead(world.anomalies) = world.anomalies.pages
      BY <2>1 DEF PagesRead
    <3>2. Anomalous.anomalies = ByImpact(FlattenSeq(PagesRead(world.anomalies)))
      BY DEF Anomalous, Anomalies
    <3>3. QED BY <3>1, <3>2
  <2>2. CASE world.anomalies.failsAt # 0
    BY <2>2, AnomalyNotes, Zenon DEF Anomalous
  <2>3. QED BY <2>1, <2>2
<1>8. Len(Budgeted.budgets) = Len(FlattenSeq(world.budgets.pages)) \/ Budgeted.notes # <<>>
  <2>1. world.budgets.pages \in Seq(Seq(BudgetType))
    BY <1>1, Zenon DEF IsWorld
  <2>2. QED BY <2>1, BudgetsAre, Zenon DEF Budgeted
<1>9. QED BY <1>3, <1>4, <1>5, <1>6, <1>7, <1>8, Zenon DEF GapsAreNoted

\* GapsAreNoted (optimize/engine.py:92, anomaly/engine.py:78, digest.py:52): whatever
\* requests fail, a section that lacks what it could not read has a note that says so,
\* but for single checks of Trusted Advisor, and nothing is compared with a month that failed.
THEOREM GapsStayNoted == Spec => []GapsAreNoted
<1>1. DayInv => GapsAreNoted
  BY GapsAreTold
<1>2. QED BY <1>1, DayInductive, PTL DEF Spec

=============================================================================
