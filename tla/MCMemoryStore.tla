--------------------------- MODULE MCMemoryStore ---------------------------
(* MemoryStore with two sessions that are told three facts, two of which   *)
(* differ in the account id alone and become one when it is masked.        *)
EXTENDS MemoryStore, TLC

CONSTANTS s1, s2, a1, a2

MCSessions == {s1, s2}
Symmetry   == Permutations(MCSessions)
MCTopics   == {"budget", "region"}
MCQueries  == [MCTopics -> 0 .. 2]
MCTold     == {[topic |-> "budget", account |-> a1], [topic |-> "budget", account |-> a2],
               [topic |-> "region", account |-> None]}
=============================================================================
