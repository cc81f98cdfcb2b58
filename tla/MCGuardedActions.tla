-------------------------- MODULE MCGuardedActions --------------------------
(* GuardedActions on a small instance. *)
EXTENDS GuardedActions, TLC

CONSTANTS w1, w2, t1, t2, a1, a2, b1, p0, p1

MCWorkers   == {w1, w2}
MCTokens    == {t1, t2}
MCParams    == {p0, p1}

Symmetry == Permutations(MCWorkers) \cup Permutations(MCTokens)
=============================================================================
