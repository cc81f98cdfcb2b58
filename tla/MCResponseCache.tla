-------------------------- MODULE MCResponseCache --------------------------
(* ResponseCache with two threads and one key: two keys share nothing but   *)
(* the lock, and the lock does not know the key.                            *)
EXTENDS ResponseCache

CONSTANTS c1, c2, k1

MCThreads == {c1, c2}
=============================================================================
