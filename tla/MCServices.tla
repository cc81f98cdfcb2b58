------------------------------ MODULE MCServices ------------------------------
(* An instance of Services for TLC: an agent service, a user beside the server's  *)
(* own credentials, a home and another region, a cache of two places for the      *)
(* three estates they ask for.                                                    *)
EXTENDS Services

CONSTANTS a1, u1, home, away
===============================================================================
