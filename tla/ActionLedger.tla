---------------------------- MODULE ActionLedger ----------------------------
(***************************************************************************)
(* What preview and apply promise together, with nothing said about files, *)
(* processes or the order of their steps: a confirmation token is issued   *)
(* by one preview, pays for at most one change in AWS, and is never usable *)
(* again once it has paid or has been lost.                                *)
(***************************************************************************)
CONSTANTS Tokens, Calls

VARIABLES
  standing,   \* what each token is good for
  performed   \* the changes made: pairs of the token that paid and the call

Init ==
  /\ standing = [t \in Tokens |-> "unissued"]
  /\ performed = {}

Issue(t) ==
  /\ standing[t] = "unissued"
  /\ standing' = [standing EXCEPT ![t] = "usable"]
  /\ UNCHANGED performed

Spend(t, c) ==
  /\ standing[t] = "usable"
  /\ standing' = [standing EXCEPT ![t] = "spent"]
  /\ performed' = performed \cup {<<t, c>>}

\* Tokens lost to a failed or interrupted call.
Void(lost) ==
  /\ \A t \in lost : standing[t] = "usable"
  /\ standing' = [t \in Tokens |-> IF t \in lost THEN "void" ELSE standing[t]]
  /\ UNCHANGED performed

Next ==
  \/ \E t \in Tokens : Issue(t)
  \/ \E t \in Tokens, c \in Calls : Spend(t, c)
  \/ \E lost \in SUBSET Tokens : Void(lost)

Spec == Init /\ [][Next]_<<standing, performed>>
=============================================================================
