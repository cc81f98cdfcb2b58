------------------------- MODULE MCEstateDiscovery -------------------------
(***************************************************************************)
(* An organization of three accounts, one of which has nothing: a bucket   *)
(* every source tells of, a disk that only the second page of the tags     *)
(* tells of, an instance that the aggregator of the management account     *)
(* knows too, and a role without tags.  Two pages are read of an answer.   *)
(* Three requests of one scan fail, and none of a scan that overlaps it.   *)
(***************************************************************************)
EXTENDS EstateDiscovery

CONSTANTS c1, c2

MCCallers == {c1, c2}
MCCaller  == {c1}
MCMembers == <<"mgmt", "dev", "audit">>
MCEnabled == <<"us-east-1", "us-west-2">>
MCPages   == [source \in Sources |-> 2]
MCFailures == [c \in {c1, c2} |-> IF c = c1 THEN 3 ELSE 0]
MCFailure  == [c \in MCCaller |-> 1]

MCAggregators ==
  [a \in {"own", "mgmt", "dev", "audit"} |->
     CASE a \in {"own", "mgmt"} -> "recording" [] a = "dev" -> "empty" [] OTHER -> "none"]

Requests == {"own", "mgmt", "dev", "audit"} \X Sources \X {"us-east-1", "us-west-2"}

MCSays ==
  [r \in Requests |->
     CASE r \in {"own", "mgmt"} \X {"config"} \X {"us-east-1"} -> <<{"bucket", "instance"}>>
       [] r \in {"own", "mgmt"} \X {"resource-explorer"} \X {"us-east-1"} -> <<{"bucket", "role"}>>
       [] r \in {"own", "mgmt"} \X {"tagging"} \X {"us-east-1"} -> <<{"bucket"}, {"disk"}>>
       [] r \in {"own", "mgmt"} \X {"tagging"} \X {"us-west-2"} -> <<{"queue"}>>
       [] r = <<"dev", "resource-explorer", "us-west-2">> -> <<{"instance"}>>
       [] r = <<"dev", "tagging", "us-west-2">>           -> <<{"instance", "table"}>>
       [] OTHER -> <<{}>>]

\* The same with one page more than is read.
MCLongSays == [MCSays EXCEPT ![<<"own", "tagging", "us-east-1">>] = Append(@, {"parameter"})]
=============================================================================
