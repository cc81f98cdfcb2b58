------------------------------ MODULE MCDigest ------------------------------
(***************************************************************************)
(* Digest on small answers: a plain world, and the worlds that differ from *)
(* it in one respect, every set of failing sections among them.            *)
(***************************************************************************)
EXTENDS Digest

Group(key, amount) == [key |-> key, amount |-> amount]
Block(groups) ==
  [estimated |-> FALSE, groups |-> groups, total |-> Sum(Amounts(groups))]

Ec2AndS3   == Block(<<Group("EC2", 104), Group("S3", 55)>>)
Ec2AndRds  == Block(<<Group("EC2", -36), Group("RDS", 7)>>)
OnlyS3     == Block(<<Group("S3", -55), Group("Tax", 3), Group("RDS", 55)>>)

F(resource, kind, type, savings) ==
  [resource |-> resource, kind |-> kind, type |-> type, savings |-> savings]
Ec2(resource, kind, savings) == F(resource, kind, "ec2-instance", savings)

Says(findings, fails) == [findings |-> findings, fails |-> fails]
NoFindings == [s \in ToSet(Sources) |-> Says(<<>>, {})]

Plain ==
  [start |-> Date(2024, 2, 29), midnight |-> FALSE, fails |-> {},
   services |-> <<<<Ec2AndS3>>, <<Ec2AndRds>>>>, month |-> <<<<Ec2AndS3>>>>,
   lastMonth |-> <<<<Ec2AndRds, OnlyS3>>>>,
   anomalies |-> [pages |-> <<<<2>>, <<1, 3>>>>, failsAt |-> 0, monitored |-> TRUE,
                  monitorsFail |-> FALSE],
   budgets |-> [pages |-> <<<<[limit |-> 2, actual |-> 3, forecast |-> NoAmount]>>,
                            <<[limit |-> 0, actual |-> 1, forecast |-> 2]>>>>,
                failsAt |-> 0, noAccount |-> FALSE],
   optimization |-> NoFindings,
   targets |-> <<"file", "slack", "sns">>, unreachable |-> {}, unconfigured |-> {"sns"}]

Failing    == {[Plain EXCEPT !.fails = fails] : fails \in SUBSET {"mtd", "by_service", "forecast"}}
              \cup {[Plain EXCEPT !.fails = Raising], [Plain EXCEPT !.fails = {"last_month"}]}
Starting   == {[Plain EXCEPT !.start = day, !.midnight = late] : late \in BOOLEAN,
                 day \in {Date(2024, 2, 29), Date(2023, 12, 30), Date(2024, 3, 1)}}
Spending   == {[Plain EXCEPT !.services = p] :
                 p \in {<<>>, <<<<Ec2AndS3, OnlyS3>>, <<Ec2AndRds>>>>, <<<<>>, <<OnlyS3>>>>}}
Detecting  == {[Plain EXCEPT !.anomalies.failsAt = n, !.anomalies.monitorsFail = f] :
                 n \in 0 .. 2, f \in BOOLEAN}
Budgeting  == {[Plain EXCEPT !.budgets.failsAt = n, !.budgets.noAccount = f] :
                 n \in 0 .. 2, f \in BOOLEAN}
Delivering == {[Plain EXCEPT !.unreachable = u, !.unconfigured = {"file", "slack"} \ u] :
                 u \in SUBSET {"file", "slack"}}

OfRightsizing ==
  {Says(<<>>, {}), Says(<<>>, {1})}
  \cup {Says(fs, fails) : fails \in SUBSET {1, 2}, fs \in
         {<<Ec2("i-1", "terminate", 2), Ec2("i-2", "modify", 1)>>,
          <<Ec2("i-1", "modify", 1), Ec2("i-1", "modify", 3)>>}}
OfComputeOptimizer ==
  {Says(<<Ec2("i-1", "Overprovisioned", 1), F("v-1", "NotOptimized", "ebs-volume", 0),
          F("f-1", "Overprovisioned", "lambda-function", 0)>>, fails) :
     fails \in {{}, {0}, {1}, {1, 3}}}
OfReservations ==
  {Says(<<Ec2("", "", 0), Ec2("", "", 1), Ec2("", "", 2)>>, fails) : fails \in {{}, {1}}}
OfHub ==
  {Says(<<Ec2("i-1", "rightsize", 2), Ec2("i-1", "terminate", 2)>>, fails) :
     fails \in {{}, {2}}}
OfTrustedAdvisor ==
  {Says(<<Ec2("Idle Load Balancers", "warning", 1), Ec2("Low Utilization", "ok", 0),
          Ec2("Unassociated Addresses", "error", 2)>>, fails) : fails \in {{}, {1}, {2}}}

Saving ==
  UNION {{[Plain EXCEPT !.optimization["rightsizing"] = w] : w \in OfRightsizing},
         {[Plain EXCEPT !.optimization["compute-optimizer"] = w] : w \in OfComputeOptimizer},
         {[Plain EXCEPT !.optimization["reservations"] = w] : w \in OfReservations},
         {[Plain EXCEPT !.optimization["trusted-advisor"] = w] : w \in OfTrustedAdvisor},
         {[Plain EXCEPT !.optimization["rightsizing"] = rs,
                        !.optimization["compute-optimizer"] = co,
                        !.optimization["cost-optimization-hub"] = hub] :
            rs \in {Says(<<Ec2("i-1", "terminate", 2), Ec2("i-2", "modify", 1)>>, {}),
                    Says(<<Ec2("i-1", "rightsize", 3)>>, {})},
            co \in OfComputeOptimizer, hub \in OfHub}}

MCWorlds == Failing \cup Starting \cup Spending \cup Detecting \cup Budgeting \cup Delivering
            \cup Saving
=============================================================================
