------------------------------ MODULE MCSurfaces ------------------------------
(* Instances of Surfaces for TLC: two requests at a time, a finops.yaml that is   *)
(* edited twice, three environments.  The assumptions check what a process makes *)
(* of a configuration over all of these.                                         *)
EXTENDS Surfaces, TLC

CONSTANTS r1, r2

MCKinds    == {"api", "chat", "cli"}
MCRequests == {r1, r2}
Alike      == Permutations(MCRequests)
AllRoutes  == {"metrics", "cost", "fix", "preview", "apply", "query", "structured"}

MCWanted   == {{"read"}, {"read", "write"}}
MCNumerals == {"0", "1", "10", "2048"}

\* A budget and a savings question, which go to two agents with models of their own.
MCAsking == {[anomaly |-> TRUE, optimize |-> TRUE], [anomaly |-> FALSE, optimize |-> TRUE]}

\* The mode is withdrawn together with the profile, then mistyped.
MCFiles ==
  <<[mode |-> "guarded_write", profile |-> "dev"],
    [mode |-> "advisory", profile |-> "prod", content |-> "redact", digest |-> "small"],
    [mode |-> "Guarded_Write", auth |-> "assume_role", role_arn |-> "account",
     telemetry |-> FALSE]>>

MCModels == [orchestrator |-> "big", cost |-> "big", optimization |-> "medium", digest |-> "small"]

\* Nothing set; a collector, redaction and the role's ARN emptied; a number mistyped.
MCEnvs ==
  <<<<>>,
    [OTEL_EXPORTER_OTLP_ENDPOINT |-> "http://collector", FINOPS_MODE |-> "artifacts",
     FINOPS_AWS_PROFILE |-> "", AWS_PROFILE |-> "ops", FINOPS_REDACT_ACCOUNT_IDS |-> "",
     FINOPS_ROLE_ARN |-> "",
     FINOPS_MODEL_COST |-> "tiny"],
    [FINOPS_LLM_TEMPERATURE |-> "warm"]>>

-----------------------------------------------------------------------------
EveryCfg == {Cfgs[e][v] : e \in DOMAIN MCEnvs, v \in DOMAIN MCFiles}

\* An environment wins over both files, finops.yaml over models.yaml.
ASSUME Precedence ==
  /\ \A v \in DOMAIN MCFiles : Cfgs[2][v].mode = "artifacts" /\ Cfgs[2][v].profile = "ops"
  /\ \A v \in DOMAIN MCFiles : Cfgs[2][v].cost = "tiny" /\ Cfgs[1][v].cost = "big"
  /\ Load([cost |-> "own"], MCModels, <<>>).cost = "own"

\* A snapshot never has the role's ARN as it is, and names no identity that is not in use.
ASSUME Snapshots ==
  \A cfg \in EveryCfg \cup {[c EXCEPT !.role_arn = "account", !.auth = "env"] : c \in EveryCfg} :
    /\ Shown(cfg).role_arn \in {None, "masked"} /\ "external_id" \notin DOMAIN Shown(cfg)
    /\ Shown(cfg).profile # None \/ Shown(cfg).assume_base # None => UsesProfile(cfg) \/ cfg.auth # "env"

\* Only models that are configured are missed, and none while Bedrock cannot be reached.
ASSUME Preflights ==
  \A cfg \in EveryCfg :
    /\ NotFound(cfg, FALSE, {}) = {}
    /\ NotFound(cfg, TRUE, {cfg[r] : r \in Roles}) = {}
    /\ NotFound(cfg, TRUE, {}) = {r \in Roles : cfg[r] # None}
===============================================================================
