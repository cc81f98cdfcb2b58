------------------------------ MODULE Settings ------------------------------
(***************************************************************************)
(* Config.load of finops_core/config.py and what is made of its result:    *)
(* a session (aws/session.py), a model (models/router.py), the snapshot    *)
(* that /config and `finops config` show.                                  *)
(*                                                                         *)
(* A configuration is a record with one field for each setting; a role of  *)
(* llm.roles is a setting too.  A file (models.yaml, finops.yaml) gives    *)
(* values to some of them, and an environment words to some variables.     *)
(* Numbers stay the words they are written as; a word that is none makes   *)
(* the load raise.  Settings that nothing reads (fallback, org_mode,       *)
(* require_confirmation, athena_max_scanned_gb) are left out, and those    *)
(* that only tune a setting that is there: the name of the role's session, *)
(* a guardrail's version and trace, the ratio and threshold of a summary,  *)
(* the number of search results, the signals that are exported.            *)
(***************************************************************************)
EXTENDS Naturals, Sequences

CONSTANTS
  None,      \* an absent value
  Numerals   \* the words that float() and int() accept

Roles == {"orchestrator", "cost", "optimization", "sql", "digest", "devops", "summarizer"}

\* The dataclasses' defaults; no role has one.
Defaults ==
  [mode |-> "advisory", skills |-> FALSE, cache_ttl |-> "3600",
   auth |-> "profile", profile |-> "default", region |-> "us-east-1",
   ce_region |-> "us-east-1", assume_base |-> "env", role_arn |-> None, external_id |-> None,
   provider |-> "bedrock", llm_region |-> "us-east-1", temperature |-> "0",
   max_tokens |-> "2048", cache_prompt |-> TRUE, cache_tools |-> TRUE, guardrail_id |-> None,
   redact |-> TRUE,
   telemetry |-> TRUE, exporter |-> "auto", endpoint |-> None, protocol |-> "grpc",
   service_name |-> None, sample_ratio |-> "1", content |-> "omit",
   summarize |-> TRUE, preserve_recent |-> "10", summarizer_role |-> None,
   memory |-> TRUE, memory_dir |-> "~/.finops_agent/memory", auto_extract |-> TRUE,
   allow_write_tool |-> TRUE,
   orchestrator |-> None, cost |-> None, optimization |-> None, sql |-> None,
   digest |-> None, devops |-> None, summarizer |-> None]

Names == DOMAIN Defaults

\* models.yaml is asked for these alone.
ModelNames == Roles \cup {"temperature", "max_tokens", "cache_prompt", "cache_tools"}

-----------------------------------------------------------------------------
(* The variables, by what an empty one does                                *)

\* os.getenv(name, current): an empty value replaces the current one.
Replacing ==
  [mode |-> "FINOPS_MODE", auth |-> "FINOPS_AWS_AUTH", ce_region |-> "FINOPS_CE_REGION",
   assume_base |-> "FINOPS_ASSUME_BASE", role_arn |-> "FINOPS_ROLE_ARN",
   external_id |-> "FINOPS_EXTERNAL_ID", provider |-> "FINOPS_LLM_PROVIDER",
   llm_region |-> "FINOPS_LLM_REGION", guardrail_id |-> "FINOPS_GUARDRAIL_ID",
   exporter |-> "FINOPS_TELEMETRY_EXPORTER", protocol |-> "FINOPS_TELEMETRY_PROTOCOL",
   service_name |-> "FINOPS_TELEMETRY_SERVICE", content |-> "FINOPS_TELEMETRY_CONTENT",
   summarizer_role |-> "FINOPS_SUMMARIZER_ROLE", memory_dir |-> "FINOPS_MEMORY_DIR"]

\* _env_bool: an empty value is a no.
Switching ==
  [skills |-> "FINOPS_SKILLS", cache_prompt |-> "FINOPS_LLM_CACHE",
   cache_tools |-> "FINOPS_LLM_CACHE", redact |-> "FINOPS_REDACT_ACCOUNT_IDS",
   telemetry |-> "FINOPS_TELEMETRY", summarize |-> "FINOPS_CONVERSATION_SUMMARIZE",
   memory |-> "FINOPS_MEMORY"]

\* _first_env and `if os.getenv(name)`: empty values are passed over, the first of
\* several variables that has a value wins.
Choosing ==
  [profile |-> <<"FINOPS_AWS_PROFILE", "AWS_PROFILE">>,
   region |-> <<"FINOPS_AWS_REGION", "AWS_REGION", "AWS_DEFAULT_REGION">>,
   endpoint |-> <<"FINOPS_TELEMETRY_ENDPOINT", "OTEL_EXPORTER_OTLP_ENDPOINT">>,
   temperature |-> <<"FINOPS_LLM_TEMPERATURE">>, max_tokens |-> <<"FINOPS_LLM_MAX_TOKENS">>,
   sample_ratio |-> <<"FINOPS_TELEMETRY_SAMPLE_RATIO">>,
   preserve_recent |-> <<"FINOPS_CONVERSATION_PRESERVE_RECENT">>,
   orchestrator |-> <<"FINOPS_MODEL_ORCHESTRATOR">>, cost |-> <<"FINOPS_MODEL_COST">>,
   optimization |-> <<"FINOPS_MODEL_OPTIMIZATION">>, sql |-> <<"FINOPS_MODEL_SQL">>,
   digest |-> <<"FINOPS_MODEL_DIGEST">>]

Numbers == {"temperature", "max_tokens", "sample_ratio", "preserve_recent"}

-----------------------------------------------------------------------------
Filled(env, v) == v \in DOMAIN env /\ env[v] # ""

IsFirst(env, vs, i) == Filled(env, vs[i]) /\ \A j \in 1 .. i - 1 : ~Filled(env, vs[j])

\* What the environment makes of a setting that is `current` otherwise.
Override(env, s, current) ==
  CASE s \in DOMAIN Replacing ->
         IF Replacing[s] \in DOMAIN env THEN env[Replacing[s]] ELSE current
    [] s \in DOMAIN Switching ->
         IF Switching[s] \in DOMAIN env THEN env[Switching[s]] \in {"1", "true", "yes", "on"}
         ELSE current
    [] s \in DOMAIN Choosing ->
         IF \E i \in DOMAIN Choosing[s] : Filled(env, Choosing[s][i])
         THEN env[Choosing[s][CHOOSE i \in DOMAIN Choosing[s] : IsFirst(env, Choosing[s], i)]]
         ELSE current
    [] OTHER -> current

\* What the files say: finops.yaml before models.yaml before the defaults.
Layered(file, models, s) ==
  CASE s \in DOMAIN file -> file[s]
    [] s \notin DOMAIN file /\ s \in ModelNames \cap DOMAIN models -> models[s]
    [] OTHER -> Defaults[s]

\* A number that does not parse, in a file or in the environment: load raises.
LoadRaises(file, models, env) ==
  \E s \in Numbers :
    \/ Layered(file, models, s) \notin Numerals
    \/ Filled(env, Choosing[s][1]) /\ env[Choosing[s][1]] \notin Numerals

Load(file, models, env) == [s \in Names |-> Override(env, s, Layered(file, models, s))]

-----------------------------------------------------------------------------
(* What a configuration is used for                                        *)

\* build_session: a role without an ARN and an unknown mode raise ValueError before
\* anything is asked of AWS.
SessionRefused(cfg) ==
  \/ cfg.auth = "assume_role" /\ cfg.role_arn \in {None, ""}
  \/ cfg.auth \notin {"profile", "env", "assume_role"}

\* build_session asks STS for the role.
AssumesRole(cfg) == cfg.auth = "assume_role" /\ ~SessionRefused(cfg)

\* _base_session: the named profile, or whatever the credential chain finds.
UsesProfile(cfg) ==
  \/ cfg.auth = "profile"
  \/ cfg.auth = "assume_role" /\ cfg.assume_base = "profile"

\* The principal and the region of the session that is built.
Principal(cfg) ==
  [base |-> IF UsesProfile(cfg) THEN cfg.profile ELSE None,
   role |-> IF cfg.auth = "assume_role" THEN cfg.role_arn ELSE None,
   region |-> cfg.region]

\* ModelRouter.model_id: the role's model or else the orchestrator's; None where it
\* raises because there is neither.
ModelId(cfg, role) ==
  IF role \in Roles /\ cfg[role] \notin {None, ""} THEN cfg[role]
  ELSE IF cfg.orchestrator # "" THEN cfg.orchestrator ELSE None

\* ModelRouter.preflight: the configured roles whose model Bedrock does not list;
\* nothing is said of a model when Bedrock cannot be reached or is not used.
NotFound(cfg, reachable, listed) ==
  IF cfg.provider = "bedrock" /\ reachable
  THEN {r \in Roles : cfg[r] # None /\ cfg[r] \notin listed}
  ELSE {}

\* Config.redacted: neither the external id nor where memories are kept, the account
\* of the role masked, and only the identity that is in use.
Shown(cfg) ==
  [s \in Names \ {"external_id", "memory_dir", "service_name", "guardrail_id", "temperature",
                  "max_tokens", "cache_prompt", "cache_tools"} |->
     CASE s = "profile" -> IF cfg.auth # "env" THEN cfg.profile ELSE None
       [] s = "assume_base" -> IF cfg.auth = "assume_role" THEN cfg.assume_base ELSE None
       [] s = "role_arn" -> IF cfg.role_arn \in {None, ""} THEN None ELSE "masked"
       [] OTHER -> cfg[s]]
=============================================================================
