----------------------------- MODULE Specialists -----------------------------
(***************************************************************************)
(* The specialist agents: the choice of one (finops_core/router.py), its    *)
(* construction (agents/*.py, agent_context.py, skills, memory), the hooks  *)
(* around its tools (hooks.py, modes.py) and what a run of it is said to    *)
(* have used.                                                              *)
(*                                                                         *)
(* The agent loop itself is external: a run asks for some tools, "read"     *)
(* ones and "write" ones (those whose name has a prefix of                  *)
(* WRITE_TOOL_PREFIXES), and answers or raises.  A question is the two      *)
(* kinds of keywords that are found in it.                                  *)
(***************************************************************************)
EXTENDS Settings, ActionModes

Intents   == {"cost", "optimize", "anomaly"}
Questions == [anomaly : BOOLEAN, optimize : BOOLEAN]

\* classify: the most specific kind of keyword wins.
Classify(q) ==
  CASE q.anomaly -> "anomaly"
    [] ~q.anomaly /\ q.optimize -> "optimize"
    [] OTHER -> "cost"

\* The role whose model an agent is built on: the anomaly agent has none of its own.
AgentRole(intent) == IF intent = "optimize" THEN "optimization" ELSE "cost"

\* Mutant of PricedRole: every intent has a role of its name.
PricedRoleByName(intent) == IF intent = "optimize" THEN "optimization"
                            ELSE IF intent = "anomaly" THEN "digest" ELSE "cost"

\* The role whose model _record_usage prices.
PricedRole(intent) == IF intent = "optimize" THEN "optimization" ELSE "cost"

\* An explicit choice wins, else the configuration decides (skills_active,
\* memory_active, build_conversation_manager).
Active(override, setting) == IF override # None THEN override ELSE setting

\* attach_memory: what a memory manager does; extraction has the summarizer's model or
\* else the digest's.
Memory(cfg) ==
  [redact |-> cfg.redact, write |-> cfg.allow_write_tool,
   extractor |-> IF ~cfg.auto_extract THEN None
                 ELSE ModelId(cfg, IF cfg.summarizer_role \in {None, ""} THEN "digest"
                                   ELSE cfg.summarizer_role)]

\* build_*_agent; `over` has the caller's choices, `skilled` whether skills are found.
Agent(cfg, role, over, skilled) ==
  [model      |-> ModelId(cfg, role),
   guard      |-> cfg.mode,
   skills     |-> Active(over.skills, cfg.skills) /\ skilled,
   memory     |-> IF Active(over.memory, cfg.memory) THEN Memory(cfg) ELSE None,
   summarizes |-> Active(over.summarize, cfg.summarize)]

\* ModelRouter.model_id raises: there is no agent.
Unbuildable(agent) == agent.model = None

NoChoices == [skills |-> None, memory |-> None, summarize |-> None]

-----------------------------------------------------------------------------
Tools == {"read", "write"}

\* Mutant of Blocked: a mode that is not known blocks nothing.
BlockedByKnownMode(tool, mode) == tool = "write" /\ mode \in {"advisory", "artifacts"}

\* tool_blocked, which ReadOnlyGuard asks before every call
Blocked(tool, mode) == tool = "write" /\ ~CanApplyActions(mode)

\* What a run does of what the model asks for, and what ToolMeter counts of it: calls
\* that were cancelled end too.
Executed(agent, asked) == {t \in asked : ~Blocked(t, agent.guard)}
Metered(asked) == asked

\* usage_summary and ToolMeter.summary, as _record_usage puts them together
Usage(cfg, intent, question, asked) ==
  [of |-> question, model |-> ModelId(cfg, PricedRole(intent)), tools |-> Metered(asked)]
=============================================================================
