------------------------------ MODULE Telemetry ------------------------------
(***************************************************************************)
(* finops_core/telemetry.py: which exporter a process gets and what leaves *)
(* it.  A text is what matters of it: "figures", "account" for anything    *)
(* with a twelve-digit id or an e-mail in it, "masked" after redaction.    *)
(* A span is [attributes, events, status]: the texts of its attributes, its *)
(* events [name, text], and the description of its status, where OTEL puts *)
(* the message of an exception that passes through.                        *)
(***************************************************************************)
EXTENDS Settings

\* _resolve_exporter
Exporter(cfg, defaultConsole) ==
  CASE cfg.exporter \in {"otlp", "console", "none"} -> cfg.exporter
    [] cfg.exporter \notin {"otlp", "console", "none"} /\ cfg.endpoint \notin {None, ""} -> "otlp"
    [] OTHER -> IF defaultConsole THEN "console" ELSE "none"

\* The name that distinguishes the entry points in what they export.
ServiceName(cfg, default) == IF cfg.service_name \in {None, ""} THEN default ELSE cfg.service_name

\* What _build makes of a configuration: the span processor has its content mode
\* and redaction for good.
Handle(cfg, name, mode) ==
  [service |-> ServiceName(cfg, name), exporter |-> mode, content |-> cfg.content,
   redact |-> cfg.redact]

\* setup_telemetry: the providers that stand afterwards, given those that stood.
SetUp(handle, cfg, name, defaultConsole) ==
  IF handle # None \/ ~cfg.telemetry \/ Exporter(cfg, defaultConsole) = "none" THEN handle
  ELSE Handle(cfg, name, Exporter(cfg, defaultConsole))

-----------------------------------------------------------------------------
\* redact_text
Redacted(text) == IF text = "account" THEN "masked" ELSE text

\* _is_content_event
IsContent(event) == event.name # "exception"

\* _redact_event
RedactedEvent(event) == [event EXCEPT !.text = Redacted(event.text)]

\* Mutant of OnEnd: the events that are kept stay as they are.
OnEndAttributesOnly(handle, span) ==
  IF handle.content = "full" THEN span
  ELSE [span EXCEPT
          !.attributes = IF handle.redact THEN {Redacted(t) : t \in @} ELSE @,
          !.events = IF handle.content = "omit" THEN {e \in @ : ~IsContent(e)} ELSE @]

\* RedactingSpanProcessor.on_end, which sees a span before the exporter does.  A
\* content mode that is none of the three drops and redacts no event.
OnEnd(handle, span) ==
  IF handle.content = "full" THEN span
  ELSE LET kept == IF handle.content = "omit" THEN {e \in span.events : ~IsContent(e)}
                   ELSE span.events
           scrub == handle.redact /\ handle.content \in {"omit", "redact"}
       IN  [attributes |-> IF handle.redact THEN {Redacted(t) : t \in span.attributes}
                           ELSE span.attributes,
            events |-> IF scrub THEN {RedactedEvent(e) : e \in kept} ELSE kept,
            status |-> span.status]

\* What a process that has set up telemetry sends: nothing without providers.
Sent(handle, spans) == IF handle = None THEN {} ELSE {OnEnd(handle, s) : s \in spans}
=============================================================================
