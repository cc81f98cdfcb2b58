--------------------------- MODULE GuardedActions ---------------------------
(***************************************************************************)
(* The guarded-write path: finops_core/remediation/audit.py (the           *)
(* pending-token file and the audit log), RemediationEngine of             *)
(* finops_core/remediation/actions.py and the posture gate of              *)
(* finops_core/modes.py.                                                   *)
(*                                                                         *)
(* A worker is whatever runs one call at a time: a `finops action`         *)
(* process, a thread of the API's pool, a Streamlit session.  All of them  *)
(* share audit/pending.json and audit/audit.jsonl and nothing locks        *)
(* either, so the steps of a call are the points at which another worker   *)
(* can see or change a file: read pending.json; open it for writing, which *)
(* empties it; write it; call AWS; append the audit line.                  *)
(*                                                                         *)
(* A pending entry is a record [token, action, params].  Params are        *)
(* opaque; NoParams is the empty dict, the falsy one of `params or stored`.*)
(***************************************************************************)
EXTENDS ActionModes, Naturals, FiniteSets

CONSTANTS
  Workers,     \* processes, threads and sessions that preview and apply
  Tokens,      \* the uuid4 values that will be drawn; bounds the previews
  Allowlist,   \* the action ids of ALLOWLIST
  Unlisted,    \* action ids that are not in it
  Params,      \* parameter dicts a caller may pass
  NoParams,    \* the empty dict
  NoCall,      \* the local state of a worker between calls
  MaxCalls     \* bound on the number of calls made to the engine

ASSUME ParamsAssumption    == NoParams \in Params
ASSUME AllowlistAssumption == Allowlist \cap Unlisted = {}
ASSUME CallsAssumption     == MaxCalls \in Nat

Entry  == [token : Tokens, action : Allowlist, params : Params]
Calls  == 1 .. MaxCalls

VARIABLES
  file,      \* audit/pending.json
  log,       \* the lines of audit/audit.jsonl, with the call that wrote each
  pc,        \* where each worker is in its current call
  op,        \* the local variables of that call
  ncalls,    \* calls begun so far
  minted,    \* history: the entry of every token drawn by preview
  misread,   \* history: the previews whose read failed on a file with tokens
  writes,    \* history: every change made to the AWS account
  outcome    \* history: how each finished call ended

vars == <<file, log, pc, op, ncalls, minted, misread, writes, outcome>>

-----------------------------------------------------------------------------
(***************************************************************************)
(* pending.json holds a JSON object, or nothing (opened for writing and    *)
(* not written yet), or bytes that do not parse.  A missing file reads as  *)
(* an empty object and is created by the first open, so it needs no state  *)
(* of its own.                                                             *)
(***************************************************************************)
Json(S) == [kind |-> "json", entries |-> S]
Empty   == [kind |-> "empty", entries |-> {}]
Torn    == [kind |-> "torn", entries |-> {}]

\* What a reader finds when nothing fails: no tokens in a file that is empty or
\* does not parse.
Stored == IF file.kind = "json" THEN file.entries ELSE {}

\* What _read_pending may return: any exception while it reads, of a file that
\* is whole too, is taken for "no tokens".
ReadPending == {Stored, {}}

\* Each writer writes from offset 0 of the file it emptied itself.  When
\* another writer has filled the file since, and with a longer text, a tail
\* of that text stays behind the new one and the file does not parse.
AfterWrite(new) ==
  CASE file.kind = "empty" -> {Json(new)}
    [] file.kind = "torn"  -> {Json(new), Torn}
    [] file.kind = "json"  ->
         IF file.entries \subseteq new THEN {Json(new)}
         ELSE IF new \subseteq file.entries THEN {Torn}
         ELSE {Json(new), Torn}

Steps == {"idle", "mint_open", "mint_write", "consume_open", "consume_write",
          "execute", "audit_applied", "audit_error"}

\* entry is what preview mints or what apply popped; given is apply's params
\* argument; data is this call's copy of the pending dict.
Op == [call : Calls, entry : Entry, given : Params, data : SUBSET Entry]

Idle(w) == pc[w] = "idle"
Quiet   == \A w \in Workers : Idle(w)

-----------------------------------------------------------------------------
Init ==
  /\ file = Json({})
  /\ log = {}
  /\ pc = [w \in Workers |-> "idle"]
  /\ op = [w \in Workers |-> NoCall]
  /\ ncalls = 0
  /\ minted = {}
  /\ misread = {}
  /\ writes = {}
  /\ outcome = {}

\* A worker begins its next call.
Begin(w) ==
  /\ Idle(w)
  /\ ncalls < MaxCalls
  /\ ncalls' = ncalls + 1

\* The current call returns to, or raises at, its caller.
Finish(w, result) ==
  /\ pc' = [pc EXCEPT ![w] = "idle"]
  /\ op' = [op EXCEPT ![w] = NoCall]
  /\ outcome' = outcome \cup {[call |-> op[w].call, result |-> result]}

\* A call that ends before it reads or writes anything.
EndAtOnce(w, result) ==
  /\ Begin(w)
  /\ outcome' = outcome \cup {[call |-> ncalls', result |-> result]}
  /\ UNCHANGED <<file, log, pc, op, minted, misread, writes>>

Goto(w, step) ==
  /\ pc' = [pc EXCEPT ![w] = step]
  /\ UNCHANGED <<op, outcome>>

(***************************************************************************)
(* _require_guarded: preview and apply raise ModeError in any other mode.  *)
(* The mode is the one of the Config the call's engine was built with.     *)
(***************************************************************************)
Refuse(w) ==
  \E mode \in Modes : ~CanApplyActions(mode) /\ EndAtOnce(w, "refused")

\* An action id outside ALLOWLIST: preview raises ValueError, apply answers
\* "rejected".
UnknownAction(w) == \E a \in Unlisted : EndAtOnce(w, "rejected")

-----------------------------------------------------------------------------
(* preview(action_id, params), in guarded_write mode                       *)

\* Draw a token and read the pending dict (mint_token).
PreviewRead(w) ==
  /\ Begin(w)
  /\ \E mode \in Modes, e \in Entry, pending \in ReadPending :
       /\ CanApplyActions(mode)
       /\ e.token \notin {m.token : m \in minted}
       /\ op' = [op EXCEPT ![w] = [call |-> ncalls', entry |-> e,
                                   given |-> e.params,
                                   data |-> pending \cup {e}]]
       /\ minted' = minted \cup {e}
       /\ misread' = IF pending = Stored THEN misread
                     ELSE misread \cup {ncalls'}
  /\ pc' = [pc EXCEPT ![w] = "mint_open"]
  /\ UNCHANGED <<file, log, writes, outcome>>

MintOpen(w) ==
  /\ pc[w] = "mint_open"
  /\ file' = Empty
  /\ Goto(w, "mint_write")
  /\ UNCHANGED <<log, ncalls, minted, misread, writes>>

\* The write closes the file and preview returns the ActionSpec.
MintWrite(w) ==
  /\ pc[w] = "mint_write"
  /\ file' \in AfterWrite(op[w].data)
  /\ Finish(w, "previewed")
  /\ UNCHANGED <<log, ncalls, minted, misread, writes>>

-----------------------------------------------------------------------------
(* apply(action_id, token, params), in guarded_write mode                  *)

\* Mutants of ApplyRead: the action id is not compared; the entry is read and
\* not popped.
ApplyReadAnyAction(w) ==
  /\ Begin(w)
  /\ \E e \in Stored, a \in Allowlist, given \in Params :
       op' = [op EXCEPT ![w] = [call |-> ncalls', entry |-> [e EXCEPT !.action = a],
                                given |-> given, data |-> Stored \ {e}]]
  /\ pc' = [pc EXCEPT ![w] = "consume_open"]
  /\ UNCHANGED <<file, log, minted, misread, writes, outcome>>

ApplyReadKeeps(w) ==
  /\ Begin(w)
  /\ \E e \in Stored, given \in Params :
       op' = [op EXCEPT ![w] = [call |-> ncalls', entry |-> e, given |-> given,
                                data |-> Stored]]
  /\ pc' = [pc EXCEPT ![w] = "consume_open"]
  /\ UNCHANGED <<file, log, minted, misread, writes, outcome>>

\* consume_token finds an entry of this token for this action.
ApplyRead(w) ==
  /\ Begin(w)
  /\ \E mode \in Modes, pending \in ReadPending, given \in Params :
       \E e \in pending :
         /\ CanApplyActions(mode)
         /\ op' = [op EXCEPT ![w] = [call |-> ncalls', entry |-> e,
                                     given |-> given,
                                     data |-> pending \ {e}]]
  /\ pc' = [pc EXCEPT ![w] = "consume_open"]
  /\ UNCHANGED <<file, log, minted, misread, writes, outcome>>

\* Mutant of ApplyReject: the popped dict is saved before the action id is
\* compared.
ApplyRejectSaves(w) ==
  /\ Begin(w)
  /\ \E t \in Tokens, a \in Allowlist :
       /\ ~ \E e \in Stored : e.token = t /\ e.action = a
       /\ file' = Json({e \in Stored : e.token # t})
  /\ outcome' = outcome \cup {[call |-> ncalls', result |-> "rejected"]}
  /\ UNCHANGED <<log, pc, op, minted, misread, writes>>

\* consume_token finds no entry of this token, or one of another action, in
\* what it read: it returns None and leaves the file as it is.
ApplyReject(w) ==
  /\ \E mode \in Modes, pending \in ReadPending, t \in Tokens, a \in Allowlist :
       /\ CanApplyActions(mode)
       /\ ~ \E e \in pending : e.token = t /\ e.action = a
  /\ EndAtOnce(w, "rejected")

ConsumeOpen(w) ==
  /\ pc[w] = "consume_open"
  /\ file' = Empty
  /\ Goto(w, "consume_write")
  /\ UNCHANGED <<log, ncalls, minted, misread, writes>>

\* Mutant of ConsumeWrite: apply saves the dict it read, popped entry included.
ConsumeWriteKeeps(w) ==
  /\ pc[w] = "consume_write"
  /\ file' \in AfterWrite(op[w].data \cup {op[w].entry})
  /\ Goto(w, "execute")
  /\ UNCHANGED <<log, ncalls, minted, misread, writes>>

ConsumeWrite(w) ==
  /\ pc[w] = "consume_write"
  /\ file' \in AfterWrite(op[w].data)
  /\ Goto(w, "execute")
  /\ UNCHANGED <<log, ncalls, minted, misread, writes>>

\* Mutant of Chosen: consume_token returns the stored entry, not its params.
ChosenEntry(o) == IF o.given # NoParams THEN o.given ELSE o.entry

\* params or stored
Chosen(o) == IF o.given # NoParams THEN o.given ELSE o.entry.params

AwsWrite(o) == [call |-> o.call, token |-> o.entry.token,
                action |-> o.entry.action, given |-> o.given,
                params |-> Chosen(o)]

\* apply_fn returns: the change is made.
Execute(w) ==
  /\ pc[w] = "execute"
  /\ writes' = writes \cup {AwsWrite(op[w])}
  /\ Goto(w, "audit_applied")
  /\ UNCHANGED <<file, log, ncalls, minted, misread>>

\* Mutant of ExecuteFails: the exception is swallowed and the call recorded as
\* applied.
ExecuteFailsSilently(w) ==
  /\ pc[w] = "execute"
  /\ writes' \in {writes, writes \cup {AwsWrite(op[w])}}
  /\ Goto(w, "audit_applied")
  /\ UNCHANGED <<file, log, ncalls, minted, misread>>

\* apply_fn raises: AWS refused the change, or made it and the answer was
\* lost (a timeout after the request was served).
ExecuteFails(w) ==
  /\ pc[w] = "execute"
  /\ writes' \in {writes, writes \cup {AwsWrite(op[w])}}
  /\ Goto(w, "audit_error")
  /\ UNCHANGED <<file, log, ncalls, minted, misread>>

\* The line names the action, its params and the status; the call and the
\* token it is about are history.
Line(o, status) == [call |-> o.call, token |-> o.entry.token,
                    action |-> o.entry.action, params |-> Chosen(o),
                    status |-> status]

RecordApplied(w) ==
  /\ pc[w] = "audit_applied"
  /\ log' = log \cup {Line(op[w], "applied")}
  /\ Finish(w, "applied")
  /\ UNCHANGED <<file, ncalls, minted, misread, writes>>

\* record raises (disk full, log not writable) inside apply's try: the
\* except branch records the call as an error.
RecordFails(w) ==
  /\ pc[w] = "audit_applied"
  /\ Goto(w, "audit_error")
  /\ UNCHANGED <<file, log, ncalls, minted, misread, writes>>

\* Mutant of RecordError: the except branch answers without recording.
RecordErrorNot(w) ==
  /\ pc[w] = "audit_error"
  /\ Finish(w, "error")
  /\ UNCHANGED <<file, log, ncalls, minted, misread, writes>>

RecordError(w) ==
  /\ pc[w] = "audit_error"
  /\ log' = log \cup {Line(op[w], "error")}
  /\ Finish(w, "error")
  /\ UNCHANGED <<file, ncalls, minted, misread, writes>>

-----------------------------------------------------------------------------
\* An open, a write or the error record raises: nothing catches it and the
\* call ends with the exception, leaving the file as it is.
Raise(w) ==
  /\ pc[w] \in {"mint_open", "mint_write", "consume_open", "consume_write",
                "audit_error"}
  /\ Finish(w, "raised")
  /\ UNCHANGED <<file, log, ncalls, minted, misread, writes>>

\* The process running the call dies.  Threads that die with it are so many
\* crashes.
Crash(w) ==
  /\ ~Idle(w)
  /\ Finish(w, "crashed")
  /\ UNCHANGED <<file, log, ncalls, minted, misread, writes>>

-----------------------------------------------------------------------------
StartCall(w) ==
  \/ Refuse(w)
  \/ UnknownAction(w)
  \/ PreviewRead(w)
  \/ ApplyRead(w)
  \/ ApplyReject(w)

Continue(w) ==
  \/ MintOpen(w)
  \/ MintWrite(w)
  \/ ConsumeOpen(w)
  \/ ConsumeWrite(w)
  \/ Execute(w)
  \/ ExecuteFails(w)
  \/ RecordApplied(w)
  \/ RecordFails(w)
  \/ RecordError(w)
  \/ Raise(w)
  \/ Crash(w)

Next == \E w \in Workers : StartCall(w) \/ Continue(w)

Spec == Init /\ [][Next]_vars

\* One operator with one terminal: no call begins before the last has ended.
SerialNext == \E w \in Workers : (Quiet /\ StartCall(w)) \/ Continue(w)

SerialSpec == Init /\ [][SerialNext]_vars

-----------------------------------------------------------------------------
TypeOK ==
  /\ file \in [kind : {"json", "empty", "torn"}, entries : SUBSET Entry]
  /\ log \in SUBSET [call : Calls, token : Tokens, action : Allowlist,
                     params : Params, status : {"applied", "error"}]
  /\ pc \in [Workers -> Steps]
  /\ op \in [Workers -> Op \cup {NoCall}]
  /\ \A w \in Workers : ~Idle(w) => op[w] \in Op
  /\ ncalls \in 0 .. MaxCalls
  /\ minted \in SUBSET Entry
  /\ misread \in SUBSET Calls
  /\ writes \in SUBSET [call : Calls, token : Tokens, action : Allowlist,
                        given : Params, params : Params]
  /\ outcome \in SUBSET [call : Calls,
                         result : {"previewed", "refused", "rejected",
                                   "applied", "error", "raised", "crashed"}]

(***************************************************************************)
(* What holds however calls interleave, and whatever crashes.              *)
(***************************************************************************)

\* No change is made in AWS without a preview of that very action: the token
\* of every write was drawn by a preview of the write's action, and the write
\* carries the previewed params or the params its own caller passed, never
\* those of another entry of the shared file.
AuthorisedWrites ==
  \A x \in writes : \E m \in minted :
    /\ m.token = x.token
    /\ m.action = x.action
    /\ x.params = m.params \/ x.params = x.given

\* The log never claims a change that was not made: a line "applied" stands
\* for an AWS write of the same call, action and params.
AuditTruthful ==
  \A l \in log : l.status = "applied" =>
    \E x \in writes : /\ x.call = l.call
                      /\ x.action = l.action
                      /\ x.params = l.params

\* A change is missing from the log only while its call is still running or
\* after that call crashed or raised: every write whose caller was given an
\* answer has its line.
AnsweredWritesAudited ==
  \A x \in writes :
    \/ \E l \in log : l.call = x.call
    \/ \E w \in Workers : ~Idle(w) /\ op[w].call = x.call
    \/ \E o \in outcome : o.call = x.call /\ o.result \in {"raised", "crashed"}

(***************************************************************************)
(* What holds when calls do not overlap (SerialSpec), whatever crashes.    *)
(***************************************************************************)

\* Every token executes at most once (audit.py:43, "Single use").
SingleUse == \A x, y \in writes : x.token = y.token => x = y

\* A token that has paid for a change is out of pending.json for good: no
\* later write of the file brings it back.
SpentTokenGone ==
  \A x \in writes : \A e \in Stored : e.token # x.token

Ended(results) == {o.call : o \in {q \in outcome : q.result \in results}}

\* A previewed token works until it is used (audit.py:3, "work across separate
\* CLI invocations and API requests"), and three things only can take it away
\* unused: a crash, an exception, and a preview whose read of the file failed.
\* Until one of them happens, every token drawn is, between calls, in
\* pending.json or its apply is in the log.
PreviewedTokenWorks ==
  Quiet /\ misread = {} /\ Ended({"raised", "crashed"}) = {} =>
    \A m \in minted : m \in Stored \/ \E l \in log : l.token = m.token

-----------------------------------------------------------------------------
(***************************************************************************)
(* The ledger the calls implement when they do not overlap.  A token is    *)
(* usable while the file or a call that is rewriting the file has it, and  *)
(* while the apply that popped it has not called AWS.                      *)
(***************************************************************************)
TokensOf(S) == {e.token : e \in S}

InCustody(w) ==
  IF Idle(w) THEN {}
  ELSE TokensOf(op[w].data) \cup
       (IF pc[w] \in {"consume_open", "consume_write", "execute"}
        THEN {op[w].entry.token} ELSE {})

Usable == TokensOf(Stored) \cup UNION {InCustody(w) : w \in Workers}

Standing(t) ==
  IF t \in TokensOf(writes) THEN "spent"
  ELSE IF t \notin TokensOf(minted) THEN "unissued"
  ELSE IF t \in Usable THEN "usable"
  ELSE "void"

Ledger == INSTANCE ActionLedger WITH
            standing  <- [t \in Tokens |-> Standing(t)],
            performed <- {<<x.token, x.call>> : x \in writes}

\* Calls that do not overlap implement the ledger.
ImplementsLedger == Ledger!Spec

=============================================================================
