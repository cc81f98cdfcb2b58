----------------------------- MODULE Dashboard -----------------------------
(***************************************************************************)
(* The Streamlit dashboard: apps/dashboard/app.py and devops_page.py, with *)
(* devops_core/diagram/registry.py and the posture of finops_core/modes.py *)
(* and config.py.                                                          *)
(*                                                                         *)
(* All browser sessions run in one process.  They share its environment,   *)
(* where a question exports FINOPS_MODE, and the registry's one slot for   *)
(* the last diagram; each has its own session_state.  A click or a         *)
(* question starts a new run of the session's script.  A run that is       *)
(* waiting for the agent is then abandoned: its thread goes on until the   *)
(* agent returns, tools included, and stops at the next use of Streamlit.  *)
(* A session may move between the pages at any time and keeps its state.   *)
(*                                                                         *)
(* The same holds of a run that is inside apply: a second click on the     *)
(* button starts another apply beside it.  A call of apply looks its token *)
(* up, rewrites the file of tokens without it and acts; a preview, and     *)
(* what calls made elsewhere lose, are one step each.  Within each call    *)
(* the ledger is kept as in GuardedActions; calls that overlap between     *)
(* look-up and rewriting may undo each other's rewriting.  The FinOps      *)
(* page's chat, whose sessions share a router, is in Surfaces.             *)
(***************************************************************************)
EXTENDS Diagnosis, Review

CONSTANTS
  Sessions,         \* browser sessions
  Tokens,           \* confirmation tokens: bounds the previews
  Actions,          \* allowlisted actions
  MaxTurns,         \* bounds the questions asked of the estate agent
  MaxClicks,        \* bounds the questions, changes and calls that may make one, together
  Configured,       \* the mode of the configuration files
  Unset,            \* no value
  DiagnosisWorlds,  \* worlds of Diagnosis
  ReviewWorlds,     \* worlds of Review, [service, world]
  Limit             \* findings a review shows

ASSUME DashboardAssumption ==
  /\ MaxTurns \in Nat /\ MaxClicks \in Nat
  /\ Configured \in Modes
  /\ Unset \notin Modes
  /\ \A w \in DiagnosisWorlds : IsDiagnosisWorld(w)
  /\ Limit \in Nat

VARIABLES
  env,        \* FINOPS_MODE, or Unset
  last,       \* registry._last: the turn whose tool drew it; 0 is None
  mode,       \* each session's session_state["mode"]; Unset before it opens
  pending,    \* each session's session_state["pending_action"]
  chat,       \* each session's devops_chat
  turn,       \* the questions asked of the estate agent, by number
  inside,     \* the calls of apply that have not returned
  standing,   \* the tokens, as in ActionLedger
  performed,  \* the changes made in AWS, as in ActionLedger
  report,     \* the last report of the fast path, until the next click
  issued,     \* history: the previews made
  overlap     \* history: has a call used the ledger while an apply looked it up?

payments == <<pending, inside, standing, performed, issued, overlap>>
chats == <<env, last, chat, turn>>
vars == <<mode, payments, chats, report>>

Turns == 1 .. MaxTurns

Preview == [token : Tokens, action : Actions, session : Sessions]
NoPreview == [token |-> Unset]

\* A call of apply that made a change: by whom, of what, under which mode, and
\* the how manieth.
Calls == [session : Sessions, action : Actions, mode : Modes, nth : Nat \ {0}]

\* A call of apply that has not returned: what was clicked and under which mode,
\* whether the token was found, how far it got, whether its script still waits
\* for it, and whether a call that keeps its token used the ledger between its
\* look-up and its rewriting.
Inside == [session : Sessions, token : Tokens, action : Actions, mode : Modes,
           found : BOOLEAN, step : {"looked", "acts"}, awaited : BOOLEAN, crossed : BOOLEAN]

CallOf(c) == [session |-> c.session, action |-> c.action, mode |-> c.mode,
              nth |-> Cardinality(performed) + 1]

Ledger == INSTANCE ActionLedger

NotAsked == [status |-> "unasked"]
Asked(t) == turn[t].status # "unasked"
Running(t) == turn[t].status \in {"thinking", "abandoned"}
Waiting(s) ==
  \/ \E t \in Turns : turn[t].status = "thinking" /\ turn[t].session = s
  \/ \E c \in inside : c.awaited /\ c.session = s
Open(s) == mode[s] # Unset

NoReport == [kind |-> "none"]

-----------------------------------------------------------------------------
Init ==
  /\ env \in {Unset, Configured}
  /\ last = 0
  /\ mode = [s \in Sessions |-> Unset]
  /\ pending = [s \in Sessions |-> NoPreview]
  /\ chat = [s \in Sessions |-> <<>>]
  /\ turn = [t \in Turns |-> NotAsked]
  /\ inside = {}
  /\ Ledger!Init
  /\ report = NoReport
  /\ issued = {}
  /\ overlap = FALSE

\* Config.load().mode: the environment overrides the files.
LoadedMode == IF env = Unset THEN Configured ELSE env

\* The mode of a diagnose_service that an agent calls; it changes nothing.
ToolMode == NormalizeMode(LoadedMode)

-----------------------------------------------------------------------------
(* The FinOps page.                                                        *)

\* The first run of a session's script, always of this page.
OpenSession(s) ==
  /\ ~Open(s)
  /\ mode' = [mode EXCEPT ![s] = NormalizeMode(LoadedMode)]
  /\ UNCHANGED <<payments, chats>>

\* The sidebar's Action mode.
SelectMode(s) ==
  /\ Open(s) /\ ~Waiting(s)
  /\ \E m \in Modes \ {mode[s]} : mode' = [mode EXCEPT ![s] = m]
  /\ UNCHANGED <<payments, chats>>

Looking == {c \in inside : c.step = "looked"}

\* What a call that may remove t leaves of those that are inside: it crosses the
\* ones that have looked another token up and not yet rewritten the file.
Others(t) == {c \in Looking : c.token # t}

Crossed(t) ==
  (inside \ Others(t)) \cup {[c EXCEPT !.crossed = TRUE] : c \in Others(t)}

Meets == overlap' = (overlap \/ Looking # {})

\* The Preview button, shown where the session's mode applies actions.  The
\* token is issued and then lost to the session if the preview's text raises or
\* another click ends the run.
PreviewAction(s) ==
  /\ CanApplyActions(mode[s]) /\ ~Waiting(s)
  /\ \E p \in Preview :
       /\ p.session = s
       /\ Ledger!Issue(p.token)
       /\ pending' \in {[pending EXCEPT ![s] = p], pending}
       /\ issued' = issued \cup {p}
  /\ inside' = Crossed(Unset) /\ Meets
  /\ UNCHANGED <<mode, chats>>

\* A bound.
ClicksLeft ==
  Cardinality({t \in Turns : Asked(t)}) + Cardinality(performed) + Cardinality(inside) < MaxClicks

\* A call of apply for what the session has pending, whether it finds the token
\* or not.
Clicked(s, found) ==
  /\ CanApplyActions(mode[s]) /\ ~Waiting(s)
  /\ pending[s] # NoPreview
  /\ ClicksLeft
  /\ inside' = Crossed(pending[s].token) \cup
       {[session |-> s, token |-> pending[s].token, action |-> pending[s].action,
         mode |-> mode[s], found |-> found, step |-> "looked", awaited |-> TRUE,
         crossed |-> Others(pending[s].token) # {}]}
  /\ Meets
  /\ UNCHANGED <<mode, pending, standing, performed, issued, chats>>

\* Mutant of ClickApply: a token that is not there is as good as one that is.
ClickApplyUnread(s) == Clicked(s, TRUE)

\* The Apply button, for the action that was previewed: the token is looked up.
ClickApply(s) == Clicked(s, standing[pending[s].token] = "usable")

\* Another click while the script is inside apply.  A bound: a session has one
\* call that it no longer waits for.
LeaveApply(c) ==
  /\ c.awaited
  /\ \A d \in inside : d.session = c.session => d = c
  /\ inside' = (inside \ {c}) \cup {[c EXCEPT !.awaited = FALSE]}
  /\ UNCHANGED <<mode, pending, standing, performed, issued, overlap, chats>>

\* Mutant of TakeToken: the file is not rewritten.
TakeTokenNot(c) ==
  /\ c \in Looking /\ c.found
  /\ inside' = (inside \ {c}) \cup {[c EXCEPT !.step = "acts"]}
  /\ UNCHANGED <<mode, pending, standing, performed, issued, overlap, chats>>

\* The file is rewritten without the token, and that may in turn be undone by a
\* call that overlaps.
TakeToken(c) ==
  /\ c \in Looking /\ c.found
  /\ inside' = (inside \ {c}) \cup {[c EXCEPT !.step = "acts"]}
  /\ \/ standing' = [standing EXCEPT ![c.token] = "spent"]
     \/ c.crossed /\ standing' = [standing EXCEPT ![c.token] = "usable"]
  /\ UNCHANGED <<mode, pending, performed, issued, overlap, chats>>

\* Mutant of Popped: the token alone is removed.
PoppedHalf(c) ==
  pending' \in (IF c.awaited THEN {[pending EXCEPT ![c.session].token = Unset]} ELSE {}) \cup {pending}

\* pop("pending_action"), unless a click on something else ends the run at the
\* line before, which tells the result, or has ended it long ago.
Popped(c) ==
  pending' \in (IF c.awaited THEN {[pending EXCEPT ![c.session] = NoPreview]} ELSE {}) \cup {pending}

\* apply returns or raises with nothing done: the token is not there, is not
\* read or is lost, or AWS refuses what it has paid for.
FailApply(c) ==
  /\ \/ UNCHANGED <<standing, performed>>
     \/ c \in Looking /\ Ledger!Void({c.token})
  /\ inside' = inside \ {c}
  /\ Popped(c)
  /\ UNCHANGED <<mode, issued, overlap, chats>>

\* apply returns, or raises as it records the result, with the change made.
EndApply(c) ==
  /\ c.step = "acts"
  /\ performed' = performed \cup {<<c.token, CallOf(c)>>}
  /\ inside' = inside \ {c}
  /\ Popped(c)
  /\ UNCHANGED <<mode, standing, issued, overlap, chats>>

\* A call of another process loses tokens.
LoseTokens ==
  /\ \E lost \in SUBSET Tokens \ {{}} : Ledger!Void(lost)
  /\ inside' = Crossed(Unset) /\ Meets
  /\ UNCHANGED <<mode, pending, issued, chats>>

-----------------------------------------------------------------------------
(* The estate chat of the DevOps page.                                     *)

\* What asking t of the agent leaves of the turns: those that are running, and
\* t itself if there are any, are no longer alone.
WithTurn(s, t) ==
  [u \in Turns |->
     IF u = t THEN [status |-> "thinking", session |-> s, mode |-> mode[s],
                    alone |-> \A v \in Turns : ~Running(v)]
     ELSE IF Running(u) THEN [turn[u] EXCEPT !.alone = FALSE]
     ELSE turn[u]]

Say(s, role, t, diagram) ==
  chat' = [chat EXCEPT ![s] = Append(@, [role |-> role, turn |-> t, diagram |-> diagram])]

AskNext(s, t) ==
  /\ Open(s) /\ ~Waiting(s)
  /\ ~Asked(t) /\ \A u \in 1 .. t - 1 : Asked(u)
  /\ ClicksLeft
  /\ turn' = WithTurn(s, t)
  /\ Say(s, "user", t, 0)
  /\ UNCHANGED <<mode, payments>>

\* Mutants of Ask: the slot is not cleared; the mode is exported only once.
AskNotCleared(s, t) ==
  /\ AskNext(s, t)
  /\ env' = mode[s]
  /\ UNCHANGED last

AskNotExported(s, t) ==
  /\ AskNext(s, t)
  /\ env' = IF env = Unset THEN mode[s] ELSE env
  /\ last' = 0

\* The question is shown, the session's mode exported and the slot cleared.
Ask(s, t) ==
  /\ AskNext(s, t)
  /\ env' = mode[s]
  /\ last' = 0

\* draw_diagram, as the agent answers t: a tool knows nothing of sessions.
Draw(t) ==
  /\ Running(t)
  /\ last' = t
  /\ UNCHANGED <<env, mode, chat, turn, payments>>

\* Mutant of Answer: a run that was abandoned still shows its answer.
AnswerLate(t) ==
  /\ Running(t)
  /\ turn' = [turn EXCEPT ![t].status = "answered"]
  /\ Say(turn[t].session, "assistant", t, last)
  /\ UNCHANGED <<env, last, mode, payments>>

\* The agent returns, or raises, which is shown as an answer too; the diagram
\* is whatever the slot then holds.
Answer(t) ==
  /\ turn[t].status = "thinking"
  /\ turn' = [turn EXCEPT ![t].status = "answered"]
  /\ Say(turn[t].session, "assistant", t, last)
  /\ UNCHANGED <<env, last, mode, payments>>

\* A click starts another run of the session's script.
Abandon(t) ==
  /\ turn[t].status = "thinking"
  /\ turn' = [turn EXCEPT ![t].status = "abandoned"]
  /\ UNCHANGED <<env, last, mode, chat, payments>>

\* The agent of an abandoned run returns: the spinner stops the thread.
Stop(t) ==
  /\ turn[t].status = "abandoned"
  /\ turn' = [turn EXCEPT ![t].status = "stopped"]
  /\ UNCHANGED <<env, last, mode, chat, payments>>

-----------------------------------------------------------------------------
(* The fast path of the DevOps page: Review and Diagnose, with no agent.   *)

\* A bound: a report reads nothing but its session's mode, so it is asked for
\* only while one session is open and has done nothing but select modes, and
\* one report at a time.
Fresh(s) ==
  /\ report = NoReport
  /\ issued = {}
  /\ \A t \in Turns : ~Asked(t)
  /\ \A u \in Sessions : Open(u) <=> u = s

DiagnoseButton(s) ==
  /\ Fresh(s)
  /\ \E w \in DiagnosisWorlds :
       report' = [kind |-> "diagnosis", world |-> w, mode |-> mode[s],
                  result |-> DiagnoseService(w, mode[s])]

ReviewButton(s) ==
  /\ Fresh(s)
  /\ \E w \in ReviewWorlds :
       report' = [kind |-> "review", world |-> w,
                  result |-> ReviewService(w.service, w, Limit)]

-----------------------------------------------------------------------------
Click(s) ==
  \/ OpenSession(s)
  \/ SelectMode(s)
  \/ PreviewAction(s)
  \/ ClickApply(s)
  \/ \E t \in Turns : Ask(s, t)

Applying(c) ==
  \/ LeaveApply(c)
  \/ TakeToken(c)
  \/ FailApply(c)
  \/ EndApply(c)

Agent(t) ==
  \/ Draw(t)
  \/ Answer(t)
  \/ Abandon(t)
  \/ Stop(t)

Next ==
  \/ /\ \/ \E s \in Sessions : Click(s)
        \/ \E c \in inside : Applying(c)
        \/ \E t \in Turns : Agent(t)
        \/ LoseTokens
     /\ report' = NoReport
  \/ /\ \E s \in Sessions : DiagnoseButton(s) \/ ReviewButton(s)
     /\ UNCHANGED <<mode, payments, chats>>

Spec == Init /\ [][Next]_vars

-----------------------------------------------------------------------------
TypeOK ==
  /\ env \in Modes \cup {Unset}
  /\ last \in 0 .. MaxTurns
  /\ mode \in [Sessions -> Modes \cup {Unset}]
  /\ pending \in [Sessions -> Preview \cup {NoPreview}]
  /\ \A s \in Sessions : chat[s] \in
       Seq([role : {"user", "assistant"}, turn : Turns, diagram : 0 .. MaxTurns])
  /\ turn \in [Turns -> {NotAsked} \cup
       [status : {"thinking", "answered", "abandoned", "stopped"}, session : Sessions,
        mode : Modes, alone : BOOLEAN]]
  /\ inside \subseteq Inside
  /\ standing \in [Tokens -> {"unissued", "usable", "spent", "void"}]
  /\ performed \in SUBSET (Tokens \X Calls)
  /\ report.kind \in {"none", "diagnosis", "review"}
  /\ issued \in SUBSET Preview
  /\ overlap \in BOOLEAN

\* A change is made for a preview by the session that previewed it, of the action
\* it previewed and under guarded_write, whatever clicks come between, while apply
\* works or before pop("pending_action"); and at most once, as long as no call uses
\* the ledger between the look-up and the rewriting of another's.
AppliesOwnPreviewOnce ==
  \A x \in performed :
    /\ x[2].mode = "guarded_write"
    /\ [token |-> x[1], action |-> x[2].action, session |-> x[2].session] \in issued
    /\ ~overlap => \A y \in performed : y[1] = x[1] => y = x

\* In a session's chat every answer stands right after its own question, and a
\* question has none only while the agent is thinking or when the session has
\* clicked away.
AnswersFollowQuestions ==
  \A s \in Sessions : \A i \in DOMAIN chat[s] :
    LET m == chat[s][i] IN
    /\ turn[m.turn].session = s
    /\ m.role = "assistant" => i > 1 /\ chat[s][i - 1].role = "user" /\ chat[s][i - 1].turn = m.turn
    /\ m.role = "user" =>
         \/ turn[m.turn].status # "answered"
         \/ i < Len(chat[s]) /\ chat[s][i + 1].role = "assistant"

\* While no other turn runs in the process, the agent's tools diagnose under the
\* mode the session had when it asked, and the diagram beside its answer is one
\* this very turn has drawn.
TurnsAreTheirOwn ==
  /\ \A t \in Turns : Running(t) /\ turn[t].alone => ToolMode = turn[t].mode
  /\ \A s \in Sessions : \A m \in ToSet(chat[s]) :
       turn[m.turn].alone => m.diagram \in {0, m.turn}

\* What a diagnosis owes its reader (Explains, FollowsPosture).
DiagnosisIsSound ==
  report.kind = "diagnosis" =>
    Explains(report.result, report.world) /\ FollowsPosture(report.result, report.mode)

\* What a review owes its reader (ShowsWorst, BlamesWhatItRead).
ReviewIsSound ==
  report.kind = "review" =>
    /\ ShowsWorst(report.result, report.world.service, report.world, Limit)
    /\ BlamesWhatItRead(report.result, report.world.service, report.world)

\* Whichever of the two reports the page shows, it is true to the resource it is about,
\* the settings of a bucket that could not be read excepted.
ReportsAreSound == DiagnosisIsSound /\ ReviewIsSound

\* A session opens in the configured mode: another one, guarded_write above all,
\* takes a selection of its own (SPEC.md:522, "Writes require explicit mode").
OpensAsConfigured ==
  [][\A s \in Sessions : ~Open(s) /\ Open(s)' => mode'[s] = Configured]_vars

=============================================================================
