------------------------ MODULE GuardedActionsProofs ------------------------
(***************************************************************************)
(* Theorems about GuardedActions, for every set of workers, tokens,        *)
(* actions and params and every number of calls.                           *)
(*                                                                         *)
(* Spec, every interleaving and crash: type correctness, and that no write *)
(* reaches AWS without a preview of its action.  SerialSpec, calls that do *)
(* not overlap: every token pays for at most one write, a previewed token  *)
(* works, and the calls implement ActionLedger.                            *)
(***************************************************************************)
EXTENDS GuardedActions, TLAPS

\* What a write of pending.json leaves on disk holds no entry that was not
\* written, whatever the file held before.
LEMMA AfterWriteEntries ==
  ASSUME file \in [kind : {"json", "empty", "torn"}, entries : SUBSET Entry],
         NEW new \in SUBSET Entry, NEW f \in AfterWrite(new)
  PROVE  /\ f \in [kind : {"json", "empty", "torn"}, entries : SUBSET Entry]
         /\ f.entries \subseteq new
<1>1. file.kind \in {"json", "empty", "torn"}
  OBVIOUS
<1>2. f = Json(new) \/ f = Torn
  <2>1. CASE file.kind = "empty"
    BY <2>1 DEF AfterWrite
  <2>2. CASE file.kind = "torn"
    BY <2>2 DEF AfterWrite
  <2>3. CASE file.kind = "json"
    BY <2>3 DEF AfterWrite
  <2> QED
    BY <1>1, <2>1, <2>2, <2>3
<1> QED
  BY <1>2 DEF Json, Torn

\* What a reader takes for the pending dict is a part of what the file holds.
LEMMA StoredEntries ==
  ASSUME file \in [kind : {"json", "empty", "torn"}, entries : SUBSET Entry]
  PROVE  /\ Stored \in SUBSET Entry
         /\ Stored \subseteq file.entries
BY DEF Stored

-----------------------------------------------------------------------------
\* Type correctness, one step per action.
LEMMA TypeInit == Init => TypeOK
BY CallsAssumption DEF Init, TypeOK, Json, Idle, Steps

LEMMA TypeStep == TypeOK /\ [Next]_vars => TypeOK'
<1> SUFFICES ASSUME TypeOK, [Next]_vars
             PROVE  TypeOK'
  OBVIOUS
<1> USE DEF TypeOK, Idle, Steps
<1>1. ASSUME NEW w \in Workers, NEW result \in {"refused", "rejected"},
             EndAtOnce(w, result)
      PROVE  TypeOK'
  <2>1. ncalls' \in Calls
    BY <1>1, CallsAssumption DEF EndAtOnce, Begin, Calls
  <2> QED
    BY <1>1, <2>1, CallsAssumption DEF EndAtOnce, Begin, Calls
<1>2. ASSUME NEW w \in Workers, PreviewRead(w)
      PROVE  TypeOK'
  <2>1. ncalls' \in Calls
    BY <1>2, CallsAssumption DEF PreviewRead, Begin, Calls
  <2>2. PICK e \in Entry, pending \in ReadPending :
          /\ op' = [op EXCEPT ![w] = [call |-> ncalls', entry |-> e,
                                      given |-> e.params,
                                      data |-> pending \cup {e}]]
          /\ minted' = minted \cup {e}
    BY <1>2 DEF PreviewRead
  <2>3. [call |-> ncalls', entry |-> e, given |-> e.params,
         data |-> pending \cup {e}] \in Op
    BY <2>1, StoredEntries DEF Op, Entry, ReadPending
  <2>4. op' \in [Workers -> Op \cup {NoCall}] /\ op'[w] \in Op
    BY <2>2, <2>3
  <2>5. ncalls' \in 0 .. MaxCalls
    BY <1>2, CallsAssumption DEF PreviewRead, Begin
  <2>6. misread' \in SUBSET Calls
    BY <1>2, <2>1 DEF PreviewRead
  <2> QED
    BY <1>2, <2>2, <2>4, <2>5, <2>6 DEF PreviewRead, Begin
<1>3. ASSUME NEW w \in Workers, ApplyRead(w)
      PROVE  TypeOK'
  <2>1. ncalls' \in Calls
    BY <1>3, CallsAssumption DEF ApplyRead, Begin, Calls
  <2>2. PICK e \in Stored, given \in Params :
          op' = [op EXCEPT ![w] = [call |-> ncalls', entry |-> e,
                                   given |-> given,
                                   data |-> Stored \ {e}]]
    BY <1>3 DEF ApplyRead, ReadPending
  <2>3. [call |-> ncalls', entry |-> e, given |-> given,
         data |-> Stored \ {e}] \in Op
    BY <2>1, StoredEntries DEF Op
  <2>4. op' \in [Workers -> Op \cup {NoCall}] /\ op'[w] \in Op
    BY <2>2, <2>3
  <2>5. ncalls' \in 0 .. MaxCalls
    BY <1>3, CallsAssumption DEF ApplyRead, Begin
  <2> QED
    BY <1>3, <2>4, <2>5 DEF ApplyRead, Begin
<1>4. ASSUME NEW w \in Workers, MintOpen(w) \/ ConsumeOpen(w)
      PROVE  TypeOK'
  BY <1>4 DEF MintOpen, ConsumeOpen, Goto, Empty
<1>5. ASSUME NEW w \in Workers, MintWrite(w)
      PROVE  TypeOK'
  <2>1. op[w] \in Op
    BY <1>5 DEF MintWrite
  <2>2. file' \in [kind : {"json", "empty", "torn"}, entries : SUBSET Entry]
    BY <1>5, <2>1, AfterWriteEntries DEF MintWrite, Op
  <2> QED
    BY <1>5, <2>1, <2>2 DEF MintWrite, Finish, Op
<1>6. ASSUME NEW w \in Workers, ConsumeWrite(w)
      PROVE  TypeOK'
  <2>1. op[w] \in Op
    BY <1>6 DEF ConsumeWrite
  <2>2. file' \in [kind : {"json", "empty", "torn"}, entries : SUBSET Entry]
    BY <1>6, <2>1, AfterWriteEntries DEF ConsumeWrite, Op
  <2> QED
    BY <1>6, <2>2 DEF ConsumeWrite, Goto
<1>7. ASSUME NEW w \in Workers, Execute(w) \/ ExecuteFails(w)
      PROVE  TypeOK'
  <2>1. op[w] \in Op
    BY <1>7 DEF Execute, ExecuteFails
  <2>2. AwsWrite(op[w]) \in [call : Calls, token : Tokens, action : Allowlist,
                             given : Params, params : Params]
    BY <2>1 DEF AwsWrite, Chosen, Op, Entry
  <2> QED
    BY <1>7, <2>2 DEF Execute, ExecuteFails, Goto
<1>8. ASSUME NEW w \in Workers, RecordApplied(w) \/ RecordError(w)
      PROVE  TypeOK'
  <2>1. op[w] \in Op
    BY <1>8 DEF RecordApplied, RecordError
  <2>2. ASSUME NEW status \in {"applied", "error"}
        PROVE  Line(op[w], status)
                 \in [call : Calls, token : Tokens, action : Allowlist,
                      params : Params, status : {"applied", "error"}]
    BY <2>1 DEF Line, Chosen, Op, Entry
  <2> QED
    BY <1>8, <2>1, <2>2 DEF RecordApplied, RecordError, Finish, Op
<1>9. ASSUME NEW w \in Workers, RecordFails(w)
      PROVE  TypeOK'
  BY <1>9 DEF RecordFails, Goto
<1>10. ASSUME NEW w \in Workers, Raise(w) \/ Crash(w)
       PROVE  TypeOK'
  <2>1. op[w] \in Op
    BY <1>10 DEF Raise, Crash
  <2> QED
    BY <1>10, <2>1 DEF Raise, Crash, Finish, Op
<1>11. CASE UNCHANGED vars
  BY <1>11 DEF vars
<1> QED
  BY <1>1, <1>2, <1>3, <1>4, <1>5, <1>6, <1>7, <1>8, <1>9, <1>10, <1>11
     DEF Next, StartCall, Continue, Refuse, UnknownAction, ApplyReject

\* Every variable keeps its type in every interleaving.
THEOREM Typing == Spec => []TypeOK
<1> QED
  BY TypeInit, TypeStep, PTL DEF Spec

-----------------------------------------------------------------------------
(***************************************************************************)
(* No write without a preview.  AuthorisedWrites says nothing of what a    *)
(* later write will use, so it is not inductive: custody adds that every   *)
(* entry of the file and of a call's local copy was minted by a preview.   *)
(***************************************************************************)
EntriesMinted ==
  /\ file.entries \subseteq minted
  /\ \A w \in Workers : ~Idle(w) => op[w].entry \in minted /\ op[w].data \subseteq minted

CustodyInv == EntriesMinted /\ AuthorisedWrites

LEMMA CustodyInit == Init => CustodyInv
BY DEF Init, CustodyInv, EntriesMinted, AuthorisedWrites, Json, Idle

LEMMA CustodyStep == TypeOK /\ CustodyInv /\ [Next]_vars => CustodyInv'
<1> SUFFICES ASSUME TypeOK, CustodyInv, [Next]_vars
             PROVE  CustodyInv'
  OBVIOUS
<1>t. file \in [kind : {"json", "empty", "torn"}, entries : SUBSET Entry]
  BY DEF TypeOK
<1>r. Stored \subseteq minted
  BY <1>t, StoredEntries DEF CustodyInv, EntriesMinted
<1> USE DEF CustodyInv, EntriesMinted, Idle
<1>1. ASSUME NEW w \in Workers, NEW result \in {"refused", "rejected"},
             EndAtOnce(w, result)
      PROVE  CustodyInv'
  BY <1>1 DEF EndAtOnce, Begin, AuthorisedWrites
<1>2. ASSUME NEW w \in Workers, PreviewRead(w)
      PROVE  CustodyInv'
  <2>1. PICK e \in Entry, pending \in ReadPending :
          /\ op' = [op EXCEPT ![w] = [call |-> ncalls', entry |-> e,
                                      given |-> e.params,
                                      data |-> pending \cup {e}]]
          /\ minted' = minted \cup {e}
    BY <1>2 DEF PreviewRead
  <2>p. pending \subseteq minted
    BY <1>r DEF ReadPending
  <2>2. EntriesMinted'
    BY <1>2, <2>p, <2>1 DEF PreviewRead, Begin, TypeOK
  <2>3. AuthorisedWrites'
    BY <1>2, <2>1 DEF PreviewRead, AuthorisedWrites
  <2> QED
    BY <2>2, <2>3
<1>3. ASSUME NEW w \in Workers, ApplyRead(w)
      PROVE  CustodyInv'
  <2>1. PICK e \in Stored, given \in Params :
          op' = [op EXCEPT ![w] = [call |-> ncalls', entry |-> e,
                                   given |-> given,
                                   data |-> Stored \ {e}]]
    BY <1>3 DEF ApplyRead, ReadPending
  <2> QED
    BY <1>3, <1>r, <2>1 DEF ApplyRead, Begin, TypeOK, AuthorisedWrites
<1>4. ASSUME NEW w \in Workers, MintOpen(w) \/ ConsumeOpen(w)
      PROVE  CustodyInv'
  BY <1>4 DEF MintOpen, ConsumeOpen, Goto, Empty, TypeOK, AuthorisedWrites
<1>5. ASSUME NEW w \in Workers, MintWrite(w) \/ ConsumeWrite(w)
      PROVE  CustodyInv'
  <2>1. op[w] \in Op /\ ~Idle(w)
    BY <1>5 DEF MintWrite, ConsumeWrite, TypeOK
  <2>2. file'.entries \subseteq op[w].data
    BY <1>5, <1>t, <2>1, AfterWriteEntries DEF MintWrite, ConsumeWrite, Op
  <2> QED
    BY <1>5, <2>1, <2>2
       DEF MintWrite, ConsumeWrite, Goto, Finish, TypeOK, AuthorisedWrites
<1>6. ASSUME NEW w \in Workers, Execute(w) \/ ExecuteFails(w)
      PROVE  CustodyInv'
  <2>1. op[w] \in Op /\ op[w].entry \in minted
    BY <1>6 DEF Execute, ExecuteFails, TypeOK
  <2>2. \E m \in minted : /\ m.token = AwsWrite(op[w]).token
                          /\ m.action = AwsWrite(op[w]).action
                          /\ \/ AwsWrite(op[w]).params = m.params
                             \/ AwsWrite(op[w]).params = AwsWrite(op[w]).given
    BY <2>1 DEF AwsWrite, Chosen
  <2>3. AuthorisedWrites'
    BY <1>6, <2>2 DEF Execute, ExecuteFails, AuthorisedWrites
  <2> QED
    BY <1>6, <2>3 DEF Execute, ExecuteFails, Goto, TypeOK
<1>7. ASSUME NEW w \in Workers,
             RecordApplied(w) \/ RecordFails(w) \/ RecordError(w) \/ Raise(w) \/ Crash(w)
      PROVE  CustodyInv'
  BY <1>7 DEF RecordApplied, RecordFails, RecordError, Raise, Crash, Finish, Goto,
              TypeOK, AuthorisedWrites
<1>8. CASE UNCHANGED vars
  BY <1>8 DEF vars, AuthorisedWrites
<1> QED
  BY <1>1, <1>2, <1>3, <1>4, <1>5, <1>6, <1>7, <1>8
     DEF Next, StartCall, Continue, Refuse, UnknownAction, ApplyReject

\* Every change made in AWS was authorised by a preview of the same action,
\* however previews, applies and crashes interleave on the unlocked file.
THEOREM WritesAuthorised == Spec => []AuthorisedWrites
<1>1. CustodyInv => AuthorisedWrites
  BY DEF CustodyInv
<1> QED
  BY <1>1, TypeInit, TypeStep, CustodyInit, CustodyStep, PTL DEF Spec

-----------------------------------------------------------------------------
(***************************************************************************)
(* The log tells the truth: between the AWS call and its audit line, the   *)
(* write is there.                                                         *)
(***************************************************************************)
TruthInv ==
  /\ AuditTruthful
  /\ \A w \in Workers : pc[w] = "audit_applied" => AwsWrite(op[w]) \in writes

LEMMA TruthStep == TypeOK /\ TruthInv /\ [Next]_vars => TruthInv'
<1> SUFFICES ASSUME TypeOK, TruthInv, [Next]_vars
             PROVE  TruthInv'
  OBVIOUS
<1> USE DEF TruthInv, Idle
<1>1. ASSUME NEW w \in Workers, NEW result \in {"refused", "rejected"},
             EndAtOnce(w, result)
      PROVE  TruthInv'
  BY <1>1 DEF EndAtOnce, AuditTruthful
<1>2. ASSUME NEW w \in Workers, PreviewRead(w) \/ ApplyRead(w)
      PROVE  TruthInv'
  <2>1. /\ UNCHANGED <<log, writes>>
        /\ \/ pc' = [pc EXCEPT ![w] = "mint_open"]
           \/ pc' = [pc EXCEPT ![w] = "consume_open"]
        /\ \A v \in Workers : v # w => op'[v] = op[v]
    BY <1>2 DEF PreviewRead, ApplyRead, TypeOK
  <2> QED
    BY <2>1 DEF AuditTruthful, TypeOK
<1>3. ASSUME NEW w \in Workers,
             MintOpen(w) \/ ConsumeOpen(w) \/ ConsumeWrite(w) \/ RecordFails(w)
      PROVE  TruthInv'
  BY <1>3 DEF MintOpen, ConsumeOpen, ConsumeWrite, RecordFails, Goto, TypeOK,
              AuditTruthful
<1>4. ASSUME NEW w \in Workers, MintWrite(w) \/ Raise(w) \/ Crash(w)
      PROVE  TruthInv'
  BY <1>4 DEF MintWrite, Raise, Crash, Finish, TypeOK, AuditTruthful
<1>5. ASSUME NEW w \in Workers, Execute(w) \/ ExecuteFails(w)
      PROVE  TruthInv'
  BY <1>5 DEF Execute, ExecuteFails, Goto, TypeOK, AuditTruthful
<1>6. ASSUME NEW w \in Workers, RecordApplied(w)
      PROVE  TruthInv'
  <2>1. AwsWrite(op[w]) \in writes
    BY <1>6 DEF RecordApplied
  <2>2. AuditTruthful'
    BY <1>6, <2>1 DEF RecordApplied, AuditTruthful, Line, AwsWrite
  <2> QED
    BY <1>6, <2>2 DEF RecordApplied, Finish, TypeOK
<1>7. ASSUME NEW w \in Workers, RecordError(w)
      PROVE  TruthInv'
  <2>1. AuditTruthful'
    BY <1>7 DEF RecordError, AuditTruthful, Line
  <2> QED
    BY <1>7, <2>1 DEF RecordError, Finish, TypeOK
<1>8. CASE UNCHANGED vars
  BY <1>8 DEF vars, AuditTruthful
<1> QED
  BY <1>1, <1>2, <1>3, <1>4, <1>5, <1>6, <1>7, <1>8
     DEF Next, StartCall, Continue, Refuse, UnknownAction, ApplyReject

\* A line "applied" in the audit log always stands for a write of that call.
THEOREM LogIsTruthful == Spec => []AuditTruthful
<1>1. Init => TruthInv
  BY DEF Init, TruthInv, AuditTruthful
<1>2. TruthInv => AuditTruthful
  BY DEF TruthInv
<1> QED
  BY <1>1, <1>2, TypeInit, TypeStep, TruthStep, PTL DEF Spec

-----------------------------------------------------------------------------
(***************************************************************************)
(* Answered writes are audited.  A write is of the call that is running it *)
(* until that call's line is written, because call numbers are never       *)
(* shared and a preview writes nothing.                                    *)
(***************************************************************************)
CallsDistinct ==
  /\ \A w \in Workers : ~Idle(w) => op[w].call <= ncalls
  /\ \A x \in writes : x.call <= ncalls
  /\ \A v, w \in Workers : ~Idle(v) /\ ~Idle(w) /\ v # w => op[v].call # op[w].call

PreviewsWriteNothing ==
  \A w \in Workers : pc[w] \in {"mint_open", "mint_write"} =>
    \A x \in writes : x.call # op[w].call

AnsweredInv == CallsDistinct /\ PreviewsWriteNothing /\ AnsweredWritesAudited

LEMMA AnsweredStep == TypeOK /\ AnsweredInv /\ [Next]_vars => AnsweredInv'
<1> SUFFICES ASSUME TypeOK, AnsweredInv, [Next]_vars
             PROVE  AnsweredInv'
  OBVIOUS
<1> USE DEF AnsweredInv, CallsDistinct, PreviewsWriteNothing, Idle
<1>0. ncalls \in Nat /\ \A w \in Workers : ~Idle(w) => op[w].call \in Nat
  BY CallsAssumption DEF TypeOK, Op, Calls
<1>00. \A x \in writes : x.call \in Nat
  BY CallsAssumption DEF TypeOK, Calls
<1>1. ASSUME NEW w \in Workers, NEW result \in {"refused", "rejected"},
             EndAtOnce(w, result)
      PROVE  AnsweredInv'
  BY <1>1, <1>0, <1>00 DEF EndAtOnce, Begin, AnsweredWritesAudited
<1>2. ASSUME NEW w \in Workers, PreviewRead(w) \/ ApplyRead(w)
      PROVE  AnsweredInv'
  <2>1. /\ UNCHANGED <<log, writes, outcome>>
        /\ Idle(w)
        /\ \/ pc' = [pc EXCEPT ![w] = "mint_open"]
           \/ pc' = [pc EXCEPT ![w] = "consume_open"]
        /\ ncalls' = ncalls + 1
        /\ op'[w].call = ncalls'
        /\ \A v \in Workers : v # w => op'[v] = op[v]
    BY <1>2 DEF PreviewRead, ApplyRead, Begin, TypeOK
  <2>2. CallsDistinct'
    BY <2>1, <1>0, <1>00 DEF TypeOK
  <2>3. PreviewsWriteNothing'
    BY <2>1, <1>0, <1>00 DEF TypeOK
  <2>4. AnsweredWritesAudited'
    BY <2>1 DEF TypeOK, AnsweredWritesAudited
  <2> QED
    BY <2>2, <2>3, <2>4
<1>3. ASSUME NEW w \in Workers,
             MintOpen(w) \/ ConsumeOpen(w) \/ ConsumeWrite(w) \/ RecordFails(w)
      PROVE  AnsweredInv'
  <2>1. /\ UNCHANGED <<log, writes, outcome, op, ncalls>>
        /\ pc'[w] # "idle" /\ ~Idle(w)
        /\ pc'[w] \in {"mint_open", "mint_write"} => pc[w] \in {"mint_open", "mint_write"}
        /\ \A v \in Workers : v # w => pc'[v] = pc[v]
    BY <1>3 DEF MintOpen, ConsumeOpen, ConsumeWrite, RecordFails, Goto, TypeOK
  <2>2. CallsDistinct' /\ PreviewsWriteNothing'
    BY <2>1
  <2>3. AnsweredWritesAudited'
    BY <2>1 DEF AnsweredWritesAudited
  <2> QED
    BY <2>2, <2>3
<1>4. ASSUME NEW w \in Workers, Execute(w) \/ ExecuteFails(w)
      PROVE  AnsweredInv'
  <2>1. /\ UNCHANGED <<log, outcome, op, ncalls>>
        /\ pc[w] = "execute" /\ pc'[w] \in {"audit_applied", "audit_error"}
        /\ \A v \in Workers : v # w => pc'[v] = pc[v]
        /\ \A x \in writes' : x \in writes \/ x.call = op[w].call
    BY <1>4 DEF Execute, ExecuteFails, Goto, TypeOK, AwsWrite
  <2>2. CallsDistinct' /\ PreviewsWriteNothing'
    BY <2>1
  <2>3. AnsweredWritesAudited'
    BY <2>1 DEF AnsweredWritesAudited
  <2> QED
    BY <2>2, <2>3
<1>5. ASSUME NEW w \in Workers,
             MintWrite(w) \/ RecordApplied(w) \/ RecordError(w) \/ Raise(w) \/ Crash(w)
      PROVE  AnsweredInv'
  <2>1. /\ UNCHANGED <<writes, ncalls>>
        /\ log \subseteq log' /\ outcome \subseteq outcome'
        /\ ~Idle(w) /\ pc'[w] = "idle"
        /\ \A v \in Workers : v # w => pc'[v] = pc[v] /\ op'[v] = op[v]
    BY <1>5 DEF MintWrite, RecordApplied, RecordError, Raise, Crash, Finish, TypeOK
  <2>2. CallsDistinct' /\ PreviewsWriteNothing'
    BY <2>1
  <2>3. \/ \A x \in writes : x.call # op[w].call
        \/ \E l \in log' : l.call = op[w].call
        \/ \E o \in outcome' : o.call = op[w].call /\ o.result \in {"raised", "crashed"}
    <3>1. CASE MintWrite(w)
      BY <3>1 DEF MintWrite
    <3>2. CASE RecordApplied(w)
      <4>1. Line(op[w], "applied") \in log'
        BY <3>2 DEF RecordApplied
      <4>2. Line(op[w], "applied").call = op[w].call
        BY DEF Line
      <4> QED
        BY <4>1, <4>2
    <3>3. CASE RecordError(w)
      <4>1. Line(op[w], "error") \in log'
        BY <3>3 DEF RecordError
      <4>2. Line(op[w], "error").call = op[w].call
        BY DEF Line
      <4> QED
        BY <4>1, <4>2
    <3>4. CASE Raise(w) \/ Crash(w)
      <4>1. PICK r \in {"raised", "crashed"} : [call |-> op[w].call, result |-> r] \in outcome'
        BY <3>4 DEF Raise, Crash, Finish
      <4> QED
        BY <4>1
    <3> QED
      BY <1>5, <3>1, <3>2, <3>3, <3>4
  <2>4. AnsweredWritesAudited'
    BY <2>1, <2>3 DEF AnsweredWritesAudited
  <2> QED
    BY <2>2, <2>4
<1>6. CASE UNCHANGED vars
  BY <1>6 DEF vars, AnsweredWritesAudited
<1> QED
  BY <1>1, <1>2, <1>3, <1>4, <1>5, <1>6
     DEF Next, StartCall, Continue, Refuse, UnknownAction, ApplyReject

\* A change whose caller got an answer is in the audit log.
THEOREM AnswersAreAudited == Spec => []AnsweredWritesAudited
<1>1. Init => AnsweredInv
  BY DEF Init, AnsweredInv, CallsDistinct, PreviewsWriteNothing,
         AnsweredWritesAudited, Idle
<1>2. AnsweredInv => AnsweredWritesAudited
  BY DEF AnsweredInv
<1> QED
  BY <1>1, <1>2, TypeInit, TypeStep, AnsweredStep, PTL DEF Spec

-----------------------------------------------------------------------------
(***************************************************************************)
(* Calls that do not overlap.  At most one call is running, its copy of    *)
(* the dict and the file hold only unspent tokens, and the token an apply  *)
(* has popped is in neither from the moment it has been saved.             *)
(***************************************************************************)
OneCall == \A v, w \in Workers : ~Idle(v) /\ ~Idle(w) => v = w

UniqueTokens == \A m, n \in minted : m.token = n.token => m = n

Consuming(w) == pc[w] \in {"consume_open", "consume_write", "execute"}

CopyUnspent ==
  \A w \in Workers :
    /\ pc[w] \in {"mint_open", "mint_write", "consume_open", "consume_write"} =>
         \A x \in writes, e \in op[w].data : e.token # x.token
    /\ Consuming(w) =>
         /\ \A x \in writes : op[w].entry.token # x.token
         /\ \A e \in op[w].data : op[w].entry.token # e.token
    /\ pc[w] = "execute" =>
         \A e \in file.entries : op[w].entry.token # e.token

FileUnspent == \A x \in writes, e \in file.entries : e.token # x.token

SerialInv == OneCall /\ UniqueTokens /\ CopyUnspent /\ FileUnspent /\ SingleUse

LEMMA SerialIsNext == [SerialNext]_vars => [Next]_vars
BY DEF SerialNext, Next

LEMMA SerialStep ==
  TypeOK /\ CustodyInv /\ SerialInv /\ [SerialNext]_vars => SerialInv'
<1> SUFFICES ASSUME TypeOK, CustodyInv, SerialInv, [SerialNext]_vars
             PROVE  SerialInv'
  OBVIOUS
<1>t. file \in [kind : {"json", "empty", "torn"}, entries : SUBSET Entry]
  BY DEF TypeOK
<1>r. Stored \subseteq minted /\ Stored \subseteq file.entries
  BY <1>t, StoredEntries DEF CustodyInv, EntriesMinted
<1>w. \A x \in writes : \E m \in minted : m.token = x.token
  BY DEF CustodyInv, AuthorisedWrites
<1> USE DEF SerialInv, Idle
<1>1. ASSUME NEW w \in Workers, NEW result \in {"refused", "rejected"},
             EndAtOnce(w, result)
      PROVE  SerialInv'
  BY <1>1 DEF EndAtOnce, Begin, OneCall, UniqueTokens, CopyUnspent, FileUnspent,
              SingleUse, Consuming
<1>2. ASSUME NEW w \in Workers, Quiet, PreviewRead(w)
      PROVE  SerialInv'
  <2>1. PICK e \in Entry, pending \in ReadPending :
          /\ e.token \notin {m.token : m \in minted}
          /\ op' = [op EXCEPT ![w] = [call |-> ncalls', entry |-> e,
                                      given |-> e.params,
                                      data |-> pending \cup {e}]]
          /\ minted' = minted \cup {e}
    BY <1>2 DEF PreviewRead
  <2>2. /\ pc' = [pc EXCEPT ![w] = "mint_open"]
        /\ \A v \in Workers : v # w => pc'[v] = "idle"
        /\ UNCHANGED <<file, writes>>
    BY <1>2 DEF PreviewRead, Quiet, TypeOK
  <2>3. OneCall' /\ FileUnspent' /\ SingleUse'
    BY <2>2 DEF OneCall, FileUnspent, SingleUse
  <2>4. UniqueTokens'
    BY <2>1 DEF UniqueTokens
  <2>p. pending \subseteq file.entries
    BY <1>r DEF ReadPending
  <2>5. \A x \in writes, d \in op'[w].data : d.token # x.token
    BY <2>1, <2>p, <1>w DEF FileUnspent, TypeOK
  <2>6. CopyUnspent'
    BY <2>2, <2>5 DEF CopyUnspent, Consuming, TypeOK
  <2> QED
    BY <2>3, <2>4, <2>6
<1>3. ASSUME NEW w \in Workers, Quiet, ApplyRead(w)
      PROVE  SerialInv'
  <2>1. PICK e \in Stored, given \in Params :
          op' = [op EXCEPT ![w] = [call |-> ncalls', entry |-> e,
                                   given |-> given,
                                   data |-> Stored \ {e}]]
    BY <1>3 DEF ApplyRead, ReadPending
  <2>2. /\ pc' = [pc EXCEPT ![w] = "consume_open"]
        /\ \A v \in Workers : v # w => pc'[v] = "idle"
        /\ UNCHANGED <<file, minted, writes>>
    BY <1>3 DEF ApplyRead, Quiet, TypeOK
  <2>3. OneCall' /\ UniqueTokens' /\ FileUnspent' /\ SingleUse'
    BY <2>2 DEF OneCall, UniqueTokens, FileUnspent, SingleUse
  <2>4. /\ \A x \in writes, d \in op'[w].data : d.token # x.token
        /\ \A x \in writes : op'[w].entry.token # x.token
        /\ \A d \in op'[w].data : op'[w].entry.token # d.token
    BY <2>1, <1>r DEF FileUnspent, UniqueTokens, TypeOK
  <2>5. CopyUnspent'
    BY <2>2, <2>4 DEF CopyUnspent, Consuming, TypeOK
  <2> QED
    BY <2>3, <2>5
<1>4. ASSUME NEW w \in Workers, MintOpen(w) \/ ConsumeOpen(w)
      PROVE  SerialInv'
  <2>1. /\ \/ pc[w] = "mint_open" /\ pc' = [pc EXCEPT ![w] = "mint_write"]
           \/ pc[w] = "consume_open" /\ pc' = [pc EXCEPT ![w] = "consume_write"]
        /\ file' = Empty
        /\ UNCHANGED <<op, minted, writes>>
    BY <1>4 DEF MintOpen, ConsumeOpen, Goto
  <2>2. OneCall' /\ UniqueTokens' /\ FileUnspent' /\ SingleUse'
    BY <2>1 DEF OneCall, UniqueTokens, FileUnspent, SingleUse, Empty, TypeOK
  <2>3. CopyUnspent'
    BY <2>1 DEF CopyUnspent, Consuming, Empty, TypeOK
  <2> QED
    BY <2>2, <2>3
<1>5. ASSUME NEW w \in Workers, MintWrite(w) \/ ConsumeWrite(w)
      PROVE  SerialInv'
  <2>1. op[w] \in Op /\ ~Idle(w)
    BY <1>5 DEF MintWrite, ConsumeWrite, TypeOK
  <2>2. file'.entries \subseteq op[w].data
    BY <1>5, <1>t, <2>1, AfterWriteEntries DEF MintWrite, ConsumeWrite, Op
  <2>3. /\ \/ pc[w] = "mint_write" /\ pc' = [pc EXCEPT ![w] = "idle"]
           \/ pc[w] = "consume_write" /\ pc' = [pc EXCEPT ![w] = "execute"]
        /\ \A v \in Workers : v # w => pc'[v] = "idle"
        /\ pc'[w] = "execute" => op'[w] = op[w]
        /\ UNCHANGED <<minted, writes>>
    BY <1>5, <2>1 DEF MintWrite, ConsumeWrite, Goto, Finish, TypeOK, OneCall
  <2>4. OneCall' /\ UniqueTokens' /\ SingleUse'
    BY <2>3 DEF OneCall, UniqueTokens, SingleUse, TypeOK
  <2>5. FileUnspent'
    BY <2>2, <2>3 DEF FileUnspent, CopyUnspent
  <2>6. CopyUnspent'
    BY <2>2, <2>3 DEF CopyUnspent, Consuming, TypeOK
  <2> QED
    BY <2>4, <2>5, <2>6
<1>6. ASSUME NEW w \in Workers, Execute(w) \/ ExecuteFails(w)
      PROVE  SerialInv'
  <2>1. /\ pc[w] = "execute" /\ pc'[w] \in {"audit_applied", "audit_error"}
        /\ \A v \in Workers : v # w => pc'[v] = "idle"
        /\ UNCHANGED <<file, op, minted>>
        /\ writes' \in {writes, writes \cup {AwsWrite(op[w])}}
    BY <1>6 DEF Execute, ExecuteFails, Goto, TypeOK, OneCall
  <2>2. AwsWrite(op[w]).token = op[w].entry.token
    BY DEF AwsWrite
  <2>3. OneCall' /\ UniqueTokens' /\ CopyUnspent'
    BY <2>1 DEF OneCall, UniqueTokens, CopyUnspent, Consuming
  <2>4. FileUnspent'
    BY <2>1, <2>2 DEF FileUnspent, CopyUnspent
  <2>5. SingleUse'
    BY <2>1, <2>2 DEF SingleUse, CopyUnspent, Consuming
  <2> QED
    BY <2>3, <2>4, <2>5
<1>7. ASSUME NEW w \in Workers,
             RecordApplied(w) \/ RecordFails(w) \/ RecordError(w) \/ Raise(w) \/ Crash(w)
      PROVE  SerialInv'
  <2>1. /\ pc'[w] \in {"idle", "audit_error"} /\ ~Idle(w)
        /\ \A v \in Workers : v # w => pc'[v] = "idle"
        /\ UNCHANGED <<file, minted, writes>>
    BY <1>7 DEF RecordApplied, RecordFails, RecordError, Raise, Crash, Finish, Goto,
                TypeOK, OneCall
  <2> QED
    BY <2>1 DEF OneCall, UniqueTokens, CopyUnspent, FileUnspent, SingleUse, Consuming
<1>8. CASE UNCHANGED vars
  BY <1>8 DEF vars, OneCall, UniqueTokens, CopyUnspent, FileUnspent, SingleUse, Consuming
<1> QED
  BY <1>1, <1>2, <1>3, <1>4, <1>5, <1>6, <1>7, <1>8
     DEF SerialNext, StartCall, Continue, Refuse, UnknownAction, ApplyReject

LEMMA SerialInvariant == SerialSpec => [](TypeOK /\ CustodyInv /\ SerialInv)
<1>1. Init => SerialInv
  BY DEF Init, SerialInv, OneCall, UniqueTokens, CopyUnspent, FileUnspent, SingleUse,
         Consuming, Idle, Json
<1> QED
  BY <1>1, TypeInit, TypeStep, CustodyInit, CustodyStep, SerialStep, SerialIsNext, PTL
     DEF SerialSpec

\* When calls do not overlap, a confirmation token executes at most one
\* change, whatever crashes and whatever the file is left with.
THEOREM TokensAreSingleUse == SerialSpec => []SingleUse
<1>1. SerialInv => SingleUse
  BY DEF SerialInv
<1> QED
  BY <1>1, SerialInvariant, PTL

\* When calls do not overlap, no rewrite of pending.json brings a spent token
\* back.
THEOREM SpentTokensStayGone == SerialSpec => []SpentTokenGone
<1>1. TypeOK /\ SerialInv => SpentTokenGone
  <2> SUFFICES ASSUME TypeOK, SerialInv
               PROVE  SpentTokenGone
    OBVIOUS
  <2>1. Stored \subseteq file.entries
    BY StoredEntries DEF TypeOK
  <2> QED
    BY <2>1 DEF SpentTokenGone, SerialInv, FileUnspent
<1> QED
  BY <1>1, SerialInvariant, PTL

-----------------------------------------------------------------------------
(***************************************************************************)
(* A previewed token works.  While a call is running the token may be      *)
(* nowhere in the file: it is then in the copy that the call is about to   *)
(* write, or it is the one that the call has popped.                       *)
(***************************************************************************)
Undisturbed == misread = {} /\ Ended({"raised", "crashed"}) = {}

Rewriting(w) == pc[w] \in {"mint_open", "mint_write", "consume_open", "consume_write"}

HeldBy(w, m) ==
  \/ Rewriting(w) /\ m \in op[w].data
  \/ /\ pc[w] \in {"consume_open", "consume_write", "execute", "audit_applied", "audit_error"}
     /\ m.token = op[w].entry.token

Accounted(m) ==
  \/ \E l \in log : l.token = m.token
  \/ \E w \in Workers : HeldBy(w, m)
  \/ m \in Stored /\ \A w \in Workers : ~Rewriting(w)

KeptInv ==
  Undisturbed =>
    /\ \A w \in Workers : pc[w] \in {"mint_write", "consume_write"} => file.kind = "empty"
    /\ \A m \in minted : Accounted(m)

\* A call that has raised, crashed or misread the file is never forgotten.
LEMMA StaysDisturbed == [Next]_vars /\ Undisturbed' => Undisturbed
<1>1. [Next]_vars => outcome \subseteq outcome' /\ misread \subseteq misread'
  BY DEF Next, StartCall, Continue, Refuse, UnknownAction, EndAtOnce, PreviewRead, ApplyRead,
         ApplyReject, MintOpen, MintWrite, ConsumeOpen, ConsumeWrite, Execute, ExecuteFails,
         RecordApplied, RecordFails, RecordError, Raise, Crash, Goto, Finish, vars
<1> QED
  BY <1>1 DEF Undisturbed, Ended

LEMMA KeptStep ==
  TypeOK /\ SerialInv /\ KeptInv /\ [SerialNext]_vars => KeptInv'
<1> SUFFICES ASSUME TypeOK, SerialInv, KeptInv, [SerialNext]_vars, Undisturbed'
             PROVE  /\ \A w \in Workers :
                         pc'[w] \in {"mint_write", "consume_write"} => file'.kind = "empty"
                    /\ \A m \in minted' : Accounted(m)'
  BY DEF KeptInv
<1>i. /\ \A w \in Workers : pc[w] \in {"mint_write", "consume_write"} => file.kind = "empty"
      /\ \A m \in minted : Accounted(m)
  BY StaysDisturbed, SerialIsNext DEF KeptInv
<1> DEFINE EmptyWhileWritten ==
             \A w \in Workers : pc[w] \in {"mint_write", "consume_write"} => file.kind = "empty"
<1>1. ASSUME NEW w \in Workers, NEW result \in {"refused", "rejected"},
             EndAtOnce(w, result)
      PROVE  EmptyWhileWritten' /\ \A m \in minted' : Accounted(m)'
  BY <1>1, <1>i DEF EndAtOnce, Accounted, HeldBy, Rewriting, Stored
<1>2. ASSUME NEW w \in Workers, Quiet, PreviewRead(w) \/ ApplyRead(w)
      PROVE  EmptyWhileWritten' /\ \A m \in minted' : Accounted(m)'
  <2>1. PICK e \in Entry :
          /\ op'[w].entry = e
          /\ \/ /\ minted' = minted \cup {e}
                /\ op'[w].data = Stored \cup {e}
                /\ pc' = [pc EXCEPT ![w] = "mint_open"]
             \/ /\ minted' = minted
                /\ op'[w].data = Stored \ {e}
                /\ pc' = [pc EXCEPT ![w] = "consume_open"]
          /\ UNCHANGED <<file, log>>
    <3>1. CASE PreviewRead(w)
      BY <3>1 DEF PreviewRead, TypeOK, Undisturbed
    <3>2. CASE ApplyRead(w)
      BY <3>2, StoredEntries DEF ApplyRead, ReadPending, TypeOK
    <3> QED
      BY <1>2, <3>1, <3>2
  <2>2. \A v \in Workers : pc[v] = "idle"
    BY <1>2 DEF Quiet, Idle
  <2>3. EmptyWhileWritten'
    BY <2>1, <2>2 DEF TypeOK
  <2>4. ASSUME NEW m \in minted, \E l \in log : l.token = m.token
        PROVE  Accounted(m)'
    BY <2>1, <2>4 DEF Accounted
  <2>5. ASSUME NEW m, m = e \/ m \in Stored
        PROVE  Accounted(m)'
    BY <2>1, <2>5 DEF Accounted, HeldBy, Rewriting, TypeOK
  <2>6. \A m \in minted : m \in Stored \/ \E l \in log : l.token = m.token
    BY <1>i, <2>2 DEF Accounted, HeldBy, Rewriting
  <2> QED
    BY <2>1, <2>3, <2>4, <2>5, <2>6
<1>3. ASSUME NEW w \in Workers, MintOpen(w) \/ ConsumeOpen(w)
      PROVE  EmptyWhileWritten' /\ \A m \in minted' : Accounted(m)'
  <2>1. /\ \/ pc[w] = "mint_open" /\ pc' = [pc EXCEPT ![w] = "mint_write"]
           \/ pc[w] = "consume_open" /\ pc' = [pc EXCEPT ![w] = "consume_write"]
        /\ file' = Empty
        /\ UNCHANGED <<op, log, minted>>
    BY <1>3 DEF MintOpen, ConsumeOpen, Goto
  <2>2. EmptyWhileWritten'
    BY <2>1 DEF Empty
  <2>3. ASSUME NEW m, NEW v \in Workers, HeldBy(v, m)
        PROVE  HeldBy(v, m)'
    BY <2>1, <2>3 DEF HeldBy, Rewriting, TypeOK
  <2>4. Rewriting(w)
    BY <2>1 DEF Rewriting
  <2> QED
    BY <1>i, <2>1, <2>2, <2>3, <2>4 DEF Accounted
<1>4. ASSUME NEW w \in Workers, MintWrite(w) \/ ConsumeWrite(w)
      PROVE  EmptyWhileWritten' /\ \A m \in minted' : Accounted(m)'
  <2>1. /\ pc[w] \in {"mint_write", "consume_write"}
        /\ file' \in AfterWrite(op[w].data)
        /\ \/ pc[w] = "mint_write" /\ pc' = [pc EXCEPT ![w] = "idle"]
           \/ pc[w] = "consume_write" /\ pc' = [pc EXCEPT ![w] = "execute"] /\ op' = op
        /\ UNCHANGED <<log, minted>>
    BY <1>4 DEF MintWrite, ConsumeWrite, Goto, Finish
  <2>2. \A v \in Workers : v # w => pc[v] = "idle"
    BY <2>1 DEF SerialInv, OneCall, Idle
  <2>3. file' = Json(op[w].data)
    BY <1>i, <2>1 DEF AfterWrite
  <2>4. Stored' = op[w].data /\ \A v \in Workers : ~Rewriting(v)'
    BY <2>1, <2>2, <2>3 DEF Stored, Json, Rewriting, TypeOK
  <2>5. ASSUME NEW m, HeldBy(w, m)
        PROVE  Accounted(m)'
    BY <2>1, <2>4, <2>5 DEF Accounted, HeldBy, Rewriting, TypeOK
  <2>6. \A m \in minted : HeldBy(w, m) \/ \E l \in log : l.token = m.token
    BY <1>i, <2>1, <2>2 DEF Accounted, HeldBy, Rewriting
  <2>7. EmptyWhileWritten'
    BY <2>1, <2>2 DEF TypeOK
  <2> QED
    BY <2>1, <2>5, <2>6, <2>7 DEF Accounted
<1>5. ASSUME NEW w \in Workers, Execute(w) \/ ExecuteFails(w) \/ RecordFails(w)
      PROVE  EmptyWhileWritten' /\ \A m \in minted' : Accounted(m)'
  <2>1. /\ \/ pc[w] = "execute" /\ pc' = [pc EXCEPT ![w] = "audit_applied"]
           \/ pc[w] \in {"execute", "audit_applied"} /\ pc' = [pc EXCEPT ![w] = "audit_error"]
        /\ UNCHANGED <<file, op, log, minted>>
    BY <1>5 DEF Execute, ExecuteFails, RecordFails, Goto
  <2>2. ASSUME NEW m, NEW v \in Workers, HeldBy(v, m)
        PROVE  HeldBy(v, m)'
    BY <2>1, <2>2 DEF HeldBy, Rewriting, TypeOK
  <2>3. \A v \in Workers : Rewriting(v)' = Rewriting(v)
    BY <2>1 DEF Rewriting, TypeOK
  <2>4. Stored' = Stored
    BY <2>1 DEF Stored
  <2>5. EmptyWhileWritten'
    BY <1>i, <2>1 DEF TypeOK
  <2> QED
    BY <1>i, <2>1, <2>2, <2>3, <2>4, <2>5 DEF Accounted
<1>6. ASSUME NEW w \in Workers, RecordApplied(w) \/ RecordError(w)
      PROVE  EmptyWhileWritten' /\ \A m \in minted' : Accounted(m)'
  <2>1. PICK status \in {"applied", "error"} : log' = log \cup {Line(op[w], status)}
    BY <1>6 DEF RecordApplied, RecordError
  <2>2. /\ pc[w] \in {"audit_applied", "audit_error"}
        /\ pc' = [pc EXCEPT ![w] = "idle"]
        /\ \A v \in Workers : v # w => op'[v] = op[v]
        /\ UNCHANGED <<file, minted>>
    BY <1>6 DEF RecordApplied, RecordError, Finish, TypeOK
  <2>3. ASSUME NEW m, HeldBy(w, m)
        PROVE  \E l \in log' : l.token = m.token
    <3>1. m.token = op[w].entry.token
      BY <2>2, <2>3 DEF HeldBy, Rewriting
    <3>2. Line(op[w], status).token = m.token
      BY <3>1 DEF Line
    <3> QED
      BY <2>1, <3>2
  <2>4. ASSUME NEW m, NEW v \in Workers, v # w, HeldBy(v, m)
        PROVE  HeldBy(v, m)'
    BY <2>2, <2>4 DEF HeldBy, Rewriting, TypeOK
  <2>5. \A v \in Workers : Rewriting(v)' = Rewriting(v)
    BY <2>2 DEF Rewriting, TypeOK
  <2>6. Stored' = Stored
    BY <2>2 DEF Stored
  <2>7. EmptyWhileWritten'
    BY <1>i, <2>2 DEF TypeOK
  <2> QED
    BY <1>i, <2>1, <2>2, <2>3, <2>4, <2>5, <2>6, <2>7 DEF Accounted
<1>7. ASSUME NEW w \in Workers, Raise(w) \/ Crash(w)
      PROVE  FALSE
  <2>1. PICK result \in {"raised", "crashed"} :
          [call |-> op[w].call, result |-> result] \in outcome'
    BY <1>7 DEF Raise, Crash, Finish
  <2> QED
    BY <2>1 DEF Undisturbed, Ended
<1>8. CASE UNCHANGED vars
  BY <1>8, <1>i DEF vars, Accounted, HeldBy, Rewriting, Stored
<1> QED
  BY <1>1, <1>2, <1>3, <1>4, <1>5, <1>6, <1>7, <1>8
     DEF SerialNext, StartCall, Continue, Refuse, UnknownAction, ApplyReject

\* When calls do not overlap, and until one of them crashes, raises or previews
\* from a failed read, a token that preview gave out is in the file or its
\* apply is in the log.
THEOREM PreviewedTokensWork == SerialSpec => []PreviewedTokenWorks
<1>1. Init => KeptInv
  BY DEF Init, KeptInv
<1>2. KeptInv => PreviewedTokenWorks
  BY DEF KeptInv, PreviewedTokenWorks, Undisturbed, Accounted, HeldBy, Rewriting, Quiet, Idle
<1> QED
  BY <1>1, <1>2, SerialInvariant, KeptStep, PTL DEF SerialSpec

-----------------------------------------------------------------------------
(***************************************************************************)
(* Calls that do not overlap implement the ledger.  A step draws a token,  *)
(* or has one pay, or only takes tokens out of use: one lemma for each.    *)
(***************************************************************************)
Stand == [t \in Tokens |-> Standing(t)]

Paid == {<<x.token, x.call>> : x \in writes}

\* A step that draws no token and makes no change, and after which no token is
\* in use that was not before, loses tokens at most.
LEMMA LosesAtMost ==
  ASSUME UNCHANGED <<minted, writes>>, Usable' \subseteq Usable
  PROVE  Ledger!Next
<1> DEFINE lost == {t \in Tokens : Standing(t) = "usable" /\ Standing(t)' # "usable"}
<1>1. ASSUME NEW t \in Tokens
      PROVE  Standing(t)' = IF t \in lost THEN "void" ELSE Standing(t)
  <2>1. /\ TokensOf(writes)' = TokensOf(writes)
        /\ TokensOf(minted)' = TokensOf(minted)
    BY DEF TokensOf
  <2> QED
    BY <2>1 DEF Standing
<1>2. Stand' = [t \in Tokens |-> IF t \in lost THEN "void" ELSE Stand[t]]
  BY <1>1 DEF Stand
<1>3. /\ Paid' = Paid
      /\ \A t \in lost : Stand[t] = "usable"
      /\ lost \in SUBSET Tokens
  BY DEF Paid, Stand
<1>4. Ledger!Void(lost)
  <2> HIDE DEF lost
  <2> QED
    BY <1>2, <1>3 DEF Ledger!Void, Stand, Paid
<1> QED
  BY <1>3, <1>4 DEF Ledger!Next

\* preview draws a token nobody has drawn and takes it into its copy.
LEMMA PreviewIssues ==
  ASSUME TypeOK, CustodyInv, NEW w \in Workers, Quiet, PreviewRead(w)
  PROVE  Ledger!Next
<1>1. PICK e \in Entry, pending \in ReadPending :
        /\ e.token \notin {m.token : m \in minted}
        /\ op' = [op EXCEPT ![w] = [call |-> ncalls', entry |-> e,
                                    given |-> e.params,
                                    data |-> pending \cup {e}]]
        /\ minted' = minted \cup {e}
  BY DEF PreviewRead
<1>2. /\ pc' = [pc EXCEPT ![w] = "mint_open"]
      /\ UNCHANGED <<file, writes>>
      /\ \A v \in Workers : v # w => pc'[v] = "idle"
  BY DEF PreviewRead, Quiet, Idle, TypeOK
<1>3. e.token \in Tokens
  BY DEF Entry
<1>4. Usable = TokensOf(Stored)
  BY DEF Usable, InCustody, Quiet
<1>5. Usable' = Usable \cup {e.token}
  <2>1. InCustody(w)' = TokensOf(pending \cup {e})
    BY <1>1, <1>2 DEF InCustody, Idle, TypeOK
  <2>2. \A v \in Workers : v # w => InCustody(v)' = {}
    BY <1>2 DEF InCustody, Idle
  <2>3. Stored' = Stored
    BY <1>2 DEF Stored
  <2>4. /\ TokensOf(pending \cup {e}) = TokensOf(pending) \cup {e.token}
        /\ TokensOf(pending) \subseteq TokensOf(Stored)
    BY DEF TokensOf, ReadPending
  <2> QED
    BY <1>4, <2>1, <2>2, <2>3, <2>4 DEF Usable, TokensOf
<1>6. /\ TokensOf(minted)' = TokensOf(minted) \cup {e.token}
      /\ TokensOf(writes)' = TokensOf(writes)
      /\ e.token \notin TokensOf(minted)
  BY <1>1, <1>2 DEF TokensOf
<1>7. e.token \notin TokensOf(writes)
  BY <1>6 DEF TokensOf, CustodyInv, AuthorisedWrites
<1>8. ASSUME NEW t \in Tokens
      PROVE  Standing(t)' = IF t = e.token THEN "usable" ELSE Standing(t)
  BY <1>5, <1>6, <1>7 DEF Standing
<1>9. Stand' = [Stand EXCEPT ![e.token] = "usable"] /\ Stand[e.token] = "unissued"
  BY <1>3, <1>6, <1>7, <1>8 DEF Stand, Standing
<1>10. Ledger!Issue(e.token)
  BY <1>2, <1>9 DEF Ledger!Issue, Stand
<1> QED
  BY <1>3, <1>10 DEF Ledger!Next

\* A change spends the token its apply has popped.
LEMMA ExecuteSpends ==
  ASSUME TypeOK, CustodyInv, SerialInv, NEW w \in Workers, pc[w] = "execute",
         NEW step \in {"audit_applied", "audit_error"},
         pc' = [pc EXCEPT ![w] = step], UNCHANGED <<op, file, minted>>,
         writes' = writes \cup {AwsWrite(op[w])}
  PROVE  Ledger!Next
<1>1. op[w] \in Op /\ op[w].entry \in minted
  BY DEF TypeOK, Idle, CustodyInv, EntriesMinted
<1>c. PICK t \in Tokens, c \in Calls : t = op[w].entry.token /\ c = op[w].call
  BY <1>1 DEF Op, Entry
<1>2. t \notin TokensOf(writes) /\ t \in TokensOf(minted) /\ t \in Usable
  <2>1. t \in InCustody(w)
    BY <1>c DEF InCustody, Idle
  <2> QED
    BY <1>1, <1>c, <2>1 DEF SerialInv, CopyUnspent, Consuming, TokensOf, Usable
<1>3. Usable = Usable' \cup {t}
  <2>1. InCustody(w) = TokensOf(op[w].data) \cup {t}
    BY <1>c DEF InCustody, Idle
  <2>2. InCustody(w)' = TokensOf(op[w].data)
    BY DEF InCustody, Idle, TypeOK, TokensOf
  <2>3. \A v \in Workers : v # w => InCustody(v)' = InCustody(v)
    BY DEF InCustody, Idle, TypeOK, TokensOf
  <2>4. TokensOf(Stored)' = TokensOf(Stored)
    BY DEF Stored, TokensOf
  <2> QED
    BY <2>1, <2>2, <2>3, <2>4 DEF Usable
<1>4. /\ TokensOf(writes)' = TokensOf(writes) \cup {t}
      /\ TokensOf(minted)' = TokensOf(minted)
      /\ Paid' = Paid \cup {<<t, c>>}
  <2>1. AwsWrite(op[w]).token = t /\ AwsWrite(op[w]).call = c
    BY <1>c DEF AwsWrite
  <2>2. TokensOf(writes)' = TokensOf(writes) \cup {t}
    BY <2>1 DEF TokensOf
  <2>3. Paid' = Paid \cup {<<t, c>>}
    BY <2>1 DEF Paid
  <2>4. TokensOf(minted)' = TokensOf(minted)
    BY DEF TokensOf
  <2> QED
    BY <2>2, <2>3, <2>4
<1>5. ASSUME NEW u \in Tokens
      PROVE  Standing(u)' = IF u = t THEN "spent" ELSE Standing(u)
  BY <1>3, <1>4 DEF Standing
<1>6. Stand' = [Stand EXCEPT ![t] = "spent"] /\ Stand[t] = "usable"
  BY <1>2, <1>5 DEF Stand, Standing
<1>7. Ledger!Spend(t, c)
  BY <1>4, <1>6 DEF Ledger!Spend, Stand, Paid
<1> QED
  BY <1>7 DEF Ledger!Next

\* Every step of calls that do not overlap is a step of the ledger, or none.
LEMMA LedgerStep ==
  TypeOK /\ CustodyInv /\ SerialInv /\ [SerialNext]_vars
    => [Ledger!Next]_<<Stand, Paid>>
<1> SUFFICES ASSUME TypeOK, CustodyInv, SerialInv, [SerialNext]_vars
             PROVE  [Ledger!Next]_<<Stand, Paid>>
  OBVIOUS
<1>t. file \in [kind : {"json", "empty", "torn"}, entries : SUBSET Entry]
  BY DEF TypeOK
<1>1. ASSUME NEW w \in Workers, NEW result \in {"refused", "rejected"},
             EndAtOnce(w, result)
      PROVE  Ledger!Next
  <2>1. UNCHANGED <<file, pc, op, minted, writes>>
    BY <1>1 DEF EndAtOnce
  <2>2. Usable' = Usable
    BY <2>1 DEF Usable, InCustody, Idle, Stored, TokensOf
  <2> QED
    BY <2>1, <2>2, LosesAtMost
<1>2. ASSUME NEW w \in Workers, Quiet, PreviewRead(w)
      PROVE  Ledger!Next
  BY <1>2, PreviewIssues
<1>3. ASSUME NEW w \in Workers, ApplyRead(w)
      PROVE  Ledger!Next
  <2>1. PICK e \in Stored, given \in Params :
          op' = [op EXCEPT ![w] = [call |-> ncalls', entry |-> e,
                                   given |-> given,
                                   data |-> Stored \ {e}]]
    BY <1>3 DEF ApplyRead, ReadPending
  <2>2. /\ pc' = [pc EXCEPT ![w] = "consume_open"]
        /\ UNCHANGED <<file, minted, writes>>
    BY <1>3 DEF ApplyRead
  <2>3. InCustody(w)' \subseteq TokensOf(Stored)
    BY <2>1, <2>2 DEF InCustody, Idle, TokensOf, TypeOK
  <2>4. \A v \in Workers : v # w => InCustody(v)' = InCustody(v)
    BY <2>1, <2>2 DEF InCustody, Idle, TokensOf, TypeOK
  <2>5. TokensOf(Stored)' = TokensOf(Stored)
    BY <2>2 DEF Stored, TokensOf
  <2>6. Usable' \subseteq Usable
    BY <2>3, <2>4, <2>5 DEF Usable
  <2> QED
    BY <2>2, <2>6, LosesAtMost
<1>4. ASSUME NEW w \in Workers, MintOpen(w) \/ ConsumeOpen(w)
      PROVE  Ledger!Next
  <2>1. /\ \/ pc[w] = "mint_open" /\ pc' = [pc EXCEPT ![w] = "mint_write"]
           \/ pc[w] = "consume_open" /\ pc' = [pc EXCEPT ![w] = "consume_write"]
        /\ file' = Empty
        /\ UNCHANGED <<op, minted, writes>>
    BY <1>4 DEF MintOpen, ConsumeOpen, Goto
  <2>2. \A v \in Workers : InCustody(v)' = InCustody(v)
    BY <2>1 DEF InCustody, Idle, TokensOf, TypeOK
  <2>3. TokensOf(Stored)' = {}
    BY <2>1 DEF Stored, TokensOf, Empty
  <2>4. Usable' \subseteq Usable
    BY <2>2, <2>3 DEF Usable
  <2> QED
    BY <2>1, <2>4, LosesAtMost
<1>5. ASSUME NEW w \in Workers, MintWrite(w) \/ ConsumeWrite(w)
      PROVE  Ledger!Next
  <2>1. op[w] \in Op /\ ~Idle(w)
    BY <1>5 DEF MintWrite, ConsumeWrite, TypeOK, Idle
  <2>2. /\ file' \in [kind : {"json", "empty", "torn"}, entries : SUBSET Entry]
        /\ file'.entries \subseteq op[w].data
    BY <1>5, <1>t, <2>1, AfterWriteEntries DEF MintWrite, ConsumeWrite, Op
  <2>3. TokensOf(Stored)' \subseteq TokensOf(op[w].data)
    BY <2>2 DEF Stored, TokensOf
  <2>4. TokensOf(op[w].data) \subseteq InCustody(w)
    BY <2>1 DEF InCustody
  <2>5. /\ \/ pc[w] = "mint_write" /\ pc' = [pc EXCEPT ![w] = "idle"]
           \/ pc[w] = "consume_write" /\ pc' = [pc EXCEPT ![w] = "execute"] /\ op' = op
        /\ \A v \in Workers : v # w => pc'[v] = pc[v] /\ op'[v] = op[v]
        /\ UNCHANGED <<minted, writes>>
    BY <1>5 DEF MintWrite, ConsumeWrite, Goto, Finish, TypeOK
  <2>6. InCustody(w)' \subseteq InCustody(w)
    BY <2>5 DEF InCustody, Idle, TokensOf, TypeOK
  <2>7. \A v \in Workers : v # w => InCustody(v)' = InCustody(v)
    BY <2>5 DEF InCustody, Idle, TokensOf
  <2>8. Usable' \subseteq Usable
    BY <2>3, <2>4, <2>6, <2>7 DEF Usable
  <2> QED
    BY <2>5, <2>8, LosesAtMost
<1>6. ASSUME NEW w \in Workers, Execute(w) \/ ExecuteFails(w)
      PROVE  Ledger!Next
  <2>1. PICK step \in {"audit_applied", "audit_error"} :
          pc' = [pc EXCEPT ![w] = step]
    BY <1>6 DEF Execute, ExecuteFails, Goto
  <2>2. /\ pc[w] = "execute"
        /\ UNCHANGED <<op, file, minted>>
        /\ writes' \in {writes, writes \cup {AwsWrite(op[w])}}
    BY <1>6 DEF Execute, ExecuteFails, Goto
  <2>3. CASE writes' = writes \cup {AwsWrite(op[w])}
    BY <2>1, <2>2, <2>3, ExecuteSpends
  <2>4. CASE writes' = writes
    <3>1. \A v \in Workers : InCustody(v)' \subseteq InCustody(v)
      BY <2>1, <2>2 DEF InCustody, Idle, TokensOf, TypeOK
    <3>2. TokensOf(Stored)' = TokensOf(Stored)
      BY <2>2 DEF Stored, TokensOf
    <3>3. Usable' \subseteq Usable
      BY <3>1, <3>2 DEF Usable
    <3> QED
      BY <2>2, <2>4, <3>3, LosesAtMost
  <2> QED
    BY <2>2, <2>3, <2>4
<1>7. ASSUME NEW w \in Workers,
             RecordApplied(w) \/ RecordFails(w) \/ RecordError(w) \/ Raise(w) \/ Crash(w)
      PROVE  Ledger!Next
  <2>1. /\ \/ pc' = [pc EXCEPT ![w] = "idle"]
           \/ pc[w] = "audit_applied" /\ pc' = [pc EXCEPT ![w] = "audit_error"] /\ op' = op
        /\ \A v \in Workers : v # w => op'[v] = op[v]
        /\ UNCHANGED <<file, minted, writes>>
    BY <1>7 DEF RecordApplied, RecordFails, RecordError, Raise, Crash, Finish, Goto, TypeOK
  <2>2. \A v \in Workers : InCustody(v)' \subseteq InCustody(v)
    BY <2>1 DEF InCustody, Idle, TokensOf, TypeOK
  <2>3. TokensOf(Stored)' = TokensOf(Stored)
    BY <2>1 DEF Stored, TokensOf
  <2>4. Usable' \subseteq Usable
    BY <2>2, <2>3 DEF Usable
  <2> QED
    BY <2>1, <2>4, LosesAtMost
<1>8. CASE UNCHANGED vars
  <2>1. TokensOf(writes)' = TokensOf(writes) /\ TokensOf(minted)' = TokensOf(minted)
    BY <1>8 DEF vars, TokensOf
  <2>2. Usable' = Usable
    BY <1>8 DEF vars, Usable, InCustody, Idle, Stored, TokensOf
  <2>3. Stand' = Stand /\ Paid' = Paid
    BY <1>8, <2>1, <2>2 DEF vars, Stand, Standing, Paid
  <2> QED
    BY <2>3
<1> QED
  BY <1>1, <1>2, <1>3, <1>4, <1>5, <1>6, <1>7, <1>8
     DEF SerialNext, StartCall, Continue, Refuse, UnknownAction, ApplyReject

\* Previews and applies that do not overlap are a ledger of tokens, whatever
\* crashes between their steps: a token is issued once, pays once at most and
\* never comes back once it has paid or is lost.
THEOREM CallsImplementTheLedger == SerialSpec => ImplementsLedger
<1>1. Init => Ledger!Init
  BY DEF Init, Ledger!Init, Standing, TokensOf
<1>2. TypeOK /\ CustodyInv /\ SerialInv /\ [SerialNext]_vars
        => [Ledger!Next]_<<[t \in Tokens |-> Standing(t)],
                           {<<x.token, x.call>> : x \in writes}>>
  BY LedgerStep DEF Stand, Paid
<1> QED
  BY <1>1, <1>2, SerialInvariant, PTL DEF SerialSpec, ImplementsLedger, Ledger!Spec

=============================================================================
