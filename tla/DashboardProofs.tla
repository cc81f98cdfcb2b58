-------------------------- MODULE DashboardProofs --------------------------
(***************************************************************************)
(* Proofs about the guarded actions, the estate chat and the reports of    *)
(* Dashboard, for any sessions, tokens and actions, however many questions *)
(* are asked, and for any resource the reports are about.                  *)
(***************************************************************************)
EXTENDS Dashboard, FiniteSetTheorems, TLAPS

\* What a session has pending is a preview of its own, and so is what a call of
\* apply is inside for, always under guarded_write.
PendingIsOwn ==
  /\ mode \in [Sessions -> Modes \cup {Unset}]
  /\ pending \in [Sessions -> Preview \cup {NoPreview}]
  /\ \A s \in Sessions : pending[s] # NoPreview => pending[s] \in issued /\ pending[s].session = s

InsideIsOwn ==
  /\ inside \subseteq Inside
  /\ \A c \in inside :
       /\ c.mode = "guarded_write"
       /\ [token |-> c.token, action |-> c.action, session |-> c.session] \in issued

LedgerTypes ==
  /\ standing \in [Tokens -> {"unissued", "usable", "spent", "void"}]
  /\ \A x \in performed : x[1] \in Tokens
  /\ overlap \in BOOLEAN

\* While no calls have overlapped: one call at a time has a token looked up, and
\* what it found is still there; a token that pays, or has paid, is marked as spent,
\* which is why it cannot be found again.
SerialLedger ==
  /\ \A c, d \in Looking : c = d
  /\ \A c \in Looking : ~c.crossed /\ (c.found => standing[c.token] = "usable")
  /\ \A c \in inside : c.step = "acts" =>
       standing[c.token] = "spent" /\ \A x \in performed : x[1] # c.token
  /\ \A c, d \in inside : c.step = "acts" /\ d.step = "acts" /\ c.token = d.token => c = d
  /\ \A x \in performed : standing[x[1]] = "spent"

PaymentInv ==
  /\ PendingIsOwn /\ InsideIsOwn /\ LedgerTypes
  /\ ~overlap => SerialLedger
  /\ AppliesOwnPreviewOnce

\* The initial states satisfy it: nothing is pending and nothing is paid.
LEMMA PaymentInit == Init => PaymentInv
BY DEF Init, Ledger!Init, PaymentInv, PendingIsOwn, InsideIsOwn, LedgerTypes, SerialLedger,
       Looking, AppliesOwnPreviewOnce

\* Steps that touch neither the previews nor the ledger nor the modes keep it.
LEMMA PaymentElsewhere ==
  PaymentInv /\ UNCHANGED <<mode, payments>> => PaymentInv'
BY DEF PaymentInv, PendingIsOwn, InsideIsOwn, LedgerTypes, SerialLedger, Looking,
       AppliesOwnPreviewOnce, payments

\* The modes may change under what is pending, inside and paid.
LEMMA PaymentOfModes ==
  ASSUME DashboardAssumption, PaymentInv, NEW s \in Sessions, OpenSession(s) \/ SelectMode(s)
  PROVE  PaymentInv'
<1>1. mode' \in [Sessions -> Modes \cup {Unset}]
  BY DEF OpenSession, SelectMode, PaymentInv, PendingIsOwn, NormalizeMode, Modes
<1>2. UNCHANGED payments
  BY DEF OpenSession, SelectMode
<1>3. QED
  BY <1>1, <1>2 DEF PaymentInv, PendingIsOwn, InsideIsOwn, LedgerTypes, SerialLedger, Looking,
                    AppliesOwnPreviewOnce, payments

\* Being crossed changes nothing of what a call is inside for, and crosses nobody
\* while no token is looked up.
LEMMA CrossedIs ==
  ASSUME InsideIsOwn, NEW t
  PROVE  /\ Crossed(t) \subseteq Inside
         /\ \A d \in Crossed(t) : \E c \in inside :
              c.token = d.token /\ c.action = d.action /\ c.session = d.session /\ c.mode = d.mode
         /\ Looking = {} => Crossed(t) = inside
<1>1. Others(t) \subseteq inside
  BY DEF Others, Looking
<1>2. ASSUME NEW c \in Others(t)
      PROVE  LET d == [c EXCEPT !.crossed = TRUE] IN
             /\ d \in Inside /\ c.token = d.token /\ c.action = d.action
             /\ c.session = d.session /\ c.mode = d.mode
  BY <1>1, <1>2 DEF InsideIsOwn, Inside
<1>3. Looking = {} => Others(t) = {}
  BY DEF Others
<1>4. QED
  BY <1>1, <1>2, <1>3 DEF Crossed, InsideIsOwn

\* The calls inside are still of previews of their own when others cross them.
LEMMA CrossingKeeps ==
  ASSUME InsideIsOwn, NEW t, inside' = Crossed(t), issued \subseteq issued'
  PROVE  InsideIsOwn'
BY CrossedIs DEF InsideIsOwn

\* A preview issues a token that has never paid.
LEMMA PaymentOfPreview ==
  ASSUME PaymentInv, NEW s \in Sessions, PreviewAction(s)
  PROVE  PaymentInv'
<1>1. PICK p \in Preview : /\ p.session = s
                           /\ Ledger!Issue(p.token)
                           /\ pending' \in {[pending EXCEPT ![s] = p], pending}
                           /\ issued' = issued \cup {p}
  BY DEF PreviewAction
<1>2. /\ UNCHANGED <<mode, performed>>
      /\ inside' = Crossed(Unset) /\ overlap' = (overlap \/ Looking # {})
  BY <1>1 DEF PreviewAction, Ledger!Issue, Meets
<1>3. PendingIsOwn'
  BY <1>1, <1>2 DEF PaymentInv, PendingIsOwn
<1>4. InsideIsOwn'
  BY <1>1, <1>2, CrossingKeeps DEF PaymentInv
<1>5. /\ LedgerTypes' /\ standing[p.token] = "unissued"
      /\ \A t \in Tokens : standing[t] # "unissued" => standing'[t] = standing[t]
  <2>1. p.token \in Tokens BY DEF Preview
  <2>2. QED BY <1>1, <1>2, <2>1 DEF PaymentInv, LedgerTypes, Ledger!Issue
<1>6. ASSUME ~overlap' PROVE SerialLedger'
  <2>1. ~overlap /\ Looking = {} /\ inside' = inside /\ SerialLedger
    BY <1>2, <1>6, CrossedIs DEF PaymentInv, LedgerTypes
  <2>2. Looking' = {}
    BY <2>1 DEF Looking
  <2>3. \A c \in inside : c.token \in Tokens
    BY DEF PaymentInv, InsideIsOwn, Inside
  <2>4. QED
    BY <1>2, <1>5, <2>1, <2>2, <2>3 DEF SerialLedger, PaymentInv, LedgerTypes
<1>7. AppliesOwnPreviewOnce'
  BY <1>1, <1>2 DEF PaymentInv, LedgerTypes, AppliesOwnPreviewOnce
<1>8. QED
  BY <1>3, <1>4, <1>5, <1>6, <1>7 DEF PaymentInv

\* Losing tokens loses only tokens that are usable.
LEMMA PaymentOfLoss ==
  ASSUME LedgerTypes, NEW lost \in SUBSET Tokens, Ledger!Void(lost)
  PROVE  /\ performed' = performed
         /\ standing' \in [Tokens -> {"unissued", "usable", "spent", "void"}]
         /\ \A t \in Tokens : standing[t] = "spent" => standing'[t] = "spent"
         /\ \A t \in Tokens \ lost : standing'[t] = standing[t]
BY DEF LedgerTypes, Ledger!Void

\* The same of tokens that calls made elsewhere lose.
LEMMA PaymentOfLoseTokens ==
  ASSUME PaymentInv, LoseTokens
  PROVE  PaymentInv'
<1>1. PICK lost \in SUBSET Tokens : Ledger!Void(lost)
  BY DEF LoseTokens
<1>2. /\ UNCHANGED <<mode, pending, issued>>
      /\ inside' = Crossed(Unset) /\ overlap' = (overlap \/ Looking # {})
  BY DEF LoseTokens, Meets
<1>3. /\ performed' = performed
      /\ standing' \in [Tokens -> {"unissued", "usable", "spent", "void"}]
      /\ \A t \in Tokens : standing[t] = "spent" => standing'[t] = "spent"
  BY <1>1, PaymentOfLoss DEF PaymentInv
<1>4. PendingIsOwn' /\ InsideIsOwn' /\ LedgerTypes'
  BY <1>2, <1>3, CrossingKeeps DEF PaymentInv, PendingIsOwn, LedgerTypes
<1>5. ASSUME ~overlap' PROVE SerialLedger'
  <2>1. ~overlap /\ Looking = {} /\ inside' = inside /\ SerialLedger
    BY <1>2, <1>5, CrossedIs DEF PaymentInv, LedgerTypes
  <2>2. Looking' = {}
    BY <2>1 DEF Looking
  <2>3. \A c \in inside : c.token \in Tokens
    BY DEF PaymentInv, InsideIsOwn, Inside
  <2>4. QED
    BY <1>3, <2>1, <2>2, <2>3 DEF SerialLedger, PaymentInv, LedgerTypes
<1>6. AppliesOwnPreviewOnce'
  BY <1>2, <1>3 DEF PaymentInv, LedgerTypes, AppliesOwnPreviewOnce
<1>7. QED
  BY <1>4, <1>5, <1>6 DEF PaymentInv

\* The Apply button: what is looked up is there only if it has not paid.
LEMMA PaymentOfClick ==
  ASSUME PaymentInv, NEW s \in Sessions, ClickApply(s)
  PROVE  PaymentInv'
<1> DEFINE p == pending[s]
           n == [session |-> s, token |-> p.token, action |-> p.action, mode |-> mode[s],
                 found |-> standing[p.token] = "usable", step |-> "looked",
                 awaited |-> TRUE, crossed |-> Others(p.token) # {}]
<1>1. /\ p # NoPreview /\ mode[s] = "guarded_write"
      /\ inside' = Crossed(p.token) \cup {n}
      /\ overlap' = (overlap \/ Looking # {})
      /\ UNCHANGED <<mode, pending, standing, performed, issued>>
  BY DEF ClickApply, Clicked, CanApplyActions, Meets
<1>2. /\ p \in Preview /\ p \in issued /\ p.session = s
  BY <1>1 DEF PaymentInv, PendingIsOwn
<1>3. p.token \in Tokens /\ p.action \in Actions /\ p = [token |-> p.token, action |-> p.action, session |-> s]
  BY <1>2 DEF Preview
<1>4. /\ n \in Inside /\ n.mode = "guarded_write" /\ n.step = "looked" /\ n.token = p.token
      /\ n.action = p.action /\ n.session = s
      /\ n.found => standing[n.token] = "usable"
      /\ n.crossed <=> Others(p.token) # {}
  BY <1>1, <1>3 DEF Inside, Modes
<1> HIDE DEF n
<1>5. PendingIsOwn' /\ LedgerTypes'
  BY <1>1 DEF PaymentInv, PendingIsOwn, LedgerTypes
<1>6. InsideIsOwn'
  <2>1. /\ Crossed(p.token) \subseteq Inside
        /\ \A d \in Crossed(p.token) :
             d.mode = "guarded_write" /\ [token |-> d.token, action |-> d.action, session |-> d.session] \in issued
    BY CrossedIs DEF PaymentInv, InsideIsOwn
  <2>2. [token |-> n.token, action |-> n.action, session |-> n.session] \in issued
    BY <1>2, <1>3, <1>4
  <2>3. QED BY <1>1, <1>4, <2>1, <2>2 DEF InsideIsOwn
<1>7. ASSUME ~overlap' PROVE SerialLedger'
  <2>1. /\ ~overlap /\ Looking = {} /\ SerialLedger
        /\ Crossed(p.token) = inside
    BY <1>1, <1>7, CrossedIs DEF PaymentInv, LedgerTypes
  <2>2. inside' = inside \cup {n} /\ Looking' = {n} /\ ~n.crossed
    BY <1>1, <1>4, <2>1 DEF Looking, Others
  <2>3. \A c, d \in inside' :
           c.step = "acts" /\ d.step = "acts" /\ c.token = d.token => c = d
    BY <1>4, <2>1, <2>2 DEF SerialLedger
  <2>4. \A c \in inside' : c.step = "acts" =>
           standing[c.token] = "spent" /\ \A x \in performed : x[1] # c.token
    BY <1>4, <2>1, <2>2 DEF SerialLedger
  <2>5. QED
    BY <1>1, <1>4, <2>1, <2>2, <2>3, <2>4 DEF SerialLedger
<1>8. AppliesOwnPreviewOnce'
  BY <1>1 DEF PaymentInv, LedgerTypes, AppliesOwnPreviewOnce
<1>9. QED
  BY <1>5, <1>6, <1>7, <1>8 DEF PaymentInv

\* What becomes of a call that is inside when it leaves or steps on.
LEMMA InsideOf ==
  ASSUME PaymentInv, NEW c \in inside, NEW b \in BOOLEAN
  PROVE  /\ c \in Inside /\ c.session \in Sessions /\ c.token \in Tokens /\ c.action \in Actions
         /\ c.step \in {"looked", "acts"} /\ c.mode = "guarded_write"
         /\ [c EXCEPT !.step = "acts"] \in Inside /\ [c EXCEPT !.awaited = b] \in Inside
BY DEF PaymentInv, InsideIsOwn, Inside

\* A script that no longer waits for its call.
LEMMA PaymentOfLeave ==
  ASSUME PaymentInv, NEW c \in inside, LeaveApply(c)
  PROVE  PaymentInv'
<1> DEFINE n == [c EXCEPT !.awaited = FALSE]
<1>1. /\ inside' = (inside \ {c}) \cup {n}
      /\ UNCHANGED <<mode, pending, standing, performed, issued, overlap>>
  BY DEF LeaveApply
<1>2. c \in Inside /\ n \in Inside
  BY InsideOf
<1>3. /\ n.step = c.step /\ n.token = c.token /\ n.action = c.action /\ n.session = c.session
      /\ n.mode = c.mode /\ n.crossed = c.crossed /\ n.found = c.found
  BY <1>2 DEF Inside
<1> HIDE DEF n
<1>4. PendingIsOwn' /\ LedgerTypes' /\ AppliesOwnPreviewOnce'
  BY <1>1 DEF PaymentInv, PendingIsOwn, LedgerTypes, AppliesOwnPreviewOnce
<1>5. InsideIsOwn'
  BY <1>1, <1>2, <1>3 DEF PaymentInv, InsideIsOwn
<1>6. SerialLedger => SerialLedger'
  <2> SUFFICES ASSUME SerialLedger PROVE SerialLedger'
    OBVIOUS
  <2>1. Looking' = IF c \in Looking THEN (Looking \ {c}) \cup {n} ELSE Looking
    BY <1>1, <1>3 DEF Looking
  <2>2. (\A d, e \in Looking : d = e)' /\ \A d \in Looking' : ~d.crossed /\ (d.found => standing[d.token] = "usable")
    BY <1>3, <2>1 DEF SerialLedger
  <2>3. \A d \in inside' : d.step = "acts" =>
           standing[d.token] = "spent" /\ \A x \in performed : x[1] # d.token
    BY <1>1, <1>3 DEF SerialLedger
  <2>4. \A d, e \in inside' : d.step = "acts" /\ e.step = "acts" /\ d.token = e.token => d = e
    BY <1>1, <1>3 DEF SerialLedger
  <2>5. QED BY <1>1, <2>2, <2>3, <2>4 DEF SerialLedger
<1>7. QED
  BY <1>1, <1>4, <1>5, <1>6 DEF PaymentInv

\* The token that was found is taken: it is marked as spent, unless other calls
\* have crossed this one.
LEMMA PaymentOfTake ==
  ASSUME PaymentInv, NEW c \in inside, TakeToken(c)
  PROVE  PaymentInv'
<1> DEFINE n == [c EXCEPT !.step = "acts"]
<1>1. /\ inside' = (inside \ {c}) \cup {n} /\ c \in Looking /\ c.found
      /\ UNCHANGED <<mode, pending, performed, issued, overlap>>
      /\ \/ standing' = [standing EXCEPT ![c.token] = "spent"]
         \/ c.crossed /\ standing' = [standing EXCEPT ![c.token] = "usable"]
  BY DEF TakeToken
<1>2. c \in Inside /\ n \in Inside /\ c.token \in Tokens
  BY InsideOf
<1>3. /\ n.step = "acts" /\ n.token = c.token /\ n.action = c.action /\ n.session = c.session
      /\ n.mode = c.mode
  BY <1>2 DEF Inside
<1> HIDE DEF n
<1>4. PendingIsOwn' /\ LedgerTypes' /\ AppliesOwnPreviewOnce'
  BY <1>1, <1>2 DEF PaymentInv, PendingIsOwn, LedgerTypes, AppliesOwnPreviewOnce
<1>5. InsideIsOwn'
  BY <1>1, <1>2, <1>3 DEF PaymentInv, InsideIsOwn
<1>6. SerialLedger => SerialLedger'
  <2> SUFFICES ASSUME SerialLedger PROVE SerialLedger'
    OBVIOUS
  <2>1. Looking' = {}
    BY <1>1, <1>3 DEF Looking, SerialLedger
  <2>2. /\ standing[c.token] = "usable" /\ standing' = [standing EXCEPT ![c.token] = "spent"]
    BY <1>1 DEF SerialLedger
  <2>3. /\ standing'[c.token] = "spent"
        /\ \A t \in Tokens : standing[t] = "spent" => standing'[t] = "spent"
    BY <1>2, <2>2 DEF PaymentInv, LedgerTypes
  <2>4. \A x \in performed : x[1] \in Tokens /\ x[1] # c.token /\ standing'[x[1]] = "spent"
    BY <2>2, <2>3 DEF SerialLedger, PaymentInv, LedgerTypes
  <2>5. \A d \in inside \ {c} : d.step = "acts" => d.token # c.token /\ standing'[d.token] = "spent"
    <3>1. \A d \in inside : d.token \in Tokens
      BY DEF PaymentInv, InsideIsOwn, Inside
    <3>2. QED BY <2>2, <2>3, <3>1 DEF SerialLedger
  <2>6. \A d \in inside' : d.step = "acts" =>
           standing'[d.token] = "spent" /\ \A x \in performed : x[1] # d.token
    BY <1>1, <1>3, <2>3, <2>4, <2>5 DEF SerialLedger
  <2>7. \A d, e \in inside' : d.step = "acts" /\ e.step = "acts" /\ d.token = e.token => d = e
    BY <1>1, <1>3, <2>5 DEF SerialLedger
  <2>8. QED BY <1>1, <2>1, <2>4, <2>6, <2>7 DEF SerialLedger
<1>7. QED
  BY <1>1, <1>4, <1>5, <1>6 DEF PaymentInv

\* What is popped is what the session had pending, or nothing.
LEMMA PendingOfPopped ==
  ASSUME PaymentInv, NEW c \in inside, Popped(c), UNCHANGED <<mode, issued>>
  PROVE  PendingIsOwn'
BY InsideOf DEF PaymentInv, PendingIsOwn, Popped

\* A call that is gone leaves the others as they are.
LEMMA OneLess ==
  ASSUME PaymentInv, NEW c \in inside, inside' = inside \ {c}, UNCHANGED issued
  PROVE  /\ InsideIsOwn' /\ Looking' \subseteq Looking /\ inside' \subseteq inside
         /\ \A d \in inside' : d # c
BY DEF PaymentInv, InsideIsOwn, Looking

\* apply with nothing done.
LEMMA PaymentOfFail ==
  ASSUME PaymentInv, NEW c \in inside, FailApply(c)
  PROVE  PaymentInv'
<1>1. /\ inside' = inside \ {c} /\ Popped(c)
      /\ UNCHANGED <<mode, issued, overlap>>
      /\ UNCHANGED <<standing, performed>> \/ (c \in Looking /\ Ledger!Void({c.token}))
  BY DEF FailApply
<1>2. PendingIsOwn' /\ InsideIsOwn' /\ Looking' \subseteq Looking /\ inside' \subseteq inside
      /\ \A d \in inside' : d # c
  BY <1>1, PendingOfPopped, OneLess
<1>3. c.token \in Tokens /\ \A d \in inside : d.token \in Tokens
  BY InsideOf
<1>4. /\ performed' = performed
      /\ standing' \in [Tokens -> {"unissued", "usable", "spent", "void"}]
      /\ \A t \in Tokens : standing[t] = "spent" => standing'[t] = "spent"
      /\ c \in Looking \/ standing' = standing
  BY <1>1, <1>3, PaymentOfLoss DEF PaymentInv, LedgerTypes
<1>5. LedgerTypes' /\ AppliesOwnPreviewOnce'
  BY <1>1, <1>4 DEF PaymentInv, LedgerTypes, AppliesOwnPreviewOnce
<1>6. SerialLedger => SerialLedger'
  <2> SUFFICES ASSUME SerialLedger PROVE SerialLedger'
    OBVIOUS
  <2>1. c \in Looking => Looking' = {}
    <3>1. \A d \in Looking' : d \in Looking /\ d # c
      BY <1>2 DEF Looking
    <3>2. QED BY <3>1 DEF SerialLedger
  <2>2. \A d \in Looking' : ~d.crossed /\ (d.found => standing'[d.token] = "usable")
    BY <1>2, <1>4, <2>1 DEF SerialLedger
  <2>3. \A d \in inside' : d.step = "acts" =>
           standing'[d.token] = "spent" /\ \A x \in performed : x[1] # d.token
    BY <1>2, <1>3, <1>4 DEF SerialLedger
  <2>4. QED BY <1>2, <1>4, <2>2, <2>3 DEF SerialLedger, PaymentInv, LedgerTypes
<1>7. QED
  BY <1>1, <1>2, <1>5, <1>6 DEF PaymentInv

\* apply with the change made, which no other call of the same token has made.
LEMMA PaymentOfEnd ==
  ASSUME PaymentInv, NEW c \in inside, EndApply(c)
  PROVE  PaymentInv'
<1> DEFINE paid == <<c.token, CallOf(c)>>
           Backed(x) == /\ x[2].mode = "guarded_write"
                        /\ [token |-> x[1], action |-> x[2].action,
                            session |-> x[2].session] \in issued
<1>1. /\ inside' = inside \ {c} /\ Popped(c) /\ c.step = "acts"
      /\ UNCHANGED <<mode, issued, overlap, standing>>
      /\ performed' = performed \cup {paid}
  BY DEF EndApply
<1>2. PendingIsOwn' /\ InsideIsOwn' /\ Looking' \subseteq Looking /\ inside' \subseteq inside
      /\ \A d \in inside' : d # c
  BY <1>1, PendingOfPopped, OneLess
<1>3. c.token \in Tokens /\ paid[1] = c.token
  BY InsideOf
<1>4. Backed(paid)
  BY DEF CallOf, PaymentInv, InsideIsOwn
<1>5. LedgerTypes'
  BY <1>1, <1>3 DEF PaymentInv, LedgerTypes
<1>6. ~overlap => \A x \in performed : x[1] # c.token
  BY <1>1 DEF PaymentInv, SerialLedger
<1>7. AppliesOwnPreviewOnce'
  <2>1. \A x \in performed : Backed(x) /\ (~overlap => \A y \in performed : y[1] = x[1] => y = x)
    BY DEF PaymentInv, AppliesOwnPreviewOnce
  <2>2. \A x \in performed' : Backed(x) /\ (~overlap => \A y \in performed' : y[1] = x[1] => y = x)
    <3> HIDE DEF paid, Backed
    <3> QED BY <1>1, <1>3, <1>4, <1>6, <2>1
  <2>3. QED BY <1>1, <2>2 DEF AppliesOwnPreviewOnce
<1> HIDE DEF paid, Backed
<1>8. SerialLedger => SerialLedger'
  <2> SUFFICES ASSUME SerialLedger PROVE SerialLedger'
    OBVIOUS
  <2>1. \A d \in inside' : d.step = "acts" => d.token # c.token
    BY <1>1, <1>2 DEF SerialLedger
  <2>2. \A d \in inside' : d.step = "acts" =>
           standing'[d.token] = "spent" /\ \A x \in performed' : x[1] # d.token
    BY <1>1, <1>2, <1>3, <2>1 DEF SerialLedger
  <2>3. \A x \in performed' : standing'[x[1]] = "spent"
    BY <1>1, <1>3 DEF SerialLedger
  <2>4. QED BY <1>1, <1>2, <2>2, <2>3 DEF SerialLedger
<1>9. QED
  BY <1>1, <1>2, <1>5, <1>7, <1>8 DEF PaymentInv

\* Every step keeps it, one case per action.
LEMMA PaymentStep ==
  ASSUME DashboardAssumption, PaymentInv, [Next]_vars
  PROVE  PaymentInv'
<1>1. ASSUME NEW s \in Sessions, Click(s) PROVE PaymentInv'
  <2>1. CASE OpenSession(s) \/ SelectMode(s) BY <2>1, PaymentOfModes
  <2>2. CASE PreviewAction(s) BY <2>2, PaymentOfPreview
  <2>3. CASE ClickApply(s) BY <2>3, PaymentOfClick
  <2>4. CASE \E t \in Turns : Ask(s, t)
    BY <2>4, PaymentElsewhere DEF Ask, AskNext
  <2>5. QED
    BY <1>1, <2>1, <2>2, <2>3, <2>4 DEF Click
<1>2. ASSUME NEW c \in inside, Applying(c) PROVE PaymentInv'
  BY <1>2, PaymentOfLeave, PaymentOfTake, PaymentOfFail, PaymentOfEnd DEF Applying
<1>3. ASSUME NEW t \in Turns, Agent(t) PROVE PaymentInv'
  BY <1>3, PaymentElsewhere DEF Agent, Draw, Answer, Abandon, Stop
<1>4. CASE LoseTokens
  BY <1>4, PaymentOfLoseTokens
<1>5. CASE UNCHANGED <<mode, payments, chats>>
  BY <1>5, PaymentElsewhere
<1>6. CASE UNCHANGED vars
  BY <1>6, PaymentElsewhere DEF vars
<1>7. QED
  BY <1>1, <1>2, <1>3, <1>4, <1>5, <1>6 DEF Next

\* app.py's Apply button, whatever is clicked while it works: a preview pays for its
\* own action alone, asked by its own session in guarded_write, and once unless
\* another call uses the ledger between look-up and rewriting.
THEOREM DashboardPaysOnce == Spec => []AppliesOwnPreviewOnce
<1>1. Spec => []PaymentInv
  BY DashboardAssumption, PaymentInit, PaymentStep, PTL DEF Spec
<1>2. PaymentInv => AppliesOwnPreviewOnce
  BY DEF PaymentInv
<1>3. QED
  BY <1>1, <1>2, PTL

-----------------------------------------------------------------------------
(* The estate chat                                                         *)

Message  == [role : {"user", "assistant"}, turn : Turns, diagram : 0 .. MaxTurns]
Question == [status : {"thinking", "answered", "abandoned", "stopped"}, session : Sessions,
             mode : Modes, alone : BOOLEAN]

ChatTypes ==
  /\ mode \in [Sessions -> Modes \cup {Unset}]
  /\ last \in 0 .. MaxTurns
  /\ turn \in [Turns -> {NotAsked} \cup Question]
  /\ chat \in [Sessions -> Seq(Message)]

\* A message is of a question its session asked, which it shows once; while the agent
\* thinks nothing stands behind the question.
ToldOnce ==
  /\ \A s \in Sessions : \A i \in 1 .. Len(chat[s]) :
       /\ Asked(chat[s][i].turn) /\ turn[chat[s][i].turn].session = s
       /\ \A j \in 1 .. Len(chat[s]) :
            (chat[s][i].role = "user" /\ chat[s][j].role = "user"
               /\ chat[s][i].turn = chat[s][j].turn) => i = j
  /\ \A t \in Turns : turn[t].status = "thinking" =>
       LET c == chat[turn[t].session] IN
       Len(c) > 0 /\ c[Len(c)].role = "user" /\ c[Len(c)].turn = t

\* The question after which an answer comes, and the answer after which there is one.
InPlace(c, i) ==
  /\ c[i].role = "assistant" => i > 1 /\ c[i - 1].role = "user" /\ c[i - 1].turn = c[i].turn
  /\ c[i].role = "user" =>
       \/ turn[c[i].turn].status # "answered"
       \/ i < Len(c) /\ c[i + 1].role = "assistant"

ChatInv ==
  /\ ChatTypes /\ ToldOnce
  /\ \A s \in Sessions : \A i \in 1 .. Len(chat[s]) : InPlace(chat[s], i)

\* A turn that is alone is the only one that runs, and environment and slot are its own.
AloneInv ==
  /\ \A t \in Turns : Running(t) /\ turn[t].alone =>
       /\ \A u \in Turns : Running(u) => u = t
       /\ last \in {0, t} /\ ToolMode = turn[t].mode
  /\ \A s \in Sessions : \A i \in 1 .. Len(chat[s]) :
       turn[chat[s][i].turn].alone => chat[s][i].diagram \in {0, chat[s][i].turn}

\* The initial states satisfy both: nothing has been asked.
LEMMA ChatInit == DashboardAssumption /\ Init => ChatInv /\ AloneInv
<1> SUFFICES ASSUME DashboardAssumption, Init PROVE ChatInv /\ AloneInv
  OBVIOUS
<1>1. /\ \A s \in Sessions : chat[s] = <<>> /\ Len(chat[s]) = 0
      /\ \A t \in Turns : turn[t].status = "unasked"
  BY DEF Init, NotAsked
<1>2. ChatTypes
  BY DEF Init, ChatTypes, DashboardAssumption
<1>3. ToldOnce
  BY <1>1 DEF ToldOnce
<1>4. QED BY <1>1, <1>2, <1>3 DEF ChatInv, AloneInv, Running

\* Steps that leave the chats and the turns as they are.
LEMMA ChatElsewhere ==
  ASSUME ChatInv, AloneInv, mode' \in [Sessions -> Modes \cup {Unset}],
         UNCHANGED chats
  PROVE  ChatInv' /\ AloneInv'
BY DEF chats, ChatInv, ChatTypes, ToldOnce, AloneInv, InPlace, Asked, Running, ToolMode, LoadedMode

\* One message more.
LEMMA OneMore ==
  ASSUME NEW c \in Seq(Message), NEW m \in Message
  PROVE  LET d == Append(c, m) IN
         /\ d \in Seq(Message) /\ Len(c) \in Nat /\ Len(d) = Len(c) + 1 /\ d[Len(d)] = m
         /\ \A i \in 1 .. Len(c) : d[i] = c[i] /\ c[i] \in Message
OBVIOUS

\* The question is the last message of its session's chat, and the only one of its turn.
LEMMA ChatOfAsk ==
  ASSUME DashboardAssumption, ChatInv, AloneInv, NEW s \in Sessions, NEW t \in Turns, Ask(s, t)
  PROVE  ChatInv' /\ AloneInv'
<1> DEFINE m == [role |-> "user", turn |-> t, diagram |-> 0]
           d == Append(chat[s], m)
           q == [status |-> "thinking", session |-> s, mode |-> mode[s],
                 alone |-> \A v \in Turns : ~Running(v)]
<1>1. /\ ~Asked(t) /\ ~Waiting(s) /\ mode[s] \in Modes
      /\ turn' = WithTurn(s, t) /\ chat' = [chat EXCEPT ![s] = d]
      /\ env' = mode[s] /\ last' = 0 /\ mode' = mode
  BY DEF Ask, AskNext, Say, Open, ChatInv, ChatTypes
<1>2. m \in Message /\ chat[s] \in Seq(Message)
  <2>1. 0 \in 0 .. MaxTurns
    BY DEF DashboardAssumption
  <2>2. QED BY <2>1 DEF Message, ChatInv, ChatTypes
<1>3. /\ d \in Seq(Message) /\ Len(chat[s]) \in Nat /\ Len(d) = Len(chat[s]) + 1 /\ d[Len(d)] = m
      /\ \A i \in 1 .. Len(chat[s]) : d[i] = chat[s][i] /\ chat[s][i] \in Message
  BY <1>2, OneMore
<1>4. /\ q \in Question /\ q.status = "thinking" /\ q.session = s /\ q.mode = mode[s]
      /\ q.alone => \A v \in Turns : ~Running(v)
  BY <1>1 DEF Question
<1>5. /\ turn' \in [Turns -> {NotAsked} \cup Question] /\ turn'[t] = q
      /\ \A u \in Turns \ {t} :
           /\ turn'[u].status = turn[u].status /\ turn'[u].session = turn[u].session
           /\ ~Running(u) => turn'[u] = turn[u]
           /\ Running(u) => ~turn'[u].alone
  <2>1. \A u \in Turns : Running(u) => turn[u] \in Question
    BY DEF Running, NotAsked, ChatInv, ChatTypes
  <2>2. \A u \in Turns : turn'[u] = IF u = t THEN q
                                    ELSE IF Running(u) THEN [turn[u] EXCEPT !.alone = FALSE]
                                    ELSE turn[u]
    BY <1>1 DEF WithTurn
  <2>3. \A u \in Turns : Running(u) =>
          LET n == [turn[u] EXCEPT !.alone = FALSE] IN
          n \in Question /\ n.status = turn[u].status /\ n.session = turn[u].session /\ ~n.alone
    BY <2>1 DEF Question
  <2>4. turn' = [u \in Turns |-> turn'[u]]
    BY <1>1 DEF WithTurn
  <2> HIDE DEF q
  <2>5. QED BY <1>4, <2>2, <2>3, <2>4 DEF ChatInv, ChatTypes
<1> HIDE DEF m, d, q
<1>6. m.role = "user" /\ m.turn = t /\ m.diagram = 0
  BY DEF m
<1>7. ASSUME NEW u \in Sessions
      PROVE  chat'[u] = IF u = s THEN d ELSE chat[u]
  BY <1>1 DEF ChatInv, ChatTypes
<1>8. ASSUME NEW u \in Sessions, NEW i \in 1 .. Len(chat[u])
      PROVE  /\ chat[u][i] \in Message /\ chat[u][i].turn \in Turns \ {t}
             /\ chat'[u][i] = chat[u][i]
  <2>1. chat[u][i] \in Message
    BY DEF ChatInv, ChatTypes
  <2>2. chat[u][i].turn \in Turns /\ Asked(chat[u][i].turn)
    BY <2>1 DEF Message, ChatInv, ToldOnce
  <2>3. QED BY <1>1, <1>3, <1>7, <2>1, <2>2
<1>9. ChatTypes'
  BY <1>1, <1>3, <1>5 DEF ChatInv, ChatTypes
<1>10. ASSUME NEW u \in Sessions, NEW i \in 1 .. Len(chat'[u])
       PROVE  \/ i \in 1 .. Len(chat[u]) /\ chat'[u][i] = chat[u][i]
              \/ u = s /\ i = Len(d) /\ chat'[u][i] = m
  BY <1>3, <1>7, <1>8
<1>11. ToldOnce'
  <2>1. ASSUME NEW u \in Sessions, NEW i \in 1 .. Len(chat'[u])
        PROVE  /\ turn'[chat'[u][i].turn].status # "unasked" /\ turn'[chat'[u][i].turn].session = u
               /\ \A j \in 1 .. Len(chat'[u]) :
                    (chat'[u][i].role = "user" /\ chat'[u][j].role = "user"
                       /\ chat'[u][i].turn = chat'[u][j].turn) => i = j
    <3>1. turn'[chat'[u][i].turn].status # "unasked" /\ turn'[chat'[u][i].turn].session = u
      <4>1. CASE chat'[u][i] = m /\ u = s
        BY <1>4, <1>5, <1>6, <4>1 DEF Asked
      <4>2. CASE i \in 1 .. Len(chat[u]) /\ chat'[u][i] = chat[u][i]
        <5>1. Asked(chat[u][i].turn) /\ turn[chat[u][i].turn].session = u
          BY <4>2 DEF ChatInv, ToldOnce
        <5>2. QED BY <1>5, <1>8, <4>2, <5>1 DEF Asked
      <4>3. QED BY <1>10, <4>1, <4>2
    <3>2. ASSUME NEW j \in 1 .. Len(chat'[u]), chat'[u][i].role = "user", chat'[u][j].role = "user",
                 chat'[u][i].turn = chat'[u][j].turn
          PROVE  i = j
      <4>1. CASE i \in 1 .. Len(chat[u]) /\ j \in 1 .. Len(chat[u])
        BY <1>8, <3>2, <4>1 DEF ChatInv, ToldOnce
      <4>2. CASE ~(i \in 1 .. Len(chat[u]) /\ j \in 1 .. Len(chat[u]))
        BY <1>6, <1>8, <1>10, <3>2, <4>2
      <4>3. QED BY <4>1, <4>2
    <3>3. QED BY <3>1, <3>2
  <2>2. ASSUME NEW u \in Turns, turn'[u].status = "thinking"
        PROVE  LET c == chat'[turn'[u].session] IN
               Len(c) > 0 /\ c[Len(c)].role = "user" /\ c[Len(c)].turn = u
    <3>1. CASE u = t
      BY <1>3, <1>4, <1>5, <1>6, <1>7, <3>1
    <3>2. CASE u # t
      <4>1. turn[u].status = "thinking" /\ turn'[u].session = turn[u].session
        BY <1>5, <2>2, <3>2
      <4>2. turn[u].session # s /\ turn[u].session \in Sessions
        BY <1>1, <4>1 DEF Waiting, NotAsked, Question, ChatInv, ChatTypes
      <4>3. chat'[turn'[u].session] = chat[turn[u].session]
        BY <1>7, <4>1, <4>2
      <4>4. QED BY <4>1, <4>3 DEF ChatInv, ToldOnce
    <3>3. QED BY <3>1, <3>2
  <2>3. QED BY <2>1, <2>2 DEF ToldOnce, Asked
<1>12. ASSUME NEW u \in Sessions, NEW i \in 1 .. Len(chat'[u])
       PROVE  InPlace(chat[u], i)' /\ (turn[chat[u][i].turn].alone =>
                                         chat[u][i].diagram \in {0, chat[u][i].turn})'
  <2>1. CASE i \in 1 .. Len(chat[u]) /\ chat'[u][i] = chat[u][i]
    <3>1. InPlace(chat[u], i) /\ chat[u] \in Seq(Message)
      BY <2>1 DEF ChatInv, ChatTypes
    <3>2. /\ Len(chat'[u]) >= Len(chat[u]) /\ Len(chat[u]) \in Nat /\ Len(chat'[u]) \in Nat
          /\ \A j \in 1 .. Len(chat[u]) : chat'[u][j] = chat[u][j]
      BY <1>3, <1>7, <1>8, <3>1
    <3>3. /\ turn'[chat[u][i].turn].status = turn[chat[u][i].turn].status
          /\ turn'[chat[u][i].turn].alone => turn[chat[u][i].turn].alone
      BY <1>5, <1>8, <2>1
    <3>4. InPlace(chat[u], i)'
      BY <2>1, <3>1, <3>2, <3>3 DEF InPlace
    <3>5. QED BY <2>1, <3>3, <3>4 DEF AloneInv
  <2>2. CASE chat'[u][i] = m
    BY <1>4, <1>5, <1>6, <2>2 DEF InPlace
  <2>3. QED BY <1>10, <2>1, <2>2
<1>13. ASSUME NEW u \in Turns, Running(u)', turn'[u].alone
       PROVE  /\ \A v \in Turns : Running(v)' => v = u
              /\ last' \in {0, u} /\ ToolMode' = turn'[u].mode
  <2>1. u = t
    BY <1>5, <1>13 DEF Running
  <2>2. \A v \in Turns : ~Running(v)
    BY <1>4, <1>5, <1>13, <2>1
  <2>3. \A v \in Turns : Running(v)' => v = t
    BY <1>5, <2>2 DEF Running
  <2>4. ToolMode' = mode[s]
    BY <1>1 DEF ToolMode, LoadedMode, NormalizeMode, DashboardAssumption
  <2>5. QED BY <1>1, <1>4, <1>5, <2>1, <2>3, <2>4
<1>14. QED
  BY <1>9, <1>11, <1>12, <1>13 DEF ChatInv, AloneInv

\* What changes when only the status of a turn does.
LEMMA OneStatus ==
  ASSUME ChatTypes, NEW t \in Turns, turn[t].status # "unasked",
         NEW status \in {"answered", "abandoned", "stopped"},
         turn' = [turn EXCEPT ![t].status = status]
  PROVE  /\ turn' \in [Turns -> {NotAsked} \cup Question]
         /\ turn'[t].status = status
         /\ \A u \in Turns : /\ turn'[u].session = turn[u].session /\ turn'[u].mode = turn[u].mode
                             /\ turn'[u].alone = turn[u].alone
                             /\ u # t => turn'[u] = turn[u]
<1>1. turn[t] \in Question
  BY DEF ChatTypes, NotAsked
<1> DEFINE q == [turn[t] EXCEPT !.status = status]
<1>2. /\ q \in Question /\ q.status = status /\ q.session = turn[t].session /\ q.mode = turn[t].mode
      /\ q.alone = turn[t].alone
  BY <1>1 DEF Question
<1>3. turn' = [turn EXCEPT ![t] = q]
  OBVIOUS
<1> HIDE DEF q
<1>4. QED BY <1>2, <1>3 DEF ChatTypes

\* A run that is clicked away, or stops, leaves its question without an answer; a tool draws.
LEMMA ChatOfRun ==
  ASSUME DashboardAssumption, ChatInv, AloneInv, NEW t \in Turns, Draw(t) \/ Abandon(t) \/ Stop(t)
  PROVE  ChatInv' /\ AloneInv'
<1>1. CASE Draw(t)
  <2>1. Running(t) /\ last' = t /\ UNCHANGED <<env, mode, chat, turn>>
    BY <1>1 DEF Draw
  <2>2. t \in 0 .. MaxTurns
    BY DEF Turns, DashboardAssumption
  <2>3. ChatInv'
    <3>1. ChatTypes'
      BY <2>1, <2>2 DEF ChatInv, ChatTypes
    <3>2. ToldOnce'
      BY <2>1 DEF ChatInv, ToldOnce, Asked
    <3>3. ASSUME NEW s \in Sessions, NEW i \in 1 .. Len(chat[s]) PROVE InPlace(chat[s], i)'
      BY <2>1 DEF ChatInv, InPlace
    <3>4. QED BY <2>1, <3>1, <3>2, <3>3 DEF ChatInv
  <2>4. AloneInv'
    BY <2>1 DEF AloneInv, Running, ToolMode, LoadedMode
  <2>5. QED BY <2>3, <2>4
<1>2. CASE Abandon(t) \/ Stop(t)
  <2>1. PICK status \in {"abandoned", "stopped"} :
          /\ Running(t) /\ turn' = [turn EXCEPT ![t].status = status]
          /\ UNCHANGED <<env, last, mode, chat>>
          /\ turn[t].status = "thinking" \/ status = "stopped"
    BY <1>2 DEF Abandon, Stop, Running
  <2>2. /\ turn' \in [Turns -> {NotAsked} \cup Question]
        /\ turn'[t].status = status
        /\ \A u \in Turns : /\ turn'[u].session = turn[u].session /\ turn'[u].mode = turn[u].mode
                            /\ turn'[u].alone = turn[u].alone
                            /\ u # t => turn'[u] = turn[u]
    <3>1. turn[t].status # "unasked" BY <2>1 DEF Running
    <3>2. QED BY <2>1, <3>1, OneStatus DEF ChatInv
  <2>3. ChatTypes'
    BY <2>1, <2>2 DEF ChatInv, ChatTypes
  <2>4. ASSUME NEW s \in Sessions, NEW i \in 1 .. Len(chat[s]) PROVE chat[s][i].turn \in Turns
    <3>1. chat[s][i] \in Message
      BY DEF ChatInv, ChatTypes
    <3>2. QED BY <3>1 DEF Message
  <2>5. \A u \in Turns : /\ turn'[u].status = "unasked" => turn[u].status = "unasked"
                         /\ turn'[u].status = "answered" => turn[u].status = "answered"
                         /\ turn'[u].status = "thinking" => turn[u].status = "thinking"
                         /\ turn'[u].status \in {"thinking", "abandoned"} =>
                              turn[u].status \in {"thinking", "abandoned"}
    BY <2>1, <2>2 DEF Running
  <2>6. ToldOnce'
    BY <2>1, <2>2, <2>4, <2>5 DEF ChatInv, ToldOnce, Asked
  <2>7. ASSUME NEW s \in Sessions, NEW i \in 1 .. Len(chat[s]) PROVE InPlace(chat[s], i)'
    BY <2>1, <2>4, <2>5 DEF ChatInv, InPlace
  <2>8. AloneInv'
    BY <2>1, <2>2, <2>4, <2>5 DEF AloneInv, Running, ToolMode, LoadedMode
  <2>9. QED BY <2>1, <2>3, <2>6, <2>7, <2>8 DEF ChatInv
<1>3. QED BY <1>1, <1>2

\* An answer comes right after its question, with what its own turn has drawn.
LEMMA ChatOfAnswer ==
  ASSUME DashboardAssumption, ChatInv, AloneInv, NEW t \in Turns, Answer(t)
  PROVE  ChatInv' /\ AloneInv'
<1> DEFINE s == turn[t].session
           m == [role |-> "assistant", turn |-> t, diagram |-> last]
           d == Append(chat[s], m)
           n == Len(chat[s])
<1>1. /\ turn[t].status = "thinking" /\ turn' = [turn EXCEPT ![t].status = "answered"]
      /\ chat' = [chat EXCEPT ![s] = d] /\ UNCHANGED <<env, last, mode>>
  BY DEF Answer, Say, ChatInv, ChatTypes
<1>2. s \in Sessions
  BY <1>1 DEF ChatInv, ChatTypes, NotAsked, Question
<1>3. m \in Message /\ chat[s] \in Seq(Message)
  BY <1>2 DEF Message, ChatInv, ChatTypes
<1>4. /\ d \in Seq(Message) /\ n \in Nat /\ Len(d) = n + 1 /\ d[Len(d)] = m
      /\ \A i \in 1 .. n : d[i] = chat[s][i] /\ chat[s][i] \in Message
  BY <1>3, OneMore
<1>5. /\ turn' \in [Turns -> {NotAsked} \cup Question]
      /\ turn'[t].status = "answered"
      /\ \A u \in Turns : /\ turn'[u].session = turn[u].session /\ turn'[u].mode = turn[u].mode
                          /\ turn'[u].alone = turn[u].alone
                          /\ u # t => turn'[u] = turn[u]
  BY <1>1, OneStatus DEF ChatInv
<1>6. n > 0 /\ chat[s][n].role = "user" /\ chat[s][n].turn = t
  BY <1>1 DEF ChatInv, ToldOnce
<1>7. m.role = "assistant" /\ m.turn = t /\ m.diagram = last
  OBVIOUS
<1> HIDE DEF m, d, n, s
<1>8. ASSUME NEW u \in Sessions
      PROVE  chat'[u] = IF u = s THEN d ELSE chat[u]
  BY <1>1 DEF ChatInv, ChatTypes
<1>9. ASSUME NEW u \in Sessions, NEW i \in 1 .. Len(chat[u])
      PROVE  /\ chat[u][i].turn \in Turns /\ turn[chat[u][i].turn].session = u
             /\ turn[chat[u][i].turn].status # "unasked"
             /\ chat'[u][i] = chat[u][i]
  <2>1. chat[u][i] \in Message
    BY DEF ChatInv, ChatTypes
  <2>2. chat[u][i].turn \in Turns
    BY <2>1 DEF Message
  <2>3. Asked(chat[u][i].turn) /\ turn[chat[u][i].turn].session = u
    BY DEF ChatInv, ToldOnce
  <2>4. chat'[u][i] = chat[u][i]
    BY <1>4, <1>8 DEF n
  <2>5. QED BY <2>2, <2>3, <2>4 DEF Asked
<1>10. ChatTypes'
  BY <1>1, <1>4, <1>5 DEF ChatInv, ChatTypes
<1>11. ASSUME NEW u \in Sessions, NEW i \in 1 .. Len(chat'[u])
       PROVE  \/ i \in 1 .. Len(chat[u]) /\ chat'[u][i] = chat[u][i]
              \/ u = s /\ i = n + 1 /\ chat'[u][i] = m
  BY <1>4, <1>8, <1>9 DEF n
<1>12. ToldOnce'
  <2>1. ASSUME NEW u \in Sessions, NEW i \in 1 .. Len(chat'[u])
        PROVE  /\ turn'[chat'[u][i].turn].status # "unasked"
               /\ turn'[chat'[u][i].turn].session = u
               /\ \A j \in 1 .. Len(chat'[u]) :
                    (chat'[u][i].role = "user" /\ chat'[u][j].role = "user"
                       /\ chat'[u][i].turn = chat'[u][j].turn) => i = j
    <3>1. CASE chat'[u][i] = m /\ u = s
      BY <1>5, <1>7, <3>1 DEF s
    <3>2. CASE i \in 1 .. Len(chat[u]) /\ chat'[u][i] = chat[u][i]
      <4>1. turn'[chat'[u][i].turn].status # "unasked" /\ turn'[chat'[u][i].turn].session = u
        BY <1>5, <1>9, <3>2
      <4>2. \A j \in 1 .. Len(chat'[u]) :
              (chat'[u][i].role = "user" /\ chat'[u][j].role = "user"
                 /\ chat'[u][i].turn = chat'[u][j].turn) => i = j
        BY <1>7, <1>11, <3>2 DEF ChatInv, ToldOnce
      <4>3. QED BY <4>1, <4>2
    <3>3. QED BY <1>11, <3>1, <3>2
  <2>2. ASSUME NEW u \in Turns, turn'[u].status = "thinking"
        PROVE  LET c == chat'[turn'[u].session] IN
               Len(c) > 0 /\ c[Len(c)].role = "user" /\ c[Len(c)].turn = u
    <3>1. u # t /\ turn[u].status = "thinking" /\ turn'[u].session = turn[u].session
      BY <1>5, <2>2
    <3>2. LET c == chat[turn[u].session] IN
          Len(c) > 0 /\ c[Len(c)].role = "user" /\ c[Len(c)].turn = u
      BY <3>1 DEF ChatInv, ToldOnce
    <3>3. turn[u].session # s /\ turn[u].session \in Sessions
      BY <1>6, <3>1, <3>2 DEF n, NotAsked, Question, ChatInv, ChatTypes
    <3>4. QED BY <1>8, <3>1, <3>2, <3>3
  <2>3. QED BY <2>1, <2>2 DEF ToldOnce, Asked
<1>13. ASSUME NEW u \in Sessions, NEW i \in 1 .. Len(chat'[u])
       PROVE  InPlace(chat[u], i)'
  <2>1. CASE i \in 1 .. Len(chat[u]) /\ chat'[u][i] = chat[u][i] /\ chat[u][i].turn # t
    <3>1. InPlace(chat[u], i) /\ chat[u] \in Seq(Message)
      BY <2>1 DEF ChatInv, ChatTypes
    <3>2. /\ Len(chat'[u]) >= Len(chat[u]) /\ Len(chat[u]) \in Nat /\ Len(chat'[u]) \in Nat
          /\ \A j \in 1 .. Len(chat[u]) : chat'[u][j] = chat[u][j]
      <4>1. Len(chat[u]) \in Nat /\ \A j \in 1 .. Len(chat[u]) : chat'[u][j] = chat[u][j]
        BY <1>9, <3>1
      <4>2. CASE u = s
        BY <1>4, <1>8, <4>1, <4>2 DEF n
      <4>3. CASE u # s
        BY <1>8, <4>1, <4>3
      <4>4. QED BY <4>1, <4>2, <4>3
    <3>3. turn'[chat[u][i].turn] = turn[chat[u][i].turn]
      BY <1>5, <1>9, <2>1
    <3> DEFINE c == chat[u]
               b == chat'[u]
    <3>4. /\ InPlace(c, i) /\ i \in 1 .. Len(c) /\ b[i] = c[i] /\ Len(c) \in Nat /\ Len(b) \in Nat
          /\ Len(b) >= Len(c) /\ \A j \in 1 .. Len(c) : b[j] = c[j]
          /\ turn'[c[i].turn] = turn[c[i].turn]
      BY <2>1, <3>1, <3>2, <3>3
    <3>5. b[i].role = "assistant" => i > 1 /\ b[i - 1].role = "user" /\ b[i - 1].turn = b[i].turn
      <4> HIDE DEF b, c
      <4>1. i > 1 => i - 1 \in 1 .. Len(c)
        BY <3>4
      <4>2. QED BY <3>4, <4>1 DEF InPlace
    <3>6. b[i].role = "user" =>
            \/ turn'[b[i].turn].status # "answered"
            \/ i < Len(b) /\ b[i + 1].role = "assistant"
      <4> HIDE DEF b, c
      <4>1. i < Len(c) => i + 1 \in 1 .. Len(c) /\ i < Len(b)
        BY <3>4
      <4>2. QED BY <3>4, <4>1 DEF InPlace
    <3>7. QED BY <3>5, <3>6 DEF InPlace
  <2>2. CASE i \in 1 .. Len(chat[u]) /\ chat'[u][i] = chat[u][i] /\ chat[u][i].turn = t
    <3>1. u = s
      BY <1>9, <2>2 DEF s
    <3>2. n \in 1 .. n /\ i \in 1 .. n
      BY <1>4, <1>6, <2>2, <3>1 DEF n
    <3>3. chat[s][i].role = "user" => i = n
      BY <1>2, <1>6, <2>2, <3>1, <3>2 DEF n, ChatInv, ToldOnce
    <3>4. chat[s][i].role = "user" => i < Len(chat'[s]) /\ chat'[s][i + 1].role = "assistant"
      BY <1>2, <1>4, <1>7, <1>8, <3>3
    <3>5. /\ InPlace(chat[s], i)
          /\ \A j \in 1 .. n : chat'[s][j] = chat[s][j]
      BY <1>2, <1>9, <3>2 DEF ChatInv, n
    <3>6. chat'[s][i].role = "assistant" =>
            i > 1 /\ chat'[s][i - 1].role = "user" /\ chat'[s][i - 1].turn = chat'[s][i].turn
      BY <1>4, <3>2, <3>5 DEF InPlace
    <3>7. QED BY <2>2, <3>1, <3>4, <3>6 DEF InPlace
  <2>3. CASE u = s /\ i = n + 1 /\ chat'[u][i] = m
    <3>1. i > 1 /\ i - 1 = n /\ n \in 1 .. n
      BY <1>4, <1>6, <2>3
    <3>2. chat'[s][i - 1] = chat[s][n]
      BY <1>2, <1>9, <3>1 DEF n
    <3>3. QED BY <1>6, <1>7, <2>3, <3>1, <3>2 DEF InPlace
  <2>4. QED BY <1>11, <2>1, <2>2, <2>3
<1>14. AloneInv'
  <2>1. \A u \in Turns : Running(u)' => Running(u)
    BY <1>5 DEF Running
  <2>2. ToolMode' = ToolMode
    BY <1>1 DEF ToolMode, LoadedMode
  <2>3. turn[t].alone => last \in {0, t}
    BY <1>1 DEF AloneInv, Running
  <2>4. ASSUME NEW u \in Sessions, NEW i \in 1 .. Len(chat'[u]), turn'[chat'[u][i].turn].alone
        PROVE  chat'[u][i].diagram \in {0, chat'[u][i].turn}
    <3>1. CASE chat'[u][i] = m
      BY <1>5, <1>7, <2>3, <2>4, <3>1
    <3>2. CASE i \in 1 .. Len(chat[u]) /\ chat'[u][i] = chat[u][i]
      <4>1. turn[chat[u][i].turn].alone
        BY <1>5, <1>9, <2>4, <3>2
      <4>2. QED BY <3>2, <4>1 DEF AloneInv
    <3>3. QED BY <1>11, <3>1, <3>2
  <2>5. ASSUME NEW u \in Turns, Running(u)', turn'[u].alone
        PROVE  /\ \A v \in Turns : Running(v)' => v = u
               /\ last' \in {0, u} /\ ToolMode' = turn'[u].mode
    BY <1>1, <1>5, <2>1, <2>2, <2>5 DEF AloneInv
  <2>6. QED BY <2>4, <2>5 DEF AloneInv
<1>15. QED BY <1>10, <1>12, <1>13, <1>14 DEF ChatInv

\* Every step keeps both.
LEMMA ChatStep ==
  ASSUME DashboardAssumption, ChatInv, AloneInv, [Next]_vars
  PROVE  ChatInv' /\ AloneInv'
<1>1. ASSUME NEW s \in Sessions, Click(s) PROVE ChatInv' /\ AloneInv'
  <2>1. CASE OpenSession(s) \/ SelectMode(s)
    <3>1. mode' \in [Sessions -> Modes \cup {Unset}]
      BY <2>1 DEF OpenSession, SelectMode, ChatInv, ChatTypes, NormalizeMode, Modes
    <3>2. UNCHANGED chats
      BY <2>1 DEF OpenSession, SelectMode
    <3>3. QED BY <3>1, <3>2, ChatElsewhere
  <2>2. CASE PreviewAction(s) \/ ClickApply(s)
    BY <2>2, ChatElsewhere DEF PreviewAction, ClickApply, Clicked, ChatInv, ChatTypes
  <2>3. CASE \E t \in Turns : Ask(s, t)
    BY <2>3, ChatOfAsk
  <2>4. QED BY <1>1, <2>1, <2>2, <2>3 DEF Click
<1>2. ASSUME NEW t \in Turns, Agent(t) PROVE ChatInv' /\ AloneInv'
  BY <1>2, ChatOfRun, ChatOfAnswer DEF Agent
<1>3. ASSUME NEW c \in inside, Applying(c) PROVE ChatInv' /\ AloneInv'
  BY <1>3, ChatElsewhere DEF Applying, LeaveApply, TakeToken, FailApply, EndApply, ChatInv, ChatTypes
<1>4. CASE LoseTokens \/ UNCHANGED <<mode, payments, chats>>
  BY <1>4, ChatElsewhere DEF LoseTokens, ChatInv, ChatTypes
<1>5. CASE UNCHANGED vars
  BY <1>5, ChatElsewhere DEF vars, ChatInv, ChatTypes
<1>6. QED
  BY <1>1, <1>2, <1>3, <1>4, <1>5 DEF Next

LEMMA ChatKept == Spec => [](ChatInv /\ AloneInv)
<1>1. DashboardAssumption
  BY DashboardAssumption
<1>2. Init => ChatInv /\ AloneInv
  BY <1>1, ChatInit
<1>3. ChatInv /\ AloneInv /\ [Next]_vars => (ChatInv /\ AloneInv)'
  BY <1>1, ChatStep
<1>4. QED BY <1>2, <1>3, PTL DEF Spec

\* devops_page.py's chat, whatever is clicked away while the agent thinks and however late it
\* returns: an answer stands right after its own question, in the chat of who asked.
THEOREM DashboardAnswersFollow == Spec => []AnswersFollowQuestions
<1>1. ChatInv => AnswersFollowQuestions
  <2> SUFFICES ASSUME ChatInv, NEW s \in Sessions, NEW i \in DOMAIN chat[s]
               PROVE  LET m == chat[s][i] IN
                      /\ turn[m.turn].session = s
                      /\ m.role = "assistant" =>
                           i > 1 /\ chat[s][i - 1].role = "user" /\ chat[s][i - 1].turn = m.turn
                      /\ m.role = "user" =>
                           \/ turn[m.turn].status # "answered"
                           \/ i < Len(chat[s]) /\ chat[s][i + 1].role = "assistant"
    BY DEF AnswersFollowQuestions
  <2>1. i \in 1 .. Len(chat[s])
    BY DEF ChatInv, ChatTypes
  <2>2. QED BY <2>1 DEF ChatInv, ToldOnce, InPlace
<1>2. QED BY <1>1, ChatKept, PTL

\* FINOPS_MODE and the registry's slot, which all sessions share: a turn that no other has
\* overlapped is answered under the mode it was asked in, with a diagram of its own.
THEOREM DashboardTurnsAreTheirOwn == Spec => []TurnsAreTheirOwn
<1>1. ChatInv /\ AloneInv => TurnsAreTheirOwn
  <2> SUFFICES ASSUME ChatInv, AloneInv PROVE TurnsAreTheirOwn
    OBVIOUS
  <2>1. ASSUME NEW s \in Sessions, NEW m \in ToSet(chat[s]), turn[m.turn].alone
        PROVE  m.diagram \in {0, m.turn}
    <3>1. PICK i \in DOMAIN chat[s] : m = chat[s][i]
      BY DEF ToSet
    <3>2. i \in 1 .. Len(chat[s])
      BY <3>1 DEF ChatInv, ChatTypes
    <3>3. QED BY <2>1, <3>1, <3>2 DEF AloneInv
  <2>2. QED BY <2>1 DEF AloneInv, TurnsAreTheirOwn
<1>2. QED BY <1>1, ChatKept, PTL

-----------------------------------------------------------------------------
(* Types                                                                   *)

\* The types that the invariants above do not give.
OtherTypes ==
  /\ env \in Modes \cup {Unset}
  /\ performed \in SUBSET (Tokens \X Calls) /\ IsFiniteSet(performed)
  /\ report.kind \in {"none", "diagnosis", "review"}
  /\ issued \in SUBSET Preview

LEMMA OthersInit == DashboardAssumption /\ Init => OtherTypes
BY FS_EmptySet DEF DashboardAssumption, Init, Ledger!Init, OtherTypes, NoReport

\* A change is a call of apply that was inside.
LEMMA OthersOfEnd ==
  ASSUME PaymentInv, OtherTypes, NEW c \in inside, EndApply(c)
  PROVE  performed' \in SUBSET (Tokens \X Calls) /\ IsFiniteSet(performed')
<1>1. performed' = performed \cup {<<c.token, CallOf(c)>>}
  BY DEF EndApply
<1>2. Cardinality(performed) + 1 \in Nat \ {0}
  BY FS_CardinalityType DEF OtherTypes
<1>3. c.token \in Tokens /\ CallOf(c) \in Calls
  BY <1>2 DEF CallOf, Calls, PaymentInv, InsideIsOwn, Inside
<1>4. IsFiniteSet(performed')
  BY <1>1, FS_AddElement DEF OtherTypes
<1>5. QED
  BY <1>1, <1>3, <1>4 DEF OtherTypes

LEMMA OthersStep ==
  ASSUME DashboardAssumption, PaymentInv, OtherTypes, [Next]_vars
  PROVE  OtherTypes'
<1>1. report'.kind \in {"none", "diagnosis", "review"}
  BY DEF Next, NoReport, DiagnoseButton, ReviewButton, vars, OtherTypes
<1>2. ASSUME NEW s \in Sessions, Click(s)
      PROVE  env' \in Modes \cup {Unset} /\ performed' = performed /\ issued' \in SUBSET Preview
  <2>1. CASE OpenSession(s) \/ SelectMode(s)
    BY <2>1 DEF OpenSession, SelectMode, OtherTypes, payments, chats
  <2>2. CASE PreviewAction(s)
    BY <2>2 DEF PreviewAction, OtherTypes, Ledger!Issue, chats
  <2>3. CASE ClickApply(s)
    BY <2>3 DEF ClickApply, Clicked, OtherTypes, chats
  <2>4. CASE \E t \in Turns : Ask(s, t)
    BY <2>4 DEF Ask, AskNext, OtherTypes, PaymentInv, PendingIsOwn, payments
  <2>5. QED BY <1>2, <2>1, <2>2, <2>3, <2>4 DEF Click
<1>3. ASSUME NEW c \in inside, Applying(c)
      PROVE  /\ UNCHANGED <<env, issued>>
             /\ performed' \in SUBSET (Tokens \X Calls) /\ IsFiniteSet(performed')
  <2>1. CASE EndApply(c)
    BY <2>1, OthersOfEnd DEF EndApply, chats
  <2>2. CASE LeaveApply(c) \/ TakeToken(c)
    BY <2>2 DEF LeaveApply, TakeToken, OtherTypes, chats
  <2>3. CASE FailApply(c)
    BY <2>3 DEF FailApply, Ledger!Void, OtherTypes, chats
  <2>4. QED BY <1>3, <2>1, <2>2, <2>3 DEF Applying
<1>4. ASSUME NEW t \in Turns, Agent(t)
      PROVE  UNCHANGED <<env, performed, issued>>
  BY <1>4 DEF Agent, Draw, Answer, Abandon, Stop, payments
<1>5. LoseTokens => UNCHANGED <<env, performed, issued>>
  BY DEF LoseTokens, Ledger!Void, chats
<1>6. QED
  BY <1>1, <1>2, <1>3, <1>4, <1>5 DEF Next, vars, OtherTypes, payments, chats

\* Every variable keeps its type, the calls that are inside included.
THEOREM DashboardType == Spec => []TypeOK
<1>1. PaymentInv /\ ChatInv /\ OtherTypes => TypeOK
  BY DEF PaymentInv, PendingIsOwn, InsideIsOwn, LedgerTypes, ChatInv, ChatTypes, OtherTypes,
         TypeOK, Message, Question
<1>2. DashboardAssumption
  BY DashboardAssumption
<1>3. Init => PaymentInv /\ OtherTypes
  BY <1>2, PaymentInit, OthersInit
<1>4. PaymentInv /\ OtherTypes /\ [Next]_vars => (PaymentInv /\ OtherTypes)'
  BY <1>2, PaymentStep, OthersStep
<1>5. QED BY <1>1, <1>3, <1>4, ChatKept, PTL DEF Spec

-----------------------------------------------------------------------------
(* Sorting                                                                 *)

\* Order goes once through every place of K, what is ahead of the others first.
LEMMA OrderIs ==
  ASSUME NEW K \in SUBSET Nat, IsFiniteSet(K), NEW worth \in [K -> Int]
  PROVE  LET order == Order(worth)  n == Cardinality(K) IN
         /\ n \in Nat
         /\ order \in [1 .. n -> K]
         /\ \A i \in K : \E p \in 1 .. n : order[p] = i
         /\ \A p, q \in 1 .. n : p < q => Ahead(worth, order[p], order[q]) /\ order[p] # order[q]
<1> DEFINE n == Cardinality(K)  N == 0 .. n - 1
           Sooner(i) == {j \in K : Ahead(worth, j, i)}
           place == [i \in K |-> Cardinality(Sooner(i))]
<1>1. n \in Nat
  BY FS_CardinalityType
<1>2. \A i \in K : i \in Nat /\ worth[i] \in Int
  OBVIOUS
<1>3. \A i \in K : IsFiniteSet(Sooner(i)) /\ Cardinality(Sooner(i)) \in Nat
  BY FS_Subset, FS_CardinalityType
<1>4. \A i, j \in K : i # j => Ahead(worth, i, j) \/ Ahead(worth, j, i)
  BY <1>2 DEF Ahead
<1>5. ASSUME NEW i \in K, NEW j \in K, Ahead(worth, i, j)
      PROVE  place[i] < place[j]
  <2>0. i \in Nat /\ j \in Nat /\ worth[i] \in Int /\ worth[j] \in Int
    BY <1>2
  <2>1. Sooner(i) \subseteq Sooner(j) /\ i \in Sooner(j) /\ i \notin Sooner(i)
    <3>1. ASSUME NEW k \in K, Ahead(worth, k, i) PROVE Ahead(worth, k, j)
      <4>1. k \in Nat /\ worth[k] \in Int
        BY <1>2
      <4>2. QED BY <1>5, <2>0, <3>1, <4>1 DEF Ahead
    <3>2. ~Ahead(worth, i, i)
      BY <2>0 DEF Ahead
    <3>3. QED BY <1>5, <3>1, <3>2
  <2> HIDE DEF Sooner
  <2>2. Cardinality(Sooner(i)) <= Cardinality(Sooner(j)) /\ Cardinality(Sooner(i)) # Cardinality(Sooner(j))
    BY <1>3, <2>1, FS_Subset
  <2>3. QED BY <1>3, <2>2
<1>6. \A i \in K : place[i] \in N
  <2>1. ASSUME NEW i \in K PROVE Cardinality(Sooner(i)) \in N
    <3>1. Sooner(i) \subseteq K /\ i \notin Sooner(i)
      BY <1>2 DEF Ahead
    <3> HIDE DEF Sooner
    <3>2. Cardinality(Sooner(i)) <= n /\ Cardinality(Sooner(i)) # n
      BY <3>1, FS_Subset
    <3>3. QED BY <1>1, <1>3, <3>2
  <2> HIDE DEF Sooner, N
  <2>2. QED BY <2>1
<1>7. \A i, j \in K : place[i] = place[j] => i = j
  <2> HIDE DEF place
  <2>1. QED BY <1>1, <1>4, <1>5, <1>6
<1> DEFINE I == {place[i] : i \in K}
<1>8. I = N
  <2>1. IsFiniteSet(N) /\ Cardinality(N) = n
    BY <1>1, FS_Interval
  <2>2. I \subseteq N
    BY <1>6
  <2>3. place \in Surjection(K, I) /\ place \in Injection(K, I)
    <3>1. place = [i \in K |-> place[i]]
      OBVIOUS
    <3> HIDE DEF place
    <3>2. place \in [K -> I]
      BY <3>1
    <3>3. QED BY <1>7, <3>2 DEF Surjection, Injection, IsInjective
  <2>4. ExistsBijection(K, I)
    BY <2>3 DEF ExistsBijection, Bijection
  <2> HIDE DEF I, N
  <2>5. Cardinality(I) = n
    BY <2>4, FS_Bijection
  <2>6. QED BY <2>1, <2>2, <2>5, FS_Subset
<1> DEFINE order == Order(worth)
<1>9. order = [p \in 1 .. n |-> CHOOSE i \in K : place[i] = p - 1]
  <2>1. DOMAIN worth = K
    OBVIOUS
  <2>2. \A i \in K : Place(worth, i) = place[i]
    BY <2>1 DEF Place
  <2> HIDE DEF place
  <2>3. \A p \in 1 .. n : (CHOOSE i \in K : Place(worth, i) = p - 1) = (CHOOSE i \in K : place[i] = p - 1)
    BY <2>2
  <2>4. order = [p \in 1 .. n |-> CHOOSE i \in K : Place(worth, i) = p - 1]
    BY <2>1 DEF Order
  <2> HIDE DEF order
  <2>5. QED BY <2>3, <2>4
<1> HIDE DEF order
<1>10. ASSUME NEW p \in 1 .. n PROVE order[p] \in K /\ place[order[p]] = p - 1
  <2>1. p - 1 \in I
    <3>1. p - 1 \in N
      BY <1>1
    <3> HIDE DEF I, N
    <3>2. QED BY <1>8, <3>1
  <2> HIDE DEF place
  <2>2. \E i \in K : place[i] = p - 1
    BY <2>1
  <2>3. QED BY <1>9, <2>2
<1> HIDE DEF place, n, I
<1>11. order \in [1 .. n -> K]
  BY <1>9, <1>10
<1>12. ASSUME NEW i \in K PROVE \E p \in 1 .. n : order[p] = i
  <2>1. place[i] \in Nat /\ place[i] + 1 \in 1 .. n
    BY <1>1, <1>6
  <2>2. order[place[i] + 1] \in K /\ place[order[place[i] + 1]] = place[i] + 1 - 1
    BY <1>10, <2>1
  <2>3. place[i] + 1 - 1 = place[i]
    BY <2>1
  <2>4. order[place[i] + 1] = i
    BY <1>7, <2>2, <2>3
  <2>5. QED BY <2>1, <2>4
<1>13. ASSUME NEW p \in 1 .. n, NEW q \in 1 .. n, p < q
       PROVE  Ahead(worth, order[p], order[q]) /\ order[p] # order[q]
  <2>1. /\ order[p] \in K /\ order[q] \in K
        /\ place[order[p]] = p - 1 /\ place[order[q]] = q - 1
    BY <1>10
  <2>2. p - 1 # q - 1 /\ ~(q - 1 < p - 1)
    BY <1>1, <1>13
  <2>3. order[p] # order[q] /\ ~(place[order[q]] < place[order[p]])
    BY <2>1, <2>2
  <2>4. ~Ahead(worth, order[q], order[p])
    BY <1>5, <2>1, <2>3
  <2>5. QED BY <1>4, <2>1, <2>3, <2>4
<1>14. QED BY <1>1, <1>11, <1>12, <1>13 DEF order, n

\* What sorting keeps: t has the items of s at the places in K, once each, and
\* none that is worth less before one that is worth more.
Sorts(t, s, K, worth) ==
  /\ Cardinality(K) \in Nat
  /\ t = [p \in 1 .. Cardinality(K) |-> t[p]]
  /\ ToSet(t) = {s[i] : i \in K}
  /\ \A p, q \in 1 .. Cardinality(K) : p < q =>
       \E i, j \in K : i # j /\ t[p] = s[i] /\ t[q] = s[j] /\ worth[i] >= worth[j]

\* Descending sorts.
LEMMA DescendingSorts ==
  ASSUME NEW K \in SUBSET Nat, IsFiniteSet(K), NEW worth \in [K -> Int], NEW s
  PROVE  Sorts(Descending(s, worth), s, K, worth)
<1> DEFINE n == Cardinality(K)  order == Order(worth)  t == Descending(s, worth)
<1>1. /\ n \in Nat /\ order \in [1 .. n -> K]
      /\ \A i \in K : \E p \in 1 .. n : order[p] = i
      /\ \A p, q \in 1 .. n : p < q => Ahead(worth, order[p], order[q]) /\ order[p] # order[q]
  BY OrderIs
<1>2. t = [p \in DOMAIN order |-> s[order[p]]]
  BY DEF Descending
<1> HIDE DEF order, t, n
<1>3. t = [p \in 1 .. n |-> t[p]] /\ \A p \in 1 .. n : t[p] = s[order[p]] /\ order[p] \in K
  BY <1>1, <1>2
<1>4. ToSet(t) = {s[i] : i \in K}
  <2>1. ToSet(t) = {t[p] : p \in 1 .. n}
    BY <1>3 DEF ToSet
  <2>2. \A i \in K : s[i] \in ToSet(t)
    BY <1>1, <1>3, <2>1
  <2>3. \A x \in ToSet(t) : x \in {s[i] : i \in K}
    BY <1>3, <2>1
  <2>4. QED BY <2>2, <2>3
<1>5. ASSUME NEW p \in 1 .. n, NEW q \in 1 .. n, p < q
      PROVE  \E i, j \in K : i # j /\ t[p] = s[i] /\ t[q] = s[j] /\ worth[i] >= worth[j]
  <2>1. Ahead(worth, order[p], order[q]) /\ order[p] # order[q]
    BY <1>1, <1>5
  <2>2. order[p] \in K /\ order[q] \in K /\ t[p] = s[order[p]] /\ t[q] = s[order[q]]
    BY <1>3
  <2>3. worth[order[p]] >= worth[order[q]]
    <3>1. worth[order[p]] \in Int /\ worth[order[q]] \in Int
      BY <2>2
    <3>2. QED BY <2>1, <3>1 DEF Ahead
  <2>4. QED BY <2>1, <2>2, <2>3
<1>6. QED BY <1>1, <1>3, <1>4, <1>5 DEF Sorts, n, t

\* The items that are kept are kept once each.
LEMMA AmongKeeps ==
  ASSUME NEW K \in SUBSET Nat, IsFiniteSet(K), NEW s
  PROVE  Sorts(Among(s, K), s, K, [i \in K |-> 0])
BY DescendingSorts DEF Among

\* What is kept of a sequence is a sequence, of as many items as there are places.
LEMMA SortedSeq ==
  ASSUME NEW E, NEW s, NEW K, NEW worth, NEW t, Sorts(t, s, K, worth), \A i \in K : s[i] \in E
  PROVE  t \in Seq(E) /\ Len(t) = Cardinality(K) /\ (t = <<>> <=> K = {})
<1> DEFINE n == Cardinality(K)
<1>1. n \in Nat /\ t = [p \in 1 .. n |-> t[p]] /\ ToSet(t) = {s[i] : i \in K}
  BY DEF Sorts
<1> HIDE DEF n
<1>2. \A p \in 1 .. n : t[p] \in ToSet(t)
  BY <1>1 DEF ToSet
<1>3. \A p \in 1 .. n : t[p] \in E
  BY <1>1, <1>2
<1>4. t \in Seq(E) /\ Len(t) = n /\ DOMAIN t = 1 .. n
  BY <1>1, <1>3
<1>5. ASSUME K = {} PROVE t = <<>>
  BY <1>1, <1>2, <1>4, <1>5
<1>6. ASSUME t = <<>> PROVE K = {}
  BY <1>1, <1>6 DEF ToSet
<1>7. QED BY <1>4, <1>5, <1>6 DEF n

-----------------------------------------------------------------------------
(* The diagnosis                                                           *)

LogCauses == {"timeout", "import", "access", "throttled", "memory"}

AllCauses == LogCauses \cup {"errors", "errorrate", "status", "storage", "change"}

HypType == [cause : AllCauses, confidence : {"high", "medium"},
            category : {"reliability", "config", "security"}, command : BOOLEAN]

\* Hypotheses of which no two have one cause.
Once(u) == u \in Seq(HypType) /\ \A i, j \in DOMAIN u : i < j => u[i].cause # u[j].cause

\* No rule, and one rule.
LEMMA OnceNone == Once(<<>>) /\ ToSet(<<>>) = {}
BY DEF Once, ToSet

LEMMA OnceOne ==
  ASSUME NEW h \in HypType
  PROVE  Once(<<h>>) /\ ToSet(<<h>>) = {h}
BY DEF Once, ToSet

\* Rules that have no cause in common, one after the other.
LEMMA OnceBoth ==
  ASSUME NEW u, NEW v, Once(u), Once(v),
         \A h \in ToSet(u) : \A k \in ToSet(v) : h.cause # k.cause
  PROVE  Once(u \o v) /\ ToSet(u \o v) = ToSet(u) \cup ToSet(v)
<1> DEFINE m == Len(u)  n == Len(v)  w == u \o v
<1>1. /\ u \in Seq(HypType) /\ v \in Seq(HypType) /\ w \in Seq(HypType)
      /\ m \in Nat /\ n \in Nat /\ Len(w) = m + n
      /\ DOMAIN u = 1 .. m /\ DOMAIN v = 1 .. n /\ DOMAIN w = 1 .. m + n
  BY DEF Once
<1>2. \A i \in 1 .. m : w[i] = u[i] /\ i \in 1 .. m + n
  BY <1>1
<1>3. \A i \in 1 .. n : w[m + i] = v[i] /\ m + i \in 1 .. m + n
  BY <1>1
<1>4. \A i \in 1 .. m + n : \/ i \in 1 .. m /\ w[i] = u[i]
                            \/ i - m \in 1 .. n /\ w[i] = v[i - m]
  BY <1>1
<1>5. /\ \A i, j \in 1 .. m : i < j => u[i].cause # u[j].cause
      /\ \A i, j \in 1 .. n : i < j => v[i].cause # v[j].cause
      /\ \A i \in 1 .. m : \A j \in 1 .. n : u[i].cause # v[j].cause
  BY <1>1 DEF Once, ToSet
<1> HIDE DEF m, n, w
<1>6. ASSUME NEW i \in 1 .. m + n, NEW j \in 1 .. m + n, i < j PROVE w[i].cause # w[j].cause
  <2>1. CASE j \in 1 .. m /\ w[j] = u[j]
    <3>1. i \in 1 .. m
      BY <1>1, <1>6, <2>1
    <3>2. QED BY <1>2, <1>5, <1>6, <2>1, <3>1
  <2>2. CASE j - m \in 1 .. n /\ w[j] = v[j - m]
    <3>1. CASE i \in 1 .. m /\ w[i] = u[i]
      BY <1>5, <2>2, <3>1
    <3>2. CASE i - m \in 1 .. n /\ w[i] = v[i - m]
      <4>1. i - m < j - m
        BY <1>1, <1>6
      <4>2. QED BY <1>5, <2>2, <3>2, <4>1
    <3>3. QED BY <1>4, <3>1, <3>2
  <2>3. QED BY <1>4, <2>1, <2>2
<1>7. ToSet(w) = ToSet(u) \cup ToSet(v)
  <2>1. ToSet(u) \subseteq ToSet(w)
    BY <1>1, <1>2 DEF ToSet
  <2>2. ToSet(v) \subseteq ToSet(w)
    BY <1>1, <1>3 DEF ToSet
  <2>3. ToSet(w) \subseteq ToSet(u) \cup ToSet(v)
    BY <1>1, <1>4 DEF ToSet
  <2>4. QED BY <2>1, <2>2, <2>3
<1>8. QED BY <1>1, <1>6, <1>7 DEF Once, w

\* What keeps the items of a sequence once each keeps each cause once.
LEMMA OnceSorted ==
  ASSUME NEW s, NEW K, NEW worth, NEW t, Sorts(t, s, K, worth), \A i \in K : s[i] \in HypType,
         \A i, j \in K : i # j => s[i].cause # s[j].cause
  PROVE  Once(t)
<1>1. /\ t \in Seq(HypType) /\ Len(t) = Cardinality(K)
  BY SortedSeq
<1>2. DOMAIN t = 1 .. Cardinality(K)
  BY <1>1
<1>3. ASSUME NEW p \in DOMAIN t, NEW q \in DOMAIN t, p < q PROVE t[p].cause # t[q].cause
  <2>1. PICK i, j \in K : i # j /\ t[p] = s[i] /\ t[q] = s[j]
    BY <1>2, <1>3 DEF Sorts
  <2>2. QED BY <2>1
<1>4. QED BY <1>1, <1>3 DEF Once

\* Places of a sequence are finitely many numbers.
LEMMA PlacesAre ==
  ASSUME NEW n \in Nat, NEW K, K \subseteq 1 .. n
  PROVE  K \in SUBSET Nat /\ IsFiniteSet(K)
<1>1. IsFiniteSet(1 .. n)
  BY FS_Interval
<1>2. IsFiniteSet(K)
  BY <1>1, FS_Subset
<1>3. QED BY <1>2

\* The rules about a function have a cause each, and two of them are not about
\* its reliability.
LEMMA LambdaRulesAre ==
  /\ DOMAIN LambdaRules = 1 .. 5
  /\ \A i \in 1 .. 5 : LambdaRules[i] \in HypType
  /\ {LambdaRules[i].cause : i \in 1 .. 5} = LogCauses
  /\ \A i, j \in 1 .. 5 : i # j => LambdaRules[i].cause # LambdaRules[j].cause
  /\ \A i \in 1 .. 5 : LambdaRules[i].category = "reliability" =>
       LambdaRules[i].cause \notin {"import", "access"}
<1> DEFINE h1 == Hypothesis("timeout", "high", "reliability", TRUE)
           h2 == Hypothesis("import", "high", "config", FALSE)
           h3 == Hypothesis("access", "high", "security", FALSE)
           h4 == Hypothesis("throttled", "high", "reliability", TRUE)
           h5 == Hypothesis("memory", "medium", "reliability", TRUE)
<1>1. /\ h1 \in HypType /\ h1.cause = "timeout"
      /\ h2 \in HypType /\ h2.cause = "import" /\ h2.category = "config"
      /\ h3 \in HypType /\ h3.cause = "access" /\ h3.category = "security"
      /\ h4 \in HypType /\ h4.cause = "throttled"
      /\ h5 \in HypType /\ h5.cause = "memory"
  BY DEF Hypothesis, HypType, AllCauses, LogCauses
<1> HIDE DEF h1, h2, h3, h4, h5
<1>2. LambdaRules = <<h1, h2, h3, h4, h5>>
  BY DEF LambdaRules, h1, h2, h3, h4, h5
<1>3. /\ DOMAIN LambdaRules = 1 .. 5
      /\ LambdaRules[1] = h1 /\ LambdaRules[2] = h2 /\ LambdaRules[3] = h3
      /\ LambdaRules[4] = h4 /\ LambdaRules[5] = h5
  BY <1>2
<1>4. \A i \in 1 .. 5 : i = 1 \/ i = 2 \/ i = 3 \/ i = 4 \/ i = 5
  OBVIOUS
<1>5. 1 \in 1 .. 5 /\ 2 \in 1 .. 5 /\ 3 \in 1 .. 5 /\ 4 \in 1 .. 5 /\ 5 \in 1 .. 5
  OBVIOUS
<1>6. \A i \in 1 .. 5 : LambdaRules[i] \in HypType
  BY <1>1, <1>3, <1>4
<1>7. {LambdaRules[i].cause : i \in 1 .. 5} = LogCauses
  BY <1>1, <1>3, <1>4, <1>5 DEF LogCauses
<1>8. \A i, j \in 1 .. 5 : i # j => LambdaRules[i].cause # LambdaRules[j].cause
  BY <1>1, <1>3, <1>4
<1>9. \A i \in 1 .. 5 : LambdaRules[i].category = "reliability" =>
        LambdaRules[i].cause \notin {"import", "access"}
  BY <1>1, <1>3, <1>4
<1>10. QED BY <1>3, <1>6, <1>7, <1>8, <1>9

\* What the log tells: a hypothesis for every line of a kind the rules know, and
\* for lines of errors where there is no other.
LEMMA LogsAre ==
  ASSUME NEW service, NEW signals
  PROVE  LET u == OfLogs(service, signals) IN
         /\ Once(u)
         /\ \A h \in ToSet(u) :
              /\ h.cause \in LogCauses \cup {"errors"}
              /\ h.category = "reliability" => h.cause \notin {"import", "access"}
              /\ signals.logs # {} \/ signals.alarms # {}
         /\ service = "lambda" /\ signals.logs \cap (LogCauses \cup {"errors"}) # {} => ToSet(u) # {}
<1> DEFINE shown == signals.logs \cup IF "throttles" \in signals.alarms THEN {"throttled"} ELSE {}
           K == {i \in DOMAIN LambdaRules : LambdaRules[i].cause \in shown}
           found == Among(LambdaRules, K)
           u == OfLogs(service, signals)
<1>1. /\ service # "lambda" => u = <<>>
      /\ service = "lambda" /\ found = <<>> /\ "errors" \in signals.logs => u = <<Unhandled>>
      /\ service = "lambda" /\ ~(found = <<>> /\ "errors" \in signals.logs) => u = found
  BY Zenon DEF OfLogs
<1>2. K \in SUBSET Nat /\ IsFiniteSet(K)
  <2>1. K \subseteq DOMAIN LambdaRules
    OBVIOUS
  <2> HIDE DEF K
  <2>2. QED BY <2>1, LambdaRulesAre, PlacesAre
<1>3. Sorts(found, LambdaRules, K, [i \in K |-> 0])
  BY <1>2, AmongKeeps
<1>4. \A i \in K : i \in 1 .. 5 /\ LambdaRules[i].cause \in shown
  BY LambdaRulesAre
<1>5. \A c \in shown \cap LogCauses : \E i \in K : LambdaRules[i].cause = c
  BY LambdaRulesAre
<1>6. /\ "throttles" \notin signals.alarms => shown = signals.logs
      /\ signals.logs \subseteq shown
  OBVIOUS
<1> HIDE DEF K, shown, found, u
<1>7. Once(found) /\ (found = <<>> <=> K = {}) /\ ToSet(found) = {LambdaRules[i] : i \in K}
  <2>1. /\ \A i \in K : LambdaRules[i] \in HypType
        /\ \A i, j \in K : i # j => LambdaRules[i].cause # LambdaRules[j].cause
    BY <1>4, LambdaRulesAre
  <2>2. Once(found)
    BY <1>3, <2>1, OnceSorted
  <2>3. found = <<>> <=> K = {}
    BY <1>3, <2>1, SortedSeq
  <2>4. QED BY <1>3, <2>2, <2>3 DEF Sorts
<1>8. Unhandled \in HypType /\ Unhandled.cause = "errors"
  BY DEF Unhandled, Hypothesis, HypType, AllCauses
<1>9. Once(u) /\ (u = <<>> \/ u = <<Unhandled>> \/ u = found)
  BY <1>1, <1>7, <1>8, OnceNone, OnceOne
<1>10. ASSUME NEW h \in ToSet(u)
       PROVE  /\ h.cause \in LogCauses \cup {"errors"}
              /\ h.category = "reliability" => h.cause \notin {"import", "access"}
              /\ signals.logs # {} \/ signals.alarms # {}
  <2>1. CASE u = found
    <3>1. PICK i \in K : h = LambdaRules[i]
      BY <1>7, <2>1
    <3>2. i \in 1 .. 5 /\ h.cause \in shown
      BY <1>4, <3>1
    <3>3. h.cause \in LogCauses
      BY <3>1, <3>2, LambdaRulesAre
    <3>4. h.category = "reliability" => h.cause \notin {"import", "access"}
      BY <3>1, <3>2, LambdaRulesAre
    <3>5. signals.logs # {} \/ signals.alarms # {}
      BY <1>6, <3>2
    <3>6. QED BY <3>3, <3>4, <3>5
  <2>2. CASE u = <<Unhandled>> /\ "errors" \in signals.logs
    <3>1. h = Unhandled
      BY <1>8, <2>2, OnceOne
    <3>2. QED BY <1>8, <2>2, <3>1
  <2>3. u # <<>>
    BY OnceNone
  <2>4. QED BY <1>1, <2>1, <2>2, <2>3
<1>11. ASSUME service = "lambda", signals.logs \cap (LogCauses \cup {"errors"}) # {} PROVE ToSet(u) # {}
  <2>1. CASE found = <<>> /\ "errors" \in signals.logs
    BY <1>1, <1>8, <1>11, <2>1, OnceOne
  <2>2. CASE ~(found = <<>> /\ "errors" \in signals.logs)
    <3>1. u = found
      BY <1>1, <1>11, <2>2
    <3>2. K # {}
      BY <1>5, <1>6, <1>7, <1>11, <2>2
    <3>3. QED BY <1>7, <3>1, <3>2
  <2>3. QED BY <2>1, <2>2
<1>12. QED BY <1>9, <1>10, <1>11 DEF u

\* A sequence without items is the empty one.
LEMMA EmptyIs ==
  ASSUME NEW E, NEW s \in Seq(E)
  PROVE  s = <<>> <=> ToSet(s) = {}
<1>1. s = <<>> => ToSet(s) = {}
  BY DEF ToSet
<1>2. ASSUME s # <<>> PROVE ToSet(s) # {}
  <2>1. 1 \in DOMAIN s
    BY <1>2
  <2>2. QED BY <2>1 DEF ToSet
<1>3. QED BY <1>1, <1>2

\* What an alarm about errors tells: it has a hypothesis, or the log has one
\* that explains it.
LEMMA ErrorsAre ==
  ASSUME NEW hyps, NEW signals,
         \A h \in ToSet(hyps) :
           /\ h.cause \in LogCauses \cup {"errors"}
           /\ h.category = "reliability" => h.cause \notin {"import", "access"}
  PROVE  LET u == OfErrors(hyps, signals) IN
         /\ Once(u)
         /\ \A h \in ToSet(u) : h.cause = "errorrate" /\ "errors" \in signals.alarms
         /\ "errors" \in signals.alarms =>
              \E h \in ToSet(hyps) \cup ToSet(u) : h.cause \notin {"import", "access", "change"}
<1> DEFINE u == OfErrors(hyps, signals)  e == Hypothesis("errorrate", "medium", "reliability", FALSE)
<1>1. e \in HypType /\ e.cause = "errorrate"
  BY DEF Hypothesis, HypType, AllCauses
<1> HIDE DEF e
<1>2. Once(<<e>>) /\ ToSet(<<e>>) = {e}
  BY <1>1, OnceOne
<1>3. CASE "errors" \in signals.alarms /\ \A h \in ToSet(hyps) : h.category # "reliability"
  <2>1. u = <<e>>
    BY <1>3 DEF OfErrors, e
  <2> HIDE DEF u
  <2>2. QED BY <1>1, <1>2, <1>3, <2>1 DEF u
<1>4. CASE ~("errors" \in signals.alarms /\ \A h \in ToSet(hyps) : h.category # "reliability")
  <2>1. u = <<>>
    BY <1>4 DEF OfErrors
  <2> HIDE DEF u
  <2>2. Once(u) /\ ToSet(u) = {}
    BY <2>1, OnceNone
  <2>3. ASSUME "errors" \in signals.alarms
        PROVE  \E h \in ToSet(hyps) : h.cause \notin {"import", "access", "change"}
    <3>1. PICK h \in ToSet(hyps) : h.category = "reliability"
      BY <1>4, <2>3
    <3>2. h.cause \notin {"import", "access"} /\ h.cause # "change"
      BY <3>1 DEF LogCauses
    <3>3. QED BY <3>2
  <2>4. QED BY <2>2, <2>3 DEF u
<1>5. QED BY <1>3, <1>4

\* What the other alarms tell: each that a rule knows has the hypothesis of the rule.
LEMMA AlarmsAre ==
  ASSUME NEW signals
  PROVE  LET u == OfAlarms(signals) IN
         /\ Once(u)
         /\ \A h \in ToSet(u) : h.cause \in {"status", "storage"} /\ signals.alarms # {}
         /\ \A r \in ToSet(AlarmRules) : r.metric \in signals.alarms => r.says \in ToSet(u)
<1> DEFINE K == {i \in DOMAIN AlarmRules : AlarmRules[i].metric \in signals.alarms}
           on == Among(AlarmRules, K)
           u == OfAlarms(signals)
           s1 == Hypothesis("status", "high", "reliability", TRUE)
           s2 == Hypothesis("storage", "high", "reliability", TRUE)
<1>1. /\ s1 \in HypType /\ s1.cause = "status"
      /\ s2 \in HypType /\ s2.cause = "storage"
  BY DEF Hypothesis, HypType, AllCauses
<1>2. AlarmRules = <<[metric |-> "statuscheckfailed", says |-> s1],
                     [metric |-> "freestoragespace", says |-> s2]>>
  BY DEF AlarmRules
<1> HIDE DEF s1, s2
<1>3. /\ DOMAIN AlarmRules = 1 .. 2
      /\ AlarmRules[1].says = s1 /\ AlarmRules[2].says = s2
  BY <1>2
<1>4. \A i \in 1 .. 2 : i = 1 \/ i = 2
  OBVIOUS
<1>5. /\ \A i \in 1 .. 2 : AlarmRules[i].says \in HypType /\ AlarmRules[i].says.cause \in {"status", "storage"}
      /\ \A i, j \in 1 .. 2 : i # j => AlarmRules[i].says.cause # AlarmRules[j].says.cause
  BY <1>1, <1>3, <1>4
<1>6. K \in SUBSET Nat /\ IsFiniteSet(K) /\ K \subseteq 1 .. 2
  <2>1. K \subseteq DOMAIN AlarmRules
    OBVIOUS
  <2> HIDE DEF K
  <2>2. QED BY <1>3, <2>1, PlacesAre
<1>7. Sorts(on, AlarmRules, K, [i \in K |-> 0])
  BY <1>6, AmongKeeps
<1>8. u = [p \in DOMAIN on |-> on[p].says]
  BY DEF OfAlarms
<1>9. /\ \A i \in K : signals.alarms # {}
      /\ \A r \in ToSet(AlarmRules) : r.metric \in signals.alarms => \E i \in K : r = AlarmRules[i]
  BY DEF ToSet
<1> HIDE DEF K, on, u
<1> DEFINE n == Cardinality(K)
<1>10. n \in Nat /\ DOMAIN on = 1 .. n /\ ToSet(on) = {AlarmRules[i] : i \in K}
  BY <1>7 DEF Sorts
<1>11. u = [p \in 1 .. n |-> on[p].says]
  BY <1>8, <1>10
<1>12. \A p \in 1 .. n : \E i \in K : on[p] = AlarmRules[i]
  BY <1>10 DEF ToSet
<1> HIDE DEF n
<1>13. \A p \in 1 .. n : /\ u[p] = on[p].says /\ u[p] \in HypType
                         /\ u[p].cause \in {"status", "storage"} /\ signals.alarms # {}
  BY <1>5, <1>6, <1>9, <1>11, <1>12
<1>14. u \in Seq(HypType) /\ DOMAIN u = 1 .. n
  BY <1>10, <1>11, <1>13
<1>15. ASSUME NEW p \in 1 .. n, NEW q \in 1 .. n, p < q PROVE u[p].cause # u[q].cause
  <2>1. PICK i, j \in K : i # j /\ on[p] = AlarmRules[i] /\ on[q] = AlarmRules[j]
    BY <1>7, <1>15 DEF Sorts, n
  <2>2. QED BY <1>5, <1>6, <1>13, <2>1
<1>16. Once(u)
  BY <1>14, <1>15 DEF Once
<1>17. \A h \in ToSet(u) : h.cause \in {"status", "storage"} /\ signals.alarms # {}
  BY <1>13, <1>14 DEF ToSet
<1>18. ASSUME NEW r \in ToSet(AlarmRules), r.metric \in signals.alarms PROVE r.says \in ToSet(u)
  <2>1. r \in ToSet(on)
    BY <1>9, <1>10, <1>18
  <2>2. PICK p \in 1 .. n : on[p] = r
    BY <1>10, <2>1 DEF ToSet
  <2>3. QED BY <1>13, <1>14, <2>2 DEF ToSet
<1>19. QED BY <1>16, <1>17, <1>18 DEF u

\* The hypotheses have a cause each, blame a change only beside a fault, and
\* leave no alarm and no line unexplained that the rules know.
Correlated(c, service, signals) ==
  /\ Once(c)
  /\ (\E h \in ToSet(c) : h.cause = "change") <=>
       signals.changes # <<>> /\ \E h \in ToSet(c) : h.cause # "change"
  /\ signals.logs = {} /\ signals.alarms = {} => ToSet(c) = {}
  /\ service = "lambda" /\ signals.logs \cap (LogCauses \cup {"errors"}) # {} => ToSet(c) # {}
  /\ \A r \in ToSet(AlarmRules) : r.metric \in signals.alarms => r.says \in ToSet(c)
  /\ "errors" \in signals.alarms =>
       \E h \in ToSet(c) : h.cause \notin {"import", "access", "change"}

\* That is what correlate gives.
LEMMA CorrelateIs ==
  ASSUME NEW service, NEW signals
  PROVE  Correlated(Correlate(service, signals), service, signals)
<1> DEFINE l == OfLogs(service, signals)  e == OfErrors(l, signals)  a == OfAlarms(signals)
           u == l \o e  hyps == u \o a
           c == Correlate(service, signals)
<1>1. /\ Once(l)
      /\ \A h \in ToSet(l) :
           /\ h.cause \in LogCauses \cup {"errors"}
           /\ h.category = "reliability" => h.cause \notin {"import", "access"}
           /\ signals.logs # {} \/ signals.alarms # {}
      /\ service = "lambda" /\ signals.logs \cap (LogCauses \cup {"errors"}) # {} => ToSet(l) # {}
  BY LogsAre
<1>2. /\ Once(e)
      /\ \A h \in ToSet(e) : h.cause = "errorrate" /\ "errors" \in signals.alarms
      /\ "errors" \in signals.alarms =>
           \E h \in ToSet(l) \cup ToSet(e) : h.cause \notin {"import", "access", "change"}
  <2> HIDE DEF l
  <2>1. QED BY <1>1, ErrorsAre
<1>3. /\ Once(a)
      /\ \A h \in ToSet(a) : h.cause \in {"status", "storage"} /\ signals.alarms # {}
      /\ \A r \in ToSet(AlarmRules) : r.metric \in signals.alarms => r.says \in ToSet(a)
  BY AlarmsAre
<1>4. c = IF hyps # <<>> /\ signals.changes # <<>> THEN Append(hyps, Change) ELSE hyps
  BY Zenon DEF Correlate
<1> HIDE DEF l, e, a, c
<1>5. Once(u) /\ ToSet(u) = ToSet(l) \cup ToSet(e)
  BY <1>1, <1>2, OnceBoth DEF LogCauses
<1> HIDE DEF u
<1>6. Once(hyps) /\ ToSet(hyps) = ToSet(l) \cup ToSet(e) \cup ToSet(a)
  <2>1. \A h \in ToSet(u) : \A k \in ToSet(a) : h.cause # k.cause
    BY <1>1, <1>2, <1>3, <1>5 DEF LogCauses
  <2>2. QED BY <1>3, <1>5, <2>1, OnceBoth
<1> HIDE DEF hyps
<1>7. \A h \in ToSet(hyps) : h.cause # "change" /\ (signals.logs # {} \/ signals.alarms # {})
  BY <1>1, <1>2, <1>3, <1>6 DEF LogCauses
<1>8. Change \in HypType /\ Change.cause = "change"
  BY DEF Change, Hypothesis, HypType, AllCauses
<1>9. hyps \in Seq(HypType) /\ (hyps = <<>> <=> ToSet(hyps) = {})
  <2>1. hyps \in Seq(HypType)
    BY <1>6 DEF Once
  <2>2. QED BY <2>1, EmptyIs
<1>10. CASE hyps # <<>> /\ signals.changes # <<>>
  <2>1. c = hyps \o <<Change>>
    BY <1>4, <1>9, <1>10
  <2>2. Once(<<Change>>) /\ ToSet(<<Change>>) = {Change}
    BY <1>8, OnceOne
  <2>3. Once(c) /\ ToSet(c) = ToSet(hyps) \cup {Change}
    BY <1>6, <1>7, <1>8, <2>1, <2>2, OnceBoth
  <2>4. (\E h \in ToSet(c) : h.cause = "change") /\ \E h \in ToSet(c) : h.cause # "change"
    BY <1>7, <1>8, <1>9, <1>10, <2>3
  <2>5. ~(signals.logs = {} /\ signals.alarms = {})
    BY <1>7, <1>9, <1>10
  <2>6. /\ \A r \in ToSet(AlarmRules) : r.metric \in signals.alarms => r.says \in ToSet(c)
        /\ service = "lambda" /\ signals.logs \cap (LogCauses \cup {"errors"}) # {} => ToSet(c) # {}
    BY <1>1, <1>3, <1>6, <2>3
  <2>7. "errors" \in signals.alarms =>
          \E h \in ToSet(c) : h.cause \notin {"import", "access", "change"}
    BY <1>2, <1>6, <2>3
  <2>8. (\E h \in ToSet(c) : h.cause = "change") <=>
          signals.changes # <<>> /\ \E h \in ToSet(c) : h.cause # "change"
    BY <1>10, <2>4
  <2>9. signals.logs = {} /\ signals.alarms = {} => ToSet(c) = {}
    BY <2>5
  <2>10. QED BY <2>3, <2>6, <2>7, <2>8, <2>9, Zenon DEF Correlated, c
<1>11. CASE ~(hyps # <<>> /\ signals.changes # <<>>)
  <2>1. c = hyps
    BY <1>4, <1>11
  <2>2. ~(\E h \in ToSet(c) : h.cause = "change")
    BY <1>7, <2>1
  <2>3. ~(signals.changes # <<>> /\ \E h \in ToSet(c) : h.cause # "change")
    BY <1>9, <1>11, <2>1
  <2>4. signals.logs = {} /\ signals.alarms = {} => ToSet(c) = {}
    BY <1>7, <2>1
  <2>5. /\ \A r \in ToSet(AlarmRules) : r.metric \in signals.alarms => r.says \in ToSet(c)
        /\ service = "lambda" /\ signals.logs \cap (LogCauses \cup {"errors"}) # {} => ToSet(c) # {}
    BY <1>1, <1>3, <1>6, <2>1
  <2>6. "errors" \in signals.alarms =>
          \E h \in ToSet(c) : h.cause \notin {"import", "access", "change"}
    BY <1>2, <1>6, <2>1
  <2>7. (\E h \in ToSet(c) : h.cause = "change") <=>
          signals.changes # <<>> /\ \E h \in ToSet(c) : h.cause # "change"
    BY <2>2, <2>3
  <2>8. Once(c)
    BY <1>6, <2>1
  <2>9. QED BY <2>4, <2>5, <2>6, <2>7, <2>8, Zenon DEF Correlated, c
<1>12. QED BY <1>10, <1>11 DEF c

\* The surest first, and nothing gets lost.
LEMMA RankedIs ==
  ASSUME NEW u, Once(u)
  PROVE  LET t == Ranked(u) IN
         /\ Once(t) /\ ToSet(t) = ToSet(u)
         /\ \A i, j \in DOMAIN t : i < j /\ t[j].confidence = "high" => t[i].confidence = "high"
<1> DEFINE K == DOMAIN u
           worth == [i \in K |-> IF u[i].confidence = "high" THEN 1 ELSE 0]
           t == Ranked(u)
<1>1. /\ u \in Seq(HypType)
      /\ \A i, j \in K : i < j => u[i].cause # u[j].cause
      /\ \A i \in K : u[i] \in HypType
      /\ K = 1 .. Len(u) /\ Len(u) \in Nat
  BY DEF Once
<1>2. worth \in [K -> Int] /\ \A i \in K : worth[i] = IF u[i].confidence = "high" THEN 1 ELSE 0
  OBVIOUS
<1>3. t = Descending(u, worth)
  BY DEF Ranked
<1>4. \A i, j \in K : i # j => u[i].cause # u[j].cause
  <2>1. \A i, j \in K : i # j => i < j \/ j < i
    BY <1>1
  <2> HIDE DEF K
  <2>2. QED BY <1>1, <2>1
<1>5. ToSet(u) = {u[i] : i \in K}
  BY DEF ToSet
<1> HIDE DEF K, worth, t
<1>6. K \in SUBSET Nat /\ IsFiniteSet(K)
  BY <1>1, PlacesAre
<1>7. Sorts(t, u, K, worth)
  BY <1>2, <1>3, <1>6, DescendingSorts
<1>8. Once(t) /\ ToSet(t) = ToSet(u)
  <2>1. Once(t)
    BY <1>1, <1>4, <1>7, OnceSorted
  <2>2. ToSet(t) = {u[i] : i \in K}
    BY <1>7 DEF Sorts
  <2>3. QED BY <1>5, <2>1, <2>2
<1>9. ASSUME NEW p \in DOMAIN t, NEW q \in DOMAIN t, p < q, t[q].confidence = "high"
      PROVE  t[p].confidence = "high"
  <2>1. DOMAIN t = 1 .. Cardinality(K)
    BY <1>7 DEF Sorts
  <2>2. PICK i, j \in K : t[p] = u[i] /\ t[q] = u[j] /\ worth[i] >= worth[j]
    BY <1>7, <1>9, <2>1 DEF Sorts
  <2>3. worth[j] = 1
    BY <1>2, <1>9, <2>2
  <2>4. worth[i] # 0
    BY <2>2, <2>3
  <2>5. QED BY <1>2, <2>2, <2>4
<1>10. QED BY <1>8, <1>9 DEF t

\* What the world shows of the resource.
LEMMA SignalsAre ==
  ASSUME NEW w, IsDiagnosisWorld(w)
  PROVE  LET signals == Signals(w) IN
         /\ w.service = "lambda" /\ signals.logs \ {"other"} # {} =>
              signals.logs \cap (LogCauses \cup {"errors"}) # {}
         /\ \A a \in w.alarms : a.about = w.resource /\ "alarms" \notin w.fails =>
              a.metric \in signals.alarms
         /\ \A e \in ToSet(signals.changes) : e # "read"
         /\ signals.changes = <<>> <=> ToSet(signals.changes) = {}
<1> DEFINE signals == Signals(w)
           K == {i \in DOMAIN w.events : w.events[i] # "read"}
           kept == Among(w.events, K)
<1>1. /\ signals.logs = RecentLogErrors(w)
      /\ signals.alarms = ActiveAlarms(w)
      /\ signals.changes = RecentChanges(w)
  BY DEF Signals
<1>2. RecentChanges(w) = IF "trail" \in w.fails THEN <<>> ELSE kept
  BY DEF RecentChanges
<1> HIDE DEF signals
<1>3. w.service = "lambda" /\ signals.logs \ {"other"} # {} =>
        signals.logs \cap (LogCauses \cup {"errors"}) # {}
  BY <1>1 DEF RecentLogErrors, IsDiagnosisWorld, LogKinds, LogCauses
<1>4. \A a \in w.alarms : a.about = w.resource /\ "alarms" \notin w.fails =>
        a.metric \in signals.alarms
  BY <1>1 DEF ActiveAlarms
<1>5. PICK n \in Nat : n = Len(w.events) /\ DOMAIN w.events = 1 .. n
  BY DEF IsDiagnosisWorld
<1>6. \A i \in K : w.events[i] # "read"
  OBVIOUS
<1>7. K \in SUBSET Nat /\ IsFiniteSet(K)
  <2>1. K \subseteq DOMAIN w.events
    OBVIOUS
  <2> HIDE DEF K
  <2>2. QED BY <1>5, <2>1, PlacesAre
<1>8. Sorts(kept, w.events, K, [i \in K |-> 0])
  BY <1>7, AmongKeeps
<1> HIDE DEF K, kept
<1> DEFINE E == {w.events[i] : i \in K}
<1>9. ToSet(kept) = E /\ kept \in Seq(E)
  <2>1. \A i \in K : w.events[i] \in E
    OBVIOUS
  <2>2. ToSet(kept) = E
    BY <1>8 DEF Sorts
  <2> HIDE DEF E
  <2>3. QED BY <1>8, <2>1, <2>2, SortedSeq
<1>10. /\ \A e \in ToSet(kept) : e # "read"
       /\ kept = <<>> <=> ToSet(kept) = {}
  <2>1. \A e \in E : e # "read"
    BY <1>6
  <2> HIDE DEF E
  <2>2. QED BY <1>9, <2>1, EmptyIs
<1>11. /\ \A e \in ToSet(signals.changes) : e # "read"
       /\ signals.changes = <<>> <=> ToSet(signals.changes) = {}
  <2>1. CASE "trail" \in w.fails
    <3>1. signals.changes = <<>>
      BY <1>1, <1>2, <2>1
    <3>2. QED BY <3>1, OnceNone
  <2>2. CASE "trail" \notin w.fails
    <3>1. signals.changes = kept
      BY <1>1, <1>2, <2>2
    <3>2. QED BY <1>10, <3>1
  <2>3. QED BY <2>1, <2>2
<1>12. QED BY <1>3, <1>4, <1>11 DEF signals

\* Whatever fails and whatever the resource has: its diagnosis explains it.
LEMMA DiagnosisExplains ==
  ASSUME NEW w, IsDiagnosisWorld(w), NEW m
  PROVE  Explains(DiagnoseService(w, m), w)
<1> DEFINE d == DiagnoseService(w, m)  signals == Signals(w)
           c == Correlate(w.service, signals)  t == Ranked(c)
           shown == [i \in DOMAIN t |-> Shaped(t[i], NormalizeMode(m))]
<1>1. /\ d.signals = signals /\ d.healthy = (t = <<>>) /\ d.hypotheses = shown
      /\ d.notes = Notes(w, signals)
  BY DEF DiagnoseService
<1>2. Correlated(c, w.service, signals)
  BY CorrelateIs
<1>3. /\ Once(t) /\ ToSet(t) = ToSet(c)
      /\ \A i, j \in DOMAIN t : i < j /\ t[j].confidence = "high" => t[i].confidence = "high"
  <2> HIDE DEF c
  <2>1. QED BY <1>2, RankedIs DEF Correlated
<1>4. /\ w.service = "lambda" /\ signals.logs \ {"other"} # {} =>
           signals.logs \cap (LogCauses \cup {"errors"}) # {}
      /\ \A a \in w.alarms : a.about = w.resource /\ "alarms" \notin w.fails =>
           a.metric \in signals.alarms
      /\ \A e \in ToSet(signals.changes) : e # "read"
      /\ signals.changes = <<>> <=> ToSet(signals.changes) = {}
  BY SignalsAre
<1>5. \A i \in DOMAIN t : /\ shown[i].cause = t[i].cause
                          /\ shown[i].confidence = t[i].confidence
  BY DEF Shaped
<1>6. DOMAIN shown = DOMAIN t
  OBVIOUS
<1>7. signals = [alarms |-> {}, logs |-> {}, changes |-> <<>>] =>
        signals.logs = {} /\ signals.alarms = {}
  OBVIOUS
<1>8. "nofault" \in d.notes => signals.logs = {} /\ signals.alarms = {}
  <2>1. "nofault" \notin {"config"} /\ "nofault" \notin {"nologs"}
    OBVIOUS
  <2> HIDE DEF signals, d
  <2>2. QED BY <1>1, <1>7, <2>1 DEF Notes
<1> HIDE DEF d, signals, c, t, shown
<1>9. \A x : x \in Causes(d) <=> \E h \in ToSet(c) : h.cause = x
  <2>1. Causes(d) = {h.cause : h \in ToSet(shown)}
    BY <1>1 DEF Causes
  <2>2. ToSet(shown) = {shown[i] : i \in DOMAIN t} /\ ToSet(t) = {t[i] : i \in DOMAIN t}
    BY <1>6 DEF ToSet
  <2>3. QED BY <1>3, <1>5, <2>1, <2>2
<1>10. d.healthy <=> ToSet(c) = {}
  BY <1>1, <1>3, EmptyIs DEF Once
<1>11. ASSUME NEW i \in DOMAIN d.hypotheses, NEW j \in DOMAIN d.hypotheses, i < j
       PROVE  /\ d.hypotheses[i].cause # d.hypotheses[j].cause
              /\ d.hypotheses[j].confidence = "high" => d.hypotheses[i].confidence = "high"
  BY <1>1, <1>3, <1>5, <1>6, <1>11 DEF Once
<1>12. ASSUME NEW a \in w.alarms, a.about = w.resource, "alarms" \notin w.fails
       PROVE  /\ \A r \in ToSet(AlarmRules) : r.metric = a.metric => r.says.cause \in Causes(d)
              /\ a.metric = "errors" => Causes(d) \ {"import", "access", "change"} # {}
  <2>1. a.metric \in signals.alarms
    BY <1>4, <1>12
  <2>2. ASSUME NEW r \in ToSet(AlarmRules), r.metric = a.metric PROVE r.says.cause \in Causes(d)
    <3>1. r.says \in ToSet(c)
      BY <1>2, <2>1, <2>2 DEF Correlated
    <3>2. QED BY <1>9, <3>1
  <2>3. ASSUME a.metric = "errors" PROVE Causes(d) \ {"import", "access", "change"} # {}
    <3>1. PICK h \in ToSet(c) : h.cause \notin {"import", "access", "change"}
      BY <1>2, <2>1, <2>3 DEF Correlated
    <3>2. h.cause \in Causes(d)
      BY <1>9
    <3>3. QED BY <3>1, <3>2
  <2>4. QED BY <2>2, <2>3
<1>13. w.service = "lambda" /\ d.signals.logs \ {"other"} # {} => ~d.healthy
  BY <1>1, <1>2, <1>4, <1>10 DEF Correlated
<1>14. "change" \in Causes(d) <=>
         Causes(d) \ {"change"} # {} /\ \E e \in ToSet(d.signals.changes) : e # "read"
  <2>1. "change" \in Causes(d) <=> \E h \in ToSet(c) : h.cause = "change"
    BY <1>9
  <2>2. Causes(d) \ {"change"} # {} <=> \E h \in ToSet(c) : h.cause # "change"
    BY <1>9
  <2>3. (\E e \in ToSet(d.signals.changes) : e # "read") <=> signals.changes # <<>>
    BY <1>1, <1>4
  <2>4. (\E h \in ToSet(c) : h.cause = "change") <=>
          signals.changes # <<>> /\ \E h \in ToSet(c) : h.cause # "change"
    BY <1>2 DEF Correlated
  <2>5. QED BY <2>1, <2>2, <2>3, <2>4
<1>15. "nofault" \in d.notes => d.healthy
  BY <1>2, <1>8, <1>10 DEF Correlated
<1>16. QED BY <1>11, <1>12, <1>13, <1>14, <1>15 DEF Explains, d

\* It shows a command only under a posture that shows commands.
LEMMA DiagnosisFollows ==
  ASSUME NEW w, NEW m \in Modes
  PROVE  FollowsPosture(DiagnoseService(w, m), m)
<1> DEFINE d == DiagnoseService(w, m)  t == Ranked(Correlate(w.service, Signals(w)))
<1>1. d.hypotheses = [i \in DOMAIN t |-> Shaped(t[i], NormalizeMode(m))]
  BY DEF DiagnoseService
<1>2. NormalizeMode(m) = m
  BY DEF NormalizeMode
<1> HIDE DEF d, t
<1>3. \A h \in ToSet(d.hypotheses) : \E i \in DOMAIN t : h = Shaped(t[i], m)
  BY <1>1, <1>2 DEF ToSet
<1>4. ASSUME NEW x
      PROVE  /\ Shaped(x, m).command => m # "advisory"
             /\ Shaped(x, m).command /\ m = "guarded_write" => Shaped(x, m).confirm
  BY DEF Shaped, CanGenerateArtifacts, CanApplyActions
<1>5. QED BY <1>3, <1>4 DEF FollowsPosture, d

-----------------------------------------------------------------------------
(* The review                                                              *)

Severities == {"critical", "high", "medium", "low", "info"}

\* A severity has a rank.
LEMMA RankIs == \A s \in Severities : Rank(s) \in 1 .. 5
<1>1. /\ DOMAIN Severity = 1 .. 5
      /\ Severity[1] = "critical" /\ Severity[2] = "high" /\ Severity[3] = "medium"
      /\ Severity[4] = "low" /\ Severity[5] = "info"
  BY DEF Severity
<1>2. 1 \in 1 .. 5 /\ 2 \in 1 .. 5 /\ 3 \in 1 .. 5 /\ 4 \in 1 .. 5 /\ 5 \in 1 .. 5
  OBVIOUS
<1>3. \A s \in Severities : \E i \in 1 .. 5 : Severity[i] = s
  BY <1>1, <1>2 DEF Severities
<1>4. \A s : Rank(s) = CHOOSE i \in 1 .. 5 : Severity[i] = s
  BY <1>1 DEF Rank
<1>5. QED BY <1>3, <1>4

\* Rules that are all different, each of a severity that is known.
Single(u, n) ==
  /\ n \in Nat /\ u = [i \in 1 .. n |-> u[i]]
  /\ \A i, j \in 1 .. n : i # j => u[i] # u[j]
  /\ \A i \in 1 .. n : u[i].severity \in Severities

\* The rules of each service have an id each.
LEMMA LambdaReviewIs == Single(LambdaReview, 8)
<1>1. LambdaReview = [i \in 1 .. 8 |-> LambdaReview[i]]
  BY DEF LambdaReview
<1>2. \A i \in 1 .. 8 : \A j \in 1 .. 8 : i # j => LambdaReview[i].id # LambdaReview[j].id
  BY DEF LambdaReview, Rule
<1>3. \A i \in 1 .. 8 : LambdaReview[i].severity \in Severities
  BY DEF LambdaReview, Rule, Severities
<1>4. QED BY <1>1, <1>2, <1>3 DEF Single

LEMMA Ec2ReviewIs == Single(Ec2Review, 6)
<1>1. Ec2Review = [i \in 1 .. 6 |-> Ec2Review[i]]
  BY DEF Ec2Review
<1>2. \A i \in 1 .. 6 : \A j \in 1 .. 6 : i # j => Ec2Review[i].id # Ec2Review[j].id
  BY DEF Ec2Review, Rule
<1>3. \A i \in 1 .. 6 : Ec2Review[i].severity \in Severities
  BY DEF Ec2Review, Rule, Severities
<1>4. QED BY <1>1, <1>2, <1>3 DEF Single

LEMMA RdsReviewIs == Single(RdsReview, 7)
<1>1. RdsReview = [i \in 1 .. 7 |-> RdsReview[i]]
  BY DEF RdsReview
<1>2. \A i \in 1 .. 7 : \A j \in 1 .. 7 : i # j => RdsReview[i].id # RdsReview[j].id
  BY DEF RdsReview, Rule
<1>3. \A i \in 1 .. 7 : RdsReview[i].severity \in Severities
  BY DEF RdsReview, Rule, Severities
<1>4. QED BY <1>1, <1>2, <1>3 DEF Single

LEMMA S3ReviewIs == Single(S3Review, 5)
<1>1. S3Review = [i \in 1 .. 5 |-> S3Review[i]]
  BY DEF S3Review
<1>2. \A i \in 1 .. 5 : \A j \in 1 .. 5 : i # j => S3Review[i].id # S3Review[j].id
  BY DEF S3Review, Rule
<1>3. \A i \in 1 .. 5 : S3Review[i].severity \in Severities
  BY DEF S3Review, Rule, Severities
<1>4. QED BY <1>1, <1>2, <1>3 DEF Single

\* So have those of any service, of which a service without a reviewer has none.
LEMMA RulesAre ==
  ASSUME NEW service
  PROVE  \E n \in Nat : Single(Rules(service), n)
<1>1. Single(<<>>, 0)
  BY DEF Single
<1>2. Rules(service) \in {LambdaReview, Ec2Review, RdsReview, S3Review, <<>>}
  BY DEF Rules
<1>3. QED BY <1>1, <1>2, LambdaReviewIs, Ec2ReviewIs, RdsReviewIs, S3ReviewIs

\* As many places as items that stand at them.
LEMMA SameNumber ==
  ASSUME NEW u, NEW n, Single(u, n), NEW I \in SUBSET (1 .. n)
  PROVE  Cardinality({u[i] : i \in I}) = Cardinality(I)
<1> DEFINE S == {u[i] : i \in I}  f == [i \in I |-> u[i]]
<1>1. IsFiniteSet(I)
  BY PlacesAre DEF Single
<1>2. \A i, j \in I : i # j => u[i] # u[j]
  BY DEF Single
<1>3. f \in [I -> S] /\ \A i \in I : f[i] = u[i]
  OBVIOUS
<1>4. \A x \in S : \E i \in I : f[i] = x
  OBVIOUS
<1> HIDE DEF S, f
<1>5. f \in Injection(I, S) /\ f \in Surjection(I, S)
  BY <1>2, <1>3, <1>4 DEF Injection, IsInjective, Surjection
<1>6. ExistsBijection(I, S)
  BY <1>5 DEF ExistsBijection, Bijection
<1>7. Cardinality(S) = Cardinality(I)
  BY <1>1, <1>6, FS_Bijection
<1>8. QED BY <1>7 DEF S

\* Rules that are all different are as many as their sequence is long.
LEMMA SingleSeq ==
  ASSUME NEW u, NEW n, Single(u, n)
  PROVE  /\ DOMAIN u = 1 .. n /\ n \in Nat /\ ToSet(u) = {u[i] : i \in 1 .. n}
         /\ u \in Seq(ToSet(u)) /\ Len(u) = n /\ Cardinality(ToSet(u)) = n
<1>1. DOMAIN u = 1 .. n /\ n \in Nat
  BY DEF Single
<1>2. ToSet(u) = {u[i] : i \in 1 .. n}
  BY <1>1 DEF ToSet
<1>3. \A i \in 1 .. n : u[i] \in ToSet(u)
  BY <1>2
<1>4. u \in Seq(ToSet(u)) /\ Len(u) = n
  BY <1>1, <1>3 DEF Single
<1>5. Cardinality(ToSet(u)) = n
  <2>1. Cardinality({u[i] : i \in 1 .. n}) = Cardinality(1 .. n)
    BY SameNumber
  <2>2. Cardinality(1 .. n) = n
    BY <1>1, FS_Interval
  <2>3. QED BY <1>2, <2>1, <2>2
<1>6. QED BY <1>1, <1>2, <1>4, <1>5

\* What is kept of such rules, in whatever order, is again such rules.
LEMMA SingleSorted ==
  ASSUME NEW u, NEW n, Single(u, n), NEW K \in SUBSET (1 .. n), NEW worth, NEW t, Sorts(t, u, K, worth)
  PROVE  Single(t, Cardinality(K))
<1> DEFINE m == Cardinality(K)
<1>1. m \in Nat /\ t = [p \in 1 .. m |-> t[p]] /\ ToSet(t) = {u[i] : i \in K}
  BY DEF Sorts
<1>2. ASSUME NEW p \in 1 .. m, NEW q \in 1 .. m, p < q PROVE t[p] # t[q]
  <2>1. PICK i, j \in K : i # j /\ t[p] = u[i] /\ t[q] = u[j]
    BY <1>2 DEF Sorts
  <2>2. QED BY <2>1 DEF Single
<1>3. ASSUME NEW p \in 1 .. m PROVE t[p].severity \in Severities
  <2>1. t[p] \in ToSet(t)
    BY <1>1 DEF ToSet
  <2>2. PICK i \in K : t[p] = u[i]
    BY <1>1, <2>1
  <2>3. QED BY <2>2 DEF Single
<1>4. \A p, q \in 1 .. m : p # q => t[p] # t[q]
  <2>1. \A p, q \in 1 .. m : p # q => p < q \/ q < p
    BY <1>1
  <2> HIDE DEF m
  <2>2. QED BY <1>2, <2>1
<1>5. QED BY <1>1, <1>3, <1>4 DEF Single

\* The findings are rules of the service that fire.
LEMMA FoundAre ==
  ASSUME NEW service, NEW w
  PROVE  /\ \E n \in Nat : Single(Findings(service, w), n)
         /\ \A f \in ToSet(Findings(service, w)) : Fires(f, w)
<1> DEFINE R == Rules(service)
           K == {i \in DOMAIN R : Fires(R[i], w)}
           found == Findings(service, w)
<1>1. PICK n \in Nat : Single(R, n)
  BY RulesAre
<1>2. found = IF Unread(service, w) THEN <<>> ELSE Among(R, K)
  BY DEF Findings
<1>3. K \subseteq DOMAIN R /\ \A i \in K : Fires(R[i], w)
  OBVIOUS
<1> HIDE DEF R, K, found
<1>4. K \in SUBSET (1 .. n) /\ K \in SUBSET Nat /\ IsFiniteSet(K)
  BY <1>1, <1>3, SingleSeq, PlacesAre
<1>5. CASE Unread(service, w)
  <2>1. found = <<>>
    BY <1>2, <1>5
  <2>2. Single(found, 0) /\ ToSet(found) = {}
    BY <2>1 DEF Single, ToSet
  <2>3. QED BY <2>2 DEF found
<1>6. CASE ~Unread(service, w)
  <2>1. Sorts(found, R, K, [i \in K |-> 0])
    BY <1>2, <1>4, <1>6, AmongKeeps
  <2>2. Single(found, Cardinality(K)) /\ Cardinality(K) \in Nat
    BY <1>1, <1>4, <2>1, SingleSorted DEF Sorts
  <2>3. \A f \in ToSet(found) : Fires(f, w)
    BY <1>3, <2>1 DEF Sorts
  <2>4. QED BY <2>2, <2>3 DEF found
<1>7. QED BY <1>5, <1>6

\* Sorted, they are the same findings, none before one that is worse.
LEMMA SortedFindingsAre ==
  ASSUME NEW u, NEW n, Single(u, n)
  PROVE  LET t == SortedFindings(u) IN
         /\ Single(t, n) /\ ToSet(t) = ToSet(u)
         /\ \A p, q \in 1 .. n : p < q => Rank(t[p].severity) <= Rank(t[q].severity)
<1> DEFINE K == DOMAIN u  t == SortedFindings(u)
           worth == [i \in K |-> -Rank(u[i].severity)]
<1>1. t = Descending(u, worth)
  BY DEF SortedFindings
<1>2. K = 1 .. n /\ n \in Nat /\ ToSet(u) = {u[i] : i \in K} /\ Cardinality(K) = n
  <2>1. K = 1 .. n /\ n \in Nat /\ ToSet(u) = {u[i] : i \in K}
    BY SingleSeq
  <2>2. n \in Nat => Cardinality(1 .. n) = n
    BY FS_Interval
  <2> HIDE DEF K
  <2>3. QED BY <2>1, <2>2
<1>3. \A i \in K : Rank(u[i].severity) \in Int
  BY <1>2, RankIs DEF Single
<1>4. worth \in [K -> Int] /\ \A i \in K : worth[i] = -Rank(u[i].severity)
  BY <1>3
<1> HIDE DEF K, t, worth
<1>5. K \in SUBSET Nat /\ IsFiniteSet(K)
  BY <1>2, PlacesAre
<1>6. Sorts(t, u, K, worth)
  BY <1>1, <1>4, <1>5, DescendingSorts
<1>7. Single(t, n)
  BY <1>2, <1>6, SingleSorted
<1>8. ToSet(t) = ToSet(u)
  BY <1>2, <1>6 DEF Sorts
<1>9. ASSUME NEW p \in 1 .. n, NEW q \in 1 .. n, p < q
      PROVE  Rank(t[p].severity) <= Rank(t[q].severity)
  <2>1. PICK i, j \in K : t[p] = u[i] /\ t[q] = u[j] /\ worth[i] >= worth[j]
    BY <1>2, <1>6, <1>9 DEF Sorts
  <2>2. -Rank(u[i].severity) >= -Rank(u[j].severity)
    BY <1>4, <2>1
  <2>3. Rank(u[i].severity) \in Int /\ Rank(u[j].severity) \in Int
    BY <1>3
  <2>4. Rank(u[i].severity) <= Rank(u[j].severity)
    BY <2>2, <2>3
  <2>5. QED BY <2>1, <2>4
<1>10. QED BY <1>7, <1>8, <1>9 DEF t

\* c has the first ones of u: all of them, or as many as the limit allows.
First(c, u, n, limit) ==
  \E k \in 0 .. n : /\ Single(c, k) /\ \A i \in 1 .. k : c[i] = u[i]
                    /\ k = n \/ k = limit

\* The cut leaves the first ones.
LEMMA CutIs ==
  ASSUME NEW u, NEW n, Single(u, n), NEW limit \in Nat
  PROVE  First(Cut(u, limit), u, n, limit)
<1> DEFINE c == Cut(u, limit)
<1>1. n \in Nat /\ Len(u) = n /\ u \in Seq(ToSet(u))
  BY SingleSeq
<1>2. CASE limit = 0 \/ limit >= n
  <2>1. c = u
    BY <1>1, <1>2 DEF Cut
  <2>2. n \in 0 .. n
    BY <1>1
  <2> HIDE DEF c
  <2>3. QED BY <2>1, <2>2 DEF First, c
<1>3. CASE ~(limit = 0 \/ limit >= n)
  <2>1. c = SubSeq(u, 1, limit)
    BY <1>1, <1>3 DEF Cut
  <2>2. limit \in 0 .. n /\ \A i \in 1 .. limit : i \in 1 .. n
    BY <1>1, <1>3
  <2>3. c = [i \in 1 .. limit |-> u[i]]
    BY <1>1, <1>3, <2>1
  <2> HIDE DEF c
  <2>4. \A i \in 1 .. limit : c[i] = u[i]
    BY <2>3
  <2>5. Single(c, limit)
    BY <2>2, <2>3, <2>4 DEF Single
  <2>6. QED BY <2>2, <2>4, <2>5 DEF First, c
<1>4. QED BY <1>2, <1>3

\* However short it is cut: a review counts everything and shows the worst.
LEMMA ReviewShows ==
  ASSUME NEW service, NEW w, NEW limit \in Nat
  PROVE  ShowsWorst(ReviewService(service, w, limit), service, w, limit)
<1> DEFINE review == ReviewService(service, w, limit)
           u == Findings(service, w)  t == SortedFindings(u)  c == Cut(t, limit)
           found == ToSet(u)  shown == ToSet(c)
           severities == {f.severity : f \in found}
<1>1. /\ review.count = Len(u) /\ review.findings = c
      /\ review.bySeverity = [s \in severities |-> Cardinality({i \in DOMAIN u : u[i].severity = s})]
  BY DEF ReviewService, Limited
<1>2. PICK n \in Nat : Single(u, n)
  BY FoundAre
<1> HIDE DEF u, review
<1>3. Single(t, n) /\ ToSet(t) = found
      /\ \A p, q \in 1 .. n : p < q => Rank(t[p].severity) <= Rank(t[q].severity)
  BY <1>2, SortedFindingsAre
<1> HIDE DEF t
<1>4. PICK k \in 0 .. n : /\ Single(c, k) /\ \A i \in 1 .. k : c[i] = t[i]
                          /\ k = n \/ k = limit
  <2>1. First(c, t, n, limit)
    BY <1>3, CutIs
  <2> HIDE DEF c
  <2>2. QED BY <2>1 DEF First
<1> HIDE DEF c
<1>5. /\ DOMAIN u = 1 .. n /\ Len(u) = n /\ Cardinality(found) = n /\ found = {u[i] : i \in 1 .. n}
      /\ found = {t[i] : i \in 1 .. n}
      /\ Len(c) = k /\ Cardinality(shown) = k /\ shown = {c[i] : i \in 1 .. k}
  BY <1>2, <1>3, <1>4, SingleSeq
<1>6. ASSUME NEW s
      PROVE  Cardinality({i \in DOMAIN u : u[i].severity = s}) = Cardinality({f \in found : f.severity = s})
  <2> DEFINE I == {i \in 1 .. n : u[i].severity = s}
  <2>1. Cardinality({u[i] : i \in I}) = Cardinality(I)
    <3>1. I \in SUBSET (1 .. n)
      OBVIOUS
    <3> HIDE DEF I
    <3>2. QED BY <1>2, <3>1, SameNumber
  <2>2. {u[i] : i \in I} = {f \in found : f.severity = s}
    BY <1>5
  <2>3. QED BY <1>5, <2>1, <2>2
<1>7. review.bySeverity = [s \in severities |-> Cardinality({f \in found : f.severity = s})]
  BY <1>1, <1>6
<1> HIDE DEF found, shown
<1>8. k <= n /\ \A i \in 1 .. k : i \in 1 .. n
  BY <1>4
<1>9. shown \subseteq found
  BY <1>4, <1>5, <1>8
<1>10. ASSUME shown # found PROVE k = limit
  <2>1. k # n
    BY <1>4, <1>5, <1>10
  <2>2. QED BY <1>4, <2>1
<1>11. ASSUME NEW f \in found \ shown, NEW g \in shown PROVE Rank(g.severity) <= Rank(f.severity)
  <2>1. PICK q \in 1 .. n : f = t[q]
    BY <1>5
  <2>2. PICK p \in 1 .. k : g = t[p]
    BY <1>4, <1>5
  <2>3. q \notin 1 .. k
    BY <1>4, <1>5, <2>1
  <2>4. p \in 1 .. n /\ p < q
    BY <1>4, <1>8, <2>3
  <2>5. QED BY <1>3, <2>1, <2>2, <2>4
<1>12. QED BY <1>1, <1>5, <1>7, <1>9, <1>10, <1>11 DEF ShowsWorst, u, found, shown, review

\* And it holds against the resource only what it has read, or what is not set.
LEMMA ReviewBlames ==
  ASSUME NEW service, NEW w, NEW limit \in Nat
  PROVE  BlamesWhatItRead(ReviewService(service, w, limit), service, w)
<1> DEFINE review == ReviewService(service, w, limit)
<1>1. ToSet(review.findings) \subseteq ToSet(Findings(service, w))
  BY ReviewShows DEF ShowsWorst
<1>2. ASSUME NEW f, Fires(f, w), w.settings[f.id] # "bad" \/ f.asks \in w.fails
      PROVE  f.unset
  BY <1>2 DEF Fires, Read
<1> HIDE DEF review
<1>3. QED BY <1>1, <1>2, FoundAre DEF BlamesWhatItRead, review

-----------------------------------------------------------------------------
(* The reports of the page                                                 *)

\* A report is what the fast path made of some resource.
ReportInv ==
  /\ mode \in [Sessions -> Modes \cup {Unset}]
  /\ \/ report = NoReport
     \/ \E w \in DiagnosisWorlds, m \in Modes :
          report = [kind |-> "diagnosis", world |-> w, mode |-> m, result |-> DiagnoseService(w, m)]
     \/ \E w \in ReviewWorlds :
          report = [kind |-> "review", world |-> w, result |-> ReviewService(w.service, w, Limit)]

\* No report is shown at first.
LEMMA ReportInit == Init => ReportInv
BY DEF Init, ReportInv

\* Only the two buttons make a report, and under the mode of their session.
LEMMA ReportStep ==
  ASSUME ReportInv, PaymentInv', [Next]_vars
  PROVE  ReportInv'
<1>1. mode' \in [Sessions -> Modes \cup {Unset}]
  BY DEF PaymentInv, PendingIsOwn
<1>2. CASE report' = NoReport
  BY <1>1, <1>2 DEF ReportInv
<1>3. CASE UNCHANGED vars
  BY <1>3 DEF ReportInv, vars, NoReport
<1>4. ASSUME NEW s \in Sessions, DiagnoseButton(s) PROVE ReportInv'
  <2>1. mode[s] \in Modes
    BY <1>4 DEF DiagnoseButton, Fresh, Open, ReportInv
  <2>2. PICK w \in DiagnosisWorlds :
          report' = [kind |-> "diagnosis", world |-> w, mode |-> mode[s],
                     result |-> DiagnoseService(w, mode[s])]
    BY <1>4 DEF DiagnoseButton
  <2>3. QED BY <1>1, <2>1, <2>2, Zenon DEF ReportInv
<1>5. ASSUME NEW s \in Sessions, ReviewButton(s) PROVE ReportInv'
  <2>1. PICK w \in ReviewWorlds :
          report' = [kind |-> "review", world |-> w,
                     result |-> ReviewService(w.service, w, Limit)]
    BY <1>5 DEF ReviewButton
  <2>2. QED BY <1>1, <2>1, Zenon DEF ReportInv
<1>6. QED BY <1>2, <1>3, <1>4, <1>5 DEF Next

\* And such reports are sound.
LEMMA ReportsSound == DashboardAssumption /\ ReportInv => ReportsAreSound
<1> SUFFICES ASSUME DashboardAssumption, ReportInv PROVE ReportsAreSound
  OBVIOUS
<1>1. CASE report = NoReport
  BY <1>1 DEF ReportsAreSound, DiagnosisIsSound, ReviewIsSound, NoReport
<1>2. ASSUME NEW w \in DiagnosisWorlds, NEW m \in Modes,
             report = [kind |-> "diagnosis", world |-> w, mode |-> m, result |-> DiagnoseService(w, m)]
      PROVE  ReportsAreSound
  <2>1. /\ report.kind = "diagnosis" /\ report.world = w /\ report.mode = m
        /\ report.result = DiagnoseService(w, m)
    BY <1>2
  <2>2. IsDiagnosisWorld(w)
    BY DEF DashboardAssumption
  <2>3. Explains(report.result, report.world) /\ FollowsPosture(report.result, report.mode)
    BY <2>1, <2>2, DiagnosisExplains, DiagnosisFollows
  <2>4. QED BY <2>1, <2>3 DEF ReportsAreSound, DiagnosisIsSound, ReviewIsSound
<1>3. ASSUME NEW w \in ReviewWorlds,
             report = [kind |-> "review", world |-> w, result |-> ReviewService(w.service, w, Limit)]
      PROVE  ReportsAreSound
  <2>1. /\ report.kind = "review" /\ report.world = w
        /\ report.result = ReviewService(w.service, w, Limit)
    BY <1>3
  <2>2. /\ ShowsWorst(report.result, report.world.service, report.world, Limit)
        /\ BlamesWhatItRead(report.result, report.world.service, report.world)
    BY <2>1, ReviewShows, ReviewBlames DEF DashboardAssumption
  <2>3. QED BY <2>1, <2>2 DEF ReportsAreSound, DiagnosisIsSound, ReviewIsSound
<1>4. QED BY <1>1, <1>2, <1>3 DEF ReportInv

\* Whatever resource the fast path is asked about, whatever of it AWS does not
\* tell and under whatever posture: the diagnosis explains every alarm and every
\* line the rules know, and the review shows the worst of all it counts and blames only
\* what it has read, the settings of a bucket excepted.
THEOREM DashboardReportsAreSound == Spec => []ReportsAreSound
<1>1. DashboardAssumption
  BY DashboardAssumption
<1>2. Init => PaymentInv /\ ReportInv
  BY PaymentInit, ReportInit
<1>3. PaymentInv /\ ReportInv /\ [Next]_vars => (PaymentInv /\ ReportInv)'
  BY <1>1, PaymentStep, ReportStep
<1>4. ReportInv => ReportsAreSound
  BY <1>1, ReportsSound
<1>5. QED BY <1>2, <1>3, <1>4, PTL DEF Spec

=============================================================================
