------------------------ MODULE ResponseCacheProofs ------------------------
(***************************************************************************)
(* Theorems about ResponseCache, for every set of threads and of keys,     *)
(* every TTL and every bound on the clock, clear() and failing computes    *)
(* included.                                                               *)
(*                                                                         *)
(* BoundedStaleness is not inductive: what a hit answers was stored by     *)
(* another call.  Ages says of every value on its way into an answer, in   *)
(* the hands of a thread or in the cache, that it was read at the source   *)
(* no earlier than the time it is stamped with.                            *)
(***************************************************************************)
EXTENDS ResponseCache, TLAPS

-----------------------------------------------------------------------------
\* Type correctness, one step per action.
LEMMA TypeInit == Init => TypeOK
BY TimesAssumption DEF Init, TypeOK, Times, Steps, Free

LEMMA TypeStep == TypeOK /\ [Next]_vars => TypeOK'
<1> SUFFICES ASSUME TypeOK, [Next]_vars
             PROVE  TypeOK'
  OBVIOUS
<1> USE DEF TypeOK, Steps, Goto
<1>1. ASSUME NEW t \in Threads, NEW k \in Keys, Enter(t, k)
      PROVE  TypeOK'
  <2>1. [key |-> k, now |-> clock, asOf |-> 0] \in Call
    BY TimesAssumption DEF Call, Times
  <2> QED
    BY <1>1, <2>1 DEF Enter
<1>2. ASSUME NEW t \in Threads, Acquire(t)
      PROVE  TypeOK'
  BY <1>2 DEF Acquire
<1>3. ASSUME NEW t \in Threads, Hit(t)
      PROVE  TypeOK'
  <2>1. call[t] \in Call /\ data[call[t].key] \in Entry
    BY <1>3 DEF Hit, Fresh, Call
  <2>2. [key |-> call[t].key, now |-> call[t].now,
         asOf |-> data[call[t].key].asOf] \in Call
    BY <2>1 DEF Call, Entry
  <2> QED
    BY <1>3, <2>2 DEF Hit, Return, End
<1>4. ASSUME NEW t \in Threads, Miss(t)
      PROVE  TypeOK'
  BY <1>4 DEF Miss
<1>5. ASSUME NEW t \in Threads, Compute(t)
      PROVE  TypeOK'
  <2>1. [call[t] EXCEPT !.asOf = clock] \in Call
    BY <1>5 DEF Compute, Call
  <2> QED
    BY <1>5, <2>1 DEF Compute
<1>6. ASSUME NEW t \in Threads, ComputeFails(t)
      PROVE  TypeOK'
  BY <1>6 DEF ComputeFails, End
<1>7. ASSUME NEW t \in Threads, Store(t)
      PROVE  TypeOK'
  <2>1. call[t] \in Call
    BY <1>7 DEF Store
  <2>2. /\ [stamp |-> call[t].now, asOf |-> call[t].asOf] \in Entry
        /\ [key |-> call[t].key, now |-> call[t].now, asOf |-> call[t].asOf] \in Call
        /\ [key |-> call[t].key, now |-> call[t].now] \in [key : Keys, now : Times]
    BY <2>1 DEF Call, Entry
  <2> QED
    BY <1>7, <2>2 DEF Store, Return, End
<1>8. ASSUME Clear
      PROVE  TypeOK'
  BY <1>8 DEF Clear
<1>9. ASSUME Tick
      PROVE  TypeOK'
  BY <1>9, TimesAssumption DEF Tick, Times
<1>10. CASE UNCHANGED vars
  BY <1>10 DEF vars
<1> QED
  BY <1>1, <1>2, <1>3, <1>4, <1>5, <1>6, <1>7, <1>8, <1>9, <1>10 DEF Next, Step

\* Every variable keeps its type, however the calls of the threads interleave.
THEOREM Typing == Spec => []TypeOK
BY TypeInit, TypeStep, PTL DEF Spec

-----------------------------------------------------------------------------
\* A stored value was read after the call that stored it began; so was a value
\* that a call has computed; and a call began in the past.
Ages ==
  /\ \A k \in Keys : data[k] # NoEntry => data[k].asOf >= data[k].stamp
  /\ \A t \in Threads :
       /\ pc[t] # "idle" => call[t].now <= clock
       /\ pc[t] \in {"computed", "storing"} => call[t].asOf >= call[t].now

IInv == TypeOK /\ Ages /\ BoundedStaleness

LEMMA StalenessInit == Init => IInv
BY TypeInit DEF Init, IInv, Ages, BoundedStaleness

LEMMA StalenessStep == IInv /\ [Next]_vars => IInv'
<1> SUFFICES ASSUME IInv, [Next]_vars
             PROVE  Ages' /\ BoundedStaleness'
  BY TypeStep DEF IInv
<1> USE TimesAssumption DEF IInv, Ages, TypeOK, Steps, Goto, Times, Call, Entry
<1>1. ASSUME NEW t \in Threads, NEW k \in Keys, Enter(t, k)
      PROVE  Ages' /\ BoundedStaleness'
  BY <1>1 DEF Enter, BoundedStaleness
<1>2. ASSUME NEW t \in Threads, Acquire(t)
      PROVE  Ages' /\ BoundedStaleness'
  BY <1>2 DEF Acquire, BoundedStaleness
<1>3. ASSUME NEW t \in Threads, Hit(t)
      PROVE  Ages' /\ BoundedStaleness'
  <2>0. call[t] \in Call
    BY <1>3 DEF Hit
  <2>1. PICK entry \in Entry : /\ entry = data[call[t].key] /\ entry # NoEntry
                               /\ call[t].now - entry.stamp < TTL
    BY <1>3, <2>0 DEF Hit, Fresh
  <2>2. entry.asOf > call[t].now - TTL
    <3>1. entry.asOf >= entry.stamp
      BY <2>0, <2>1
    <3>2. call[t].now \in Int /\ entry.stamp \in Int /\ entry.asOf \in Int
      BY <2>0, <2>1
    <3> QED
      BY <2>1, <3>1, <3>2
  <2>3. BoundedStaleness'
    BY <1>3, <2>1, <2>2 DEF Hit, Return, BoundedStaleness
  <2> QED
    BY <1>3, <2>3 DEF Hit, Return, End
<1>4. ASSUME NEW t \in Threads, Miss(t)
      PROVE  Ages' /\ BoundedStaleness'
  BY <1>4 DEF Miss, BoundedStaleness
<1>5. ASSUME NEW t \in Threads, Compute(t)
      PROVE  Ages' /\ BoundedStaleness'
  BY <1>5 DEF Compute, BoundedStaleness
<1>6. ASSUME NEW t \in Threads, ComputeFails(t)
      PROVE  Ages' /\ BoundedStaleness'
  BY <1>6 DEF ComputeFails, End, BoundedStaleness
<1>7. ASSUME NEW t \in Threads, Store(t)
      PROVE  Ages' /\ BoundedStaleness'
  <2>1. call[t].asOf >= call[t].now
    BY <1>7 DEF Store
  <2>2. BoundedStaleness'
    BY <1>7, <2>1 DEF Store, Return, BoundedStaleness
  <2> QED
    BY <1>7, <2>1, <2>2 DEF Store, Return, End
<1>8. ASSUME Clear
      PROVE  Ages' /\ BoundedStaleness'
  BY <1>8 DEF Clear, BoundedStaleness
<1>9. ASSUME Tick
      PROVE  Ages' /\ BoundedStaleness'
  BY <1>9 DEF Tick, BoundedStaleness
<1>10. CASE UNCHANGED vars
  BY <1>10 DEF vars, BoundedStaleness
<1> QED
  BY <1>1, <1>2, <1>3, <1>4, <1>5, <1>6, <1>7, <1>8, <1>9, <1>10 DEF Next, Step

\* Nobody is answered with a value that was a TTL old when it was asked for,
\* however long computes take and in whatever order they end.
THEOREM AnswersAreFresh == Spec => []BoundedStaleness
<1>1. IInv => BoundedStaleness
  BY DEF IInv
<1> QED
  BY <1>1, StalenessInit, StalenessStep, PTL DEF Spec

-----------------------------------------------------------------------------
(***************************************************************************)
(* Calls that do not overlap.  Of every request that was stored there is   *)
(* an entry, at least as new as that request; a call in progress began no  *)
(* earlier than any of them.                                               *)
(***************************************************************************)
OneCall == \A t, u \in Threads : pc[t] # "idle" /\ pc[u] # "idle" => t = u

Remembered ==
  \A m \in done : /\ m.now <= clock
                  /\ data[m.key] # NoEntry
                  /\ data[m.key].stamp >= m.now

Asking ==
  \A t \in Threads :
    /\ seen[t] \subseteq done
    /\ pc[t] # "idle" => \A m \in done : m.now <= call[t].now

SerialInv == overlap \/ (OneCall /\ Remembered /\ Asking /\ RepeatIsServed)

LEMMA SerialInit == Init => SerialInv
BY DEF Init, SerialInv, OneCall, Remembered, Asking, RepeatIsServed

LEMMA SerialStep == IInv /\ SerialInv /\ [Next]_vars => SerialInv'
<1> SUFFICES ASSUME IInv, SerialInv, [Next]_vars, ~overlap'
             PROVE  OneCall' /\ Remembered' /\ Asking' /\ RepeatIsServed'
  BY DEF SerialInv
<1>o. ~overlap
  BY DEF Next, Step, Enter, Acquire, Hit, Miss, Compute, ComputeFails, Store, Clear, Tick, vars
<1>i. OneCall /\ Remembered /\ Asking /\ RepeatIsServed
  BY <1>o DEF SerialInv
<1> USE TimesAssumption, NoEntryAssumption
    DEF IInv, Ages, TypeOK, Steps, Goto, Times, Call, Entry
<1>1. ASSUME NEW t \in Threads, NEW k \in Keys, Enter(t, k)
      PROVE  OneCall' /\ Remembered' /\ Asking' /\ RepeatIsServed'
  <2>1. \A u \in Threads : pc[u] = "idle"
    BY <1>1 DEF Enter
  <2>2. OneCall' /\ RepeatIsServed'
    BY <1>1, <2>1 DEF Enter, OneCall, RepeatIsServed
  <2>3. Remembered'
    BY <1>1, <1>i DEF Enter, Remembered
  <2>4. Asking'
    BY <1>1, <1>i, <2>1 DEF Enter, Asking, Remembered
  <2> QED
    BY <2>2, <2>3, <2>4
<1>2. ASSUME NEW t \in Threads, Acquire(t) \/ Compute(t)
      PROVE  OneCall' /\ Remembered' /\ Asking' /\ RepeatIsServed'
  <2>1. /\ pc[t] # "idle" /\ pc'[t] # "idle"
        /\ \A u \in Threads : u # t => pc'[u] = pc[u]
        /\ \A u \in Threads : pc[u] # "idle" => call'[u].now = call[u].now /\ call'[u].key = call[u].key
        /\ \A u \in Threads : pc'[u] \in {"compute", "computed"} => pc[u] \in {"compute", "computed"}
        /\ UNCHANGED <<clock, data, done, seen>>
    BY <1>2 DEF Acquire, Compute
  <2>2. OneCall' /\ Remembered'
    BY <1>i, <2>1 DEF OneCall, Remembered
  <2>3. Asking'
    BY <1>i, <2>1 DEF Asking
  <2>4. RepeatIsServed'
    BY <1>i, <2>1 DEF RepeatIsServed
  <2> QED
    BY <2>2, <2>3, <2>4
<1>3. ASSUME NEW t \in Threads, Miss(t)
      PROVE  OneCall' /\ Remembered' /\ Asking' /\ RepeatIsServed'
  <2>1. /\ pc[t] = "looking" /\ pc' = [pc EXCEPT ![t] = "compute"]
        /\ UNCHANGED <<clock, data, call, done, seen>>
    BY <1>3 DEF Miss
  <2>2. ASSUME NEW m \in seen[t], m.key = call[t].key
        PROVE  call[t].now - m.now >= TTL
    <3>1. m \in done /\ call[t] \in Call /\ m.now \in Int
      BY <1>i, <2>1 DEF Asking
    <3>2. PICK entry \in Entry : entry = data[m.key] /\ entry.stamp >= m.now
      BY <1>i, <3>1 DEF Remembered
    <3>3. call[t].now - entry.stamp >= TTL
      BY <1>3, <2>2, <3>1, <3>2 DEF Miss, Fresh
    <3> QED
      BY <3>1, <3>2, <3>3
  <2>3. OneCall' /\ Remembered' /\ Asking'
    BY <1>i, <2>1 DEF OneCall, Remembered, Asking
  <2>4. RepeatIsServed'
    BY <1>i, <2>1, <2>2 DEF RepeatIsServed
  <2> QED
    BY <2>3, <2>4
<1>4. ASSUME NEW t \in Threads, Hit(t) \/ ComputeFails(t)
      PROVE  OneCall' /\ Remembered' /\ Asking' /\ RepeatIsServed'
  <2>1. /\ pc' = [pc EXCEPT ![t] = "idle"]
        /\ seen' = [seen EXCEPT ![t] = {}]
        /\ \A u \in Threads : u # t => call'[u] = call[u]
        /\ UNCHANGED <<clock, data, done>>
    BY <1>4 DEF Hit, ComputeFails, Return, End
  <2>2. OneCall' /\ Remembered' /\ Asking'
    BY <1>i, <2>1 DEF OneCall, Remembered, Asking
  <2>3. RepeatIsServed'
    BY <1>i, <2>1 DEF RepeatIsServed
  <2> QED
    BY <2>2, <2>3
<1>5. ASSUME NEW t \in Threads, Store(t)
      PROVE  OneCall' /\ Remembered' /\ Asking' /\ RepeatIsServed'
  <2>1. /\ pc[t] = "storing" /\ pc' = [pc EXCEPT ![t] = "idle"]
        /\ seen' = [seen EXCEPT ![t] = {}]
        /\ data' = [data EXCEPT ![call[t].key] = [stamp |-> call[t].now, asOf |-> call[t].asOf]]
        /\ done' = done \cup {[key |-> call[t].key, now |-> call[t].now]}
        /\ clock' = clock
    BY <1>5 DEF Store, Return, End
  <2>2. call[t] \in Call /\ call[t].now <= clock
    BY <2>1
  <2>3. \A u \in Threads : u # t => pc[u] = "idle"
    BY <1>i, <2>1 DEF OneCall
  <2>4. \A u \in Threads : pc'[u] = "idle"
    BY <2>1, <2>3
  <2>5. [stamp |-> call[t].now, asOf |-> call[t].asOf] \in Entry
    BY <2>2
  <2>6. Remembered'
    <3> SUFFICES ASSUME NEW m \in done'
                 PROVE  m.now <= clock /\ data'[m.key] # NoEntry /\ data'[m.key].stamp >= m.now
      BY <2>1 DEF Remembered
    <3>1. CASE m.key = call[t].key
      <4>1. m.now <= call[t].now
        BY <1>i, <2>1, <2>2 DEF Asking
      <4>2. data'[m.key] = [stamp |-> call[t].now, asOf |-> call[t].asOf]
        BY <2>1, <2>2, <3>1
      <4>3. m.now <= clock
        BY <1>i, <2>1, <2>2 DEF Remembered
      <4> QED
        BY <2>5, <4>1, <4>2, <4>3
    <3>2. CASE m.key # call[t].key
      <4>1. m \in done
        BY <2>1, <3>2
      <4>2. data'[m.key] = data[m.key]
        BY <2>1, <3>2, <4>1
      <4> QED
        BY <1>i, <4>1, <4>2 DEF Remembered
    <3> QED
      BY <3>1, <3>2
  <2>7. OneCall' /\ Asking' /\ RepeatIsServed'
    BY <1>i, <2>1, <2>4 DEF OneCall, Asking, RepeatIsServed
  <2> QED
    BY <2>6, <2>7
<1>6. ASSUME Clear
      PROVE  OneCall' /\ Remembered' /\ Asking' /\ RepeatIsServed'
  BY <1>6, <1>i DEF Clear, OneCall, Remembered, Asking, RepeatIsServed
<1>7. ASSUME Tick
      PROVE  OneCall' /\ Remembered' /\ Asking' /\ RepeatIsServed'
  BY <1>7, <1>i DEF Tick, OneCall, Remembered, Asking, RepeatIsServed
<1>8. CASE UNCHANGED vars
  BY <1>8, <1>i DEF vars, OneCall, Remembered, Asking, RepeatIsServed
<1> QED
  BY <1>1, <1>2, <1>3, <1>4, <1>5, <1>6, <1>7, <1>8 DEF Next, Step

\* As long as calls do not overlap, no question that was answered less than TTL
\* ago is billed again, whatever fails and whenever the cache is cleared.
THEOREM RepeatsAreServed == Spec => []SerialRepeatIsServed
<1>1. SerialInv => SerialRepeatIsServed
  BY DEF SerialInv, SerialRepeatIsServed
<1> QED
  BY <1>1, StalenessInit, StalenessStep, SerialInit, SerialStep, PTL DEF Spec

=============================================================================
