--------------------------- MODULE ResponseCache ---------------------------
(***************************************************************************)
(* TTLCache of finops_core/aws/cache.py, as CostExplorer uses it: threads  *)
(* that ask Cost Explorer the same questions and are billed for every      *)
(* request that is not answered from the cache.                            *)
(*                                                                         *)
(* The lock is held over each dictionary access and not over compute().    *)
(* What the source would answer changes all the time, so a value is known  *)
(* by the moment it was read at the source, asOf.  Time is a counter, and  *)
(* `now` is read before the lock is taken, as the code does.               *)
(***************************************************************************)
EXTENDS Integers

CONSTANTS
  Threads,     \* threads sharing one CostExplorer
  Keys,        \* queries: (kind, group_by, period, metric, filters)
  TTL,         \* cache_ttl_seconds
  MaxTime,     \* bound on the clock
  NoEntry      \* no entry in the cache, no answer, no call

ASSUME TimesAssumption == TTL \in Nat /\ MaxTime \in Nat

Free  == "free"
Times == 0 .. MaxTime

VARIABLES
  clock,     \* time.monotonic()
  data,      \* _data: the entry of each key, a pair (stamp, value)
  lock,      \* _lock: its holder, or Free
  pc,        \* where each thread is in get_or_compute
  call,      \* key and now of the thread's call, and the value it computed
  answer,    \* history: what each thread's last call returned
  done,      \* history: requests that were computed and stored since clear()
  seen,      \* history: done as it was when each thread's call began
  overlap    \* history: two calls were in progress at once

vars == <<clock, data, lock, pc, call, answer, done, seen, overlap>>

Steps == {"idle", "lookup", "looking", "compute", "computed", "storing"}
Entry == [stamp : Times, asOf : Times]
Call  == [key : Keys, now : Times, asOf : Times]

ASSUME NoEntryAssumption == NoEntry \notin Entry

Init ==
  /\ clock = 0
  /\ data = [k \in Keys |-> NoEntry]
  /\ lock = Free
  /\ pc = [t \in Threads |-> "idle"]
  /\ call = [t \in Threads |-> NoEntry]
  /\ answer = [t \in Threads |-> NoEntry]
  /\ done = {}
  /\ seen = [t \in Threads |-> {}]
  /\ overlap = FALSE

Goto(t, step) == pc' = [pc EXCEPT ![t] = step]

Fresh(entry, now) == entry # NoEntry /\ now - entry.stamp < TTL

\* get_or_compute(key, compute): read the clock.
Enter(t, k) ==
  /\ pc[t] = "idle"
  /\ call' = [call EXCEPT ![t] = [key |-> k, now |-> clock, asOf |-> 0]]
  /\ seen' = [seen EXCEPT ![t] = done]
  /\ answer' = [answer EXCEPT ![t] = NoEntry]
  /\ overlap' = (overlap \/ \E u \in Threads : pc[u] # "idle")
  /\ Goto(t, "lookup")
  /\ UNCHANGED <<clock, data, lock, done>>

\* with self._lock: before the lookup and again before the store.
Acquire(t) ==
  /\ lock = Free
  /\ lock' = t
  /\ \/ pc[t] = "lookup" /\ Goto(t, "looking")
     \/ pc[t] = "computed" /\ Goto(t, "storing")
  /\ UNCHANGED <<clock, data, call, answer, done, seen, overlap>>

\* The call ends, returning a value or with compute's exception.
End(t) ==
  /\ call' = [call EXCEPT ![t] = NoEntry]
  /\ seen' = [seen EXCEPT ![t] = {}]
  /\ Goto(t, "idle")

Return(t, asOf) ==
  /\ answer' = [answer EXCEPT ![t] = [key |-> call[t].key, now |-> call[t].now,
                                      asOf |-> asOf]]
  /\ End(t)

Hit(t) ==
  /\ pc[t] = "looking"
  /\ Fresh(data[call[t].key], call[t].now)
  /\ Return(t, data[call[t].key].asOf)
  /\ lock' = Free
  /\ UNCHANGED <<clock, data, done, overlap>>

\* Mutant of Miss: the lock is kept until the value is stored.
MissKeepsLock(t) ==
  /\ pc[t] = "looking"
  /\ ~Fresh(data[call[t].key], call[t].now)
  /\ Goto(t, "compute")
  /\ UNCHANGED <<clock, data, lock, call, answer, done, seen, overlap>>

Miss(t) ==
  /\ pc[t] = "looking"
  /\ ~Fresh(data[call[t].key], call[t].now)
  /\ lock' = Free
  /\ Goto(t, "compute")
  /\ UNCHANGED <<clock, data, call, answer, done, seen, overlap>>

\* The billed request is answered with what the source says at that moment.
Compute(t) ==
  /\ pc[t] = "compute"
  /\ call' = [call EXCEPT ![t].asOf = clock]
  /\ Goto(t, "computed")
  /\ UNCHANGED <<clock, data, lock, answer, done, seen, overlap>>

\* Mutant of ComputeFails: the exception is swallowed and its nothing is stored.
ComputeFailureStored(t) ==
  /\ pc[t] = "compute"
  /\ call' = [call EXCEPT ![t] = NoEntry]
  /\ Goto(t, "computed")
  /\ UNCHANGED <<clock, data, lock, answer, done, seen, overlap>>

\* compute() raises: nothing is stored.
ComputeFails(t) ==
  /\ pc[t] = "compute"
  /\ End(t)
  /\ UNCHANGED <<clock, data, lock, answer, done, overlap>>

\* Mutant of Store: the entry is stamped when it is stored.
StoreStampedLate(t) ==
  /\ pc[t] = "storing"
  /\ data' = [data EXCEPT ![call[t].key] = [stamp |-> clock, asOf |-> call[t].asOf]]
  /\ done' = done \cup {[key |-> call[t].key, now |-> call[t].now]}
  /\ Return(t, call[t].asOf)
  /\ lock' = Free
  /\ UNCHANGED <<clock, overlap>>

\* Mutant of Store: the value is returned and not kept.
StoreNothing(t) ==
  /\ pc[t] = "storing"
  /\ done' = done \cup {[key |-> call[t].key, now |-> call[t].now]}
  /\ Return(t, call[t].asOf)
  /\ lock' = Free
  /\ UNCHANGED <<clock, data, overlap>>

\* The entry is stamped with the time the call began, whatever is there.
Store(t) ==
  /\ pc[t] = "storing"
  /\ data' = [data EXCEPT ![call[t].key] = [stamp |-> call[t].now,
                                            asOf |-> call[t].asOf]]
  /\ done' = done \cup {[key |-> call[t].key, now |-> call[t].now]}
  /\ Return(t, call[t].asOf)
  /\ lock' = Free
  /\ UNCHANGED <<clock, overlap>>

\* clear(): what was stored before it is no longer owed to anyone.
Clear ==
  /\ lock = Free
  /\ data' = [k \in Keys |-> NoEntry]
  /\ done' = {}
  /\ seen' = [t \in Threads |-> {}]
  /\ UNCHANGED <<clock, lock, pc, call, answer, overlap>>

Tick ==
  /\ clock < MaxTime
  /\ clock' = clock + 1
  /\ UNCHANGED <<data, lock, pc, call, answer, done, seen, overlap>>

Step(t) ==
  \/ Acquire(t)
  \/ Hit(t)
  \/ Miss(t)
  \/ Store(t)

Next ==
  \/ \E t \in Threads :
       \/ \E k \in Keys : Enter(t, k)
       \/ Step(t)
       \/ Compute(t)
       \/ ComputeFails(t)
  \/ Clear
  \/ Tick

(***************************************************************************)
(* A thread keeps running and gets the lock when it is free again and      *)
(* again (the platform's lock is not owned forever by one thread).         *)
(* compute() may hang: AWS owes no answer, and neither does the caller owe *)
(* another call.                                                           *)
(***************************************************************************)
Spec == Init /\ [][Next]_vars /\ \A t \in Threads : SF_vars(Step(t))

-----------------------------------------------------------------------------
TypeOK ==
  /\ clock \in Times
  /\ data \in [Keys -> Entry \cup {NoEntry}]
  /\ lock \in Threads \cup {Free}
  /\ pc \in [Threads -> Steps]
  /\ call \in [Threads -> Call \cup {NoEntry}]
  /\ \A t \in Threads : pc[t] # "idle" => call[t] \in Call
  /\ answer \in [Threads -> Call \cup {NoEntry}]
  /\ done \in SUBSET [key : Keys, now : Times]
  /\ seen \in [Threads -> SUBSET [key : Keys, now : Times]]

\* However long a compute takes and in whatever order computes end, an answer
\* shows the source as it was less than TTL before the caller asked.
BoundedStaleness ==
  \A t \in Threads : answer[t] # NoEntry =>
    answer[t].asOf > answer[t].now - TTL \/ answer[t].asOf >= answer[t].now

\* The lock is not held over compute(): a call reaches its own lookup and its
\* own store even if another thread's request never returns.
NeverBlocked ==
  \A t \in Threads :
    /\ pc[t] = "lookup" ~> pc[t] \notin {"lookup", "looking"}
    /\ pc[t] = "computed" ~> pc[t] \notin {"computed", "storing"}

\* A question that was answered less than TTL ago is not billed again
\* (cache.py:1, "we memoize identical queries within a short window").
RepeatIsServed ==
  \A t \in Threads : pc[t] \in {"compute", "computed"} =>
    \A m \in seen[t] : m.key = call[t].key => call[t].now - m.now >= TTL

\* As long as calls do not overlap, which is how the CLI uses the cache, that
\* is so, whatever fails in between.
SerialRepeatIsServed == overlap \/ RepeatIsServed

=============================================================================
