--------------------------- MODULE ServicesProofs ---------------------------
(***************************************************************************)
(* Proofs about Services, for any agents, users and regions and a cache of *)
(* any size: whose estate a request is answered from, and who makes room   *)
(* for whom.                                                               *)
(***************************************************************************)
EXTENDS Services, FiniteSetTheorems, TLAPS

Entry == [key : Keys, estate : Estate]

\* The key of a request says whose session it gets, and where.
LEMMA KeyTellsSession ==
  ASSUME ServicesAssumption, NEW g \in Headers, NEW h \in Headers, CredKey(g) = CredKey(h)
  PROVE  SessionOf(g) = SessionOf(h)
<1>1. CASE ~Authenticated(g) /\ ~Authenticated(h)
  BY <1>1 DEF SessionOf
<1>2. CASE Authenticated(g) /\ Authenticated(h)
  <2>1. g.user = h.user /\ Or(g.region, Home) = Or(h.region, Home)
    BY <1>2 DEF CredKey
  <2>2. QED BY <1>2, <2>1 DEF SessionOf
<1>3. CASE ~Authenticated(g) /\ Authenticated(h)
  BY <1>3 DEF CredKey
<1>4. CASE Authenticated(g) /\ ~Authenticated(h)
  BY <1>4 DEF CredKey
<1>5. QED BY <1>1, <1>2, <1>3, <1>4

\* What is read with the session of a request with a pair of keys, or with no headers,
\* is its own.
LEMMA SessionIsOwn ==
  ASSUME ServicesAssumption, NEW h \in Headers, Authenticated(h) \/ h = NoHeaders,
         NEW read, read.user = SessionOf(h).user, read.region = SessionOf(h).region
  PROVE  IsOwn(read, h)
<1>1. CASE Authenticated(h)
  <2>1. h # NoHeaders
    BY <1>1 DEF Authenticated, NoHeaders
  <2>2. QED BY <1>1, <2>1 DEF SessionOf, IsOwn
<1>2. CASE h = NoHeaders
  <2>1. ~Authenticated(h) /\ h.region = None
    BY <1>2 DEF Authenticated, NoHeaders
  <2>2. SessionOf(h) = [user |-> Host, region |-> Home]
    BY <2>1 DEF SessionOf
  <2>3. QED BY <1>2, <2>1, <2>2 DEF IsOwn, Or
<1>3. QED BY <1>1, <1>2

\* An answer from an estate that is read with the session of the request.
LEMMA AnswersOwn ==
  ASSUME ServicesAssumption, NEW h \in Headers, NEW estate, Answers(h, estate),
         estate.user = SessionOf(h).user, estate.region = SessionOf(h).region
  PROVE  OwnEstate'
<1>1. PICK details \in {None, Read(estate)} :
        answer' = [headers |-> h, estate |-> estate, details |-> details]
  BY DEF Answers
<1>2. Read(estate).user = estate.user /\ Read(estate).region = estate.region
  BY DEF Read
<1>3. ASSUME Authenticated(h) \/ h = NoHeaders
      PROVE  IsOwn(estate, h) /\ (details # None => IsOwn(details, h))
  BY <1>2, <1>3, SessionIsOwn
<1>4. /\ answer'.headers = h /\ answer'.estate = estate /\ answer'.details = details
  BY <1>1
<1>5. QED BY <1>3, <1>4 DEF OwnEstate

\* The index of a cached key is one of those in the cache.
LEMMA IndexIsCached ==
  ASSUME NEW key, Cached(key)
  PROVE  \E i \in DOMAIN indexes : indexes[i].key = key /\ IndexOf(key) = indexes[i]
<1> DEFINE c == CHOOSE i \in DOMAIN indexes : indexes[i].key = key
<1>1. c \in DOMAIN indexes /\ indexes[c].key = key
  BY DEF Cached
<1>2. IndexOf(key) = indexes[c]
  BY DEF IndexOf
<1> HIDE DEF c
<1>3. QED BY <1>1, <1>2

\* What is read with the session of a request is an estate, and has a key.
LEMMA ReadType ==
  ASSUME ServicesAssumption, TypeOK, NEW h \in Headers
  PROVE  /\ CredKey(h) \in Keys
         /\ SessionOf(h) \in [user : Users \cup {Host}, region : Regions]
         /\ Read(SessionOf(h)) \in Estate
<1>1. CredKey(h) \in Keys
  BY DEF Keys
<1>2. SessionOf(h) \in [user : Users \cup {Host}, region : Regions]
  BY DEF ServicesAssumption, Headers, Authenticated, SessionOf, Or
<1>3. QED
  BY <1>1, <1>2 DEF Read, Estate, TypeOK

-----------------------------------------------------------------------------
\* A cache that is in order: no more entries than places, each with a key of its own
\* and an estate that is read with the session of that key.
Sound(ix) ==
  /\ ix \in Seq(Entry)
  /\ Len(ix) <= MaxIndexes
  /\ \A i, j \in 1 .. Len(ix) : ix[i].key = ix[j].key => i = j
  /\ \A i \in 1 .. Len(ix) : \A h \in Headers :
       CredKey(h) = ix[i].key => /\ ix[i].estate.user = SessionOf(h).user
                                 /\ ix[i].estate.region = SessionOf(h).region

\* `kept` is what remains of the cache without its `d` oldest entries.
Drops(d, kept) ==
  /\ Len(kept) = Len(indexes) - d
  /\ \A i \in 1 .. Len(kept) : kept[i] = indexes[i + d]

\* Room is made by dropping the oldest entry of a full cache, and no other.
LEMMA EvictedDropsOldest ==
  ASSUME ServicesAssumption, Sound(indexes)
  PROVE  /\ Sound(Evicted) /\ Len(Evicted) < MaxIndexes
         /\ \E d \in {0, 1} : Drops(d, Evicted) /\ (d = 1 => Len(indexes) = MaxIndexes)
<1> USE DEF ServicesAssumption
<1>0. indexes \in Seq(Entry) /\ Len(indexes) \in Nat /\ Len(indexes) <= MaxIndexes
  BY DEF Sound
<1>1. CASE Len(indexes) >= MaxIndexes
  <2>1. Evicted = Tail(indexes) /\ Len(indexes) = MaxIndexes /\ indexes # <<>>
    BY <1>0, <1>1 DEF Evicted
  <2>2. /\ Evicted \in Seq(Entry)
        /\ Len(Evicted) = Len(indexes) - 1
        /\ \A i \in 1 .. Len(Evicted) : Evicted[i] = indexes[i + 1]
    BY <1>0, <2>1
  <2>3. \A i \in 1 .. Len(Evicted) : i + 1 \in 1 .. Len(indexes)
    BY <1>0, <2>2
  <2>4. Sound(Evicted)
    <3> DEFINE kept == Evicted
    <3>0. /\ kept \in Seq(Entry) /\ Len(kept) \in Nat /\ Len(kept) <= MaxIndexes
          /\ \A i \in 1 .. Len(kept) : kept[i] = indexes[i + 1]
      BY <1>0, <2>2
    <3> HIDE DEF kept
    <3>1. \A i, j \in 1 .. Len(kept) : kept[i].key = kept[j].key => i = j
      <4> SUFFICES ASSUME NEW i \in 1 .. Len(kept), NEW j \in 1 .. Len(kept), kept[i].key = kept[j].key
                   PROVE  i = j
        OBVIOUS
      <4>1. i + 1 \in 1 .. Len(indexes) /\ j + 1 \in 1 .. Len(indexes)
        BY <2>3 DEF kept
      <4>2. indexes[i + 1].key = indexes[j + 1].key
        BY <3>0
      <4>3. i + 1 = j + 1
        BY <4>1, <4>2 DEF Sound
      <4>4. QED BY <3>0, <4>3
    <3>2. ASSUME NEW i \in 1 .. Len(kept), NEW h \in Headers, CredKey(h) = kept[i].key
          PROVE  /\ kept[i].estate.user = SessionOf(h).user
                 /\ kept[i].estate.region = SessionOf(h).region
      <4>1. i + 1 \in 1 .. Len(indexes) /\ kept[i] = indexes[i + 1]
        BY <2>3, <3>0 DEF kept
      <4>2. QED BY <3>2, <4>1 DEF Sound
    <3>3. QED BY <3>0, <3>1, <3>2 DEF Sound, kept
  <2>5. Drops(1, Evicted)
    BY <2>2 DEF Drops
  <2>6. QED BY <1>0, <2>1, <2>2, <2>4, <2>5
<1>2. CASE Len(indexes) < MaxIndexes
  <2>1. Evicted = indexes
    BY <1>0, <1>2 DEF Evicted
  <2>2. Drops(0, Evicted)
    BY <1>0, <2>1 DEF Drops
  <2>3. QED BY <1>0, <1>2, <2>1, <2>2
<1>3. QED BY <1>0, <1>1, <1>2

\* An index of a new key at the end of a cache with a free place.
LEMMA AppendSound ==
  ASSUME NEW ix, Sound(ix), Len(ix) < MaxIndexes, NEW e \in Entry,
         \A i \in 1 .. Len(ix) : ix[i].key # e.key,
         \A h \in Headers : CredKey(h) = e.key => /\ e.estate.user = SessionOf(h).user
                                                  /\ e.estate.region = SessionOf(h).region,
         ServicesAssumption
  PROVE  Sound(Append(ix, e))
<1> DEFINE jx == Append(ix, e)
<1>1. /\ ix \in Seq(Entry) /\ jx \in Seq(Entry)
      /\ Len(jx) = Len(ix) + 1 /\ Len(jx) <= MaxIndexes
      /\ \A i \in 1 .. Len(ix) : jx[i] = ix[i]
      /\ jx[Len(ix) + 1] = e
  BY DEF Sound, ServicesAssumption
<1>2. \A i \in 1 .. Len(jx) : i \in 1 .. Len(ix) \/ i = Len(ix) + 1
  BY <1>1
<1> HIDE DEF jx
<1>3. \A i, j \in 1 .. Len(jx) : jx[i].key = jx[j].key => i = j
  BY <1>1, <1>2 DEF Sound
<1>4. \A i \in 1 .. Len(jx) : \A h \in Headers :
        CredKey(h) = jx[i].key => /\ jx[i].estate.user = SessionOf(h).user
                                  /\ jx[i].estate.region = SessionOf(h).region
  BY <1>1, <1>2 DEF Sound
<1>5. QED BY <1>1, <1>3, <1>4 DEF Sound, jx

-----------------------------------------------------------------------------
(* Type correctness                                                        *)

\* The initial states have their types.
LEMMA TypeInit == ServicesAssumption /\ Init => TypeOK
BY DEF ServicesAssumption, Init, TypeOK, Down, Process, Phases

\* The histories keep their types whatever is asked for.
LEMMA TypeNoted ==
  ASSUME TypeOK, NEW key \in Keys, NEW kept, NEW dates \in SUBSET (0 .. MaxVersion),
         Noted(key, kept, dates)
  PROVE  /\ told' \in [Keys -> SUBSET (0 .. MaxVersion)]
         /\ since' \in [Keys -> SUBSET Keys]
BY DEF TypeOK, Noted

\* An answer is from an estate, and so are the details that are added to it.
LEMMA AnswersType ==
  ASSUME TypeOK, NEW h \in Headers, NEW estate \in Estate, Answers(h, estate)
  PROVE  answer' \in [headers : Headers, estate : Estate, details : Estate \cup {None}]
<1>1. Read(estate) \in Estate
  BY DEF Read, Estate, TypeOK
<1>2. QED BY <1>1 DEF Answers

\* Making room leaves a sequence of entries.
LEMMA TypeEvicted == ASSUME TypeOK PROVE Evicted \in Seq(Entry)
<1>1. indexes \in Seq(Entry)
  BY DEF TypeOK, Entry
<1>2. CASE indexes = <<>>
  BY <1>1, <1>2 DEF Evicted, Entry
<1>3. CASE indexes # <<>>
  BY <1>1, <1>3 DEF Evicted
<1>4. QED BY <1>2, <1>3

\* A query, whether it hits, misses or cannot have a session.
LEMMA TypeQuery ==
  ASSUME ServicesAssumption, TypeOK, NEW h \in Headers, Query(h)
  PROVE  TypeOK'
<1> DEFINE key == CredKey(h)
<1>1. /\ key \in Keys
      /\ SessionOf(h) \in [user : Users \cup {Host}, region : Regions]
      /\ Read(SessionOf(h)) \in Estate
  BY ReadType
<1>2. UNCHANGED <<run, started, agent, sessions, version, faults>>
  BY DEF Query, agentVars
<1> SUFFICES /\ indexes' \in Seq(Entry)
             /\ answer' \in {None} \cup [headers : Headers, estate : Estate, details : Estate \cup {None}]
             /\ told' \in [Keys -> SUBSET (0 .. MaxVersion)] /\ since' \in [Keys -> SUBSET Keys]
  BY <1>2 DEF TypeOK, Entry
<1>3. CASE Hit(h)
  <2>1. PICK i \in DOMAIN indexes : IndexOf(key) = indexes[i]
    BY <1>3, IndexIsCached DEF Hit
  <2>2. IndexOf(key) \in Entry
    <3>1. indexes \in Seq(Entry) BY DEF TypeOK, Entry
    <3>2. QED BY <2>1, <3>1
  <2>3. IndexOf(key).estate \in Estate /\ IndexOf(key).estate.asOf \in 0 .. MaxVersion
    BY <2>2 DEF Entry, Estate
  <2>4. told' \in [Keys -> SUBSET (0 .. MaxVersion)] /\ since' \in [Keys -> SUBSET Keys]
    BY <1>1, <1>3, <2>3, TypeNoted DEF Hit
  <2>5. QED BY <1>1, <1>3, <2>3, <2>4, AnswersType DEF Hit, TypeOK, Entry
<1>4. CASE Miss(h)
  <2>1. [key |-> key, estate |-> Read(SessionOf(h))] \in Entry
    BY <1>1 DEF Entry
  <2>2. indexes' \in Seq(Entry)
    BY <1>4, <2>1, TypeEvicted DEF Miss
  <2>3. told' \in [Keys -> SUBSET (0 .. MaxVersion)] /\ since' \in [Keys -> SUBSET Keys]
    <3>1. {version} \in SUBSET (0 .. MaxVersion) BY DEF TypeOK
    <3>2. QED BY <1>1, <1>4, <3>1, TypeNoted DEF Miss
  <2>4. QED BY <1>1, <1>4, <2>2, <2>3, AnswersType DEF Miss
<1>5. CASE NoSession(h)
  <2>1. told' \in [Keys -> SUBSET (0 .. MaxVersion)] /\ since' \in [Keys -> SUBSET Keys]
    BY <1>1, <1>5, TypeNoted DEF NoSession
  <2>2. QED BY <1>5, <2>1, TypeEvicted DEF NoSession, TypeOK
<1>6. QED BY <1>3, <1>4, <1>5 DEF Query

\* A tool that keeps nothing.
LEMMA TypeStateless ==
  ASSUME ServicesAssumption, TypeOK, NEW h \in Headers, Stateless(h)
  PROVE  TypeOK'
<1>1. /\ SessionOf(h) \in [user : Users \cup {Host}, region : Regions]
      /\ Read(SessionOf(h)) \in Estate
  BY ReadType
<1>2. answer' \in {None} \cup [headers : Headers, estate : Estate, details : Estate \cup {None}]
  BY <1>1, AnswersType DEF Stateless
<1>3. QED BY <1>2 DEF Stateless, agentVars, TypeOK

\* The processes of the tool server, and what happens in AWS.
LEMMA TypeServer ==
  ASSUME ServicesAssumption, TypeOK, ServerStart \/ ServerCrash \/ AwsChanges
  PROVE  TypeOK'
<1>1. CASE ServerStart
  BY <1>1 DEF ServerStart, agentVars, TypeOK
<1>2. CASE ServerCrash
  BY <1>2 DEF ServicesAssumption, ServerCrash, agentVars, TypeOK
<1>3. CASE AwsChanges
  BY <1>3 DEF ServicesAssumption, AwsChanges, toolVars, agentVars, TypeOK
<1>4. QED BY <1>1, <1>2, <1>3

\* An agent service, from its start to its end.
LEMMA TypeAgent ==
  ASSUME ServicesAssumption, TypeOK, NEW a \in Agents,
         AgentStart(a) \/ Open(a) \/ List(a) \/ Fail(a) \/ AgentCrash(a)
  PROVE  TypeOK'
<1>1. CASE AgentStart(a)
  BY <1>1 DEF ServicesAssumption, TypeOK, Process, Phases, toolVars, Becomes, AgentStart
<1>2. CASE Open(a)
  BY <1>2 DEF ServicesAssumption, TypeOK, Process, Phases, Session, toolVars, Becomes, Open
<1>3. CASE List(a)
  BY <1>3 DEF ServicesAssumption, TypeOK, Process, Phases, toolVars, Becomes, List
<1>4. CASE Fail(a) \/ AgentCrash(a)
  <2>1. faults' \in 0 .. MaxFaults /\ UNCHANGED <<toolVars, version, told, since>>
    BY <1>4 DEF ServicesAssumption, TypeOK, Fail, AgentCrash
  <2>2. agent' \in [Agents -> Process] /\ sessions' \subseteq sessions
    <3>1. CASE Ended(a)
      BY <3>1 DEF Ended, ServicesAssumption, TypeOK, Process, Phases, Down
    <3>2. CASE /\ agent[a].attempt \in 1 .. Attempts /\ agent[a].attempt < Attempts
               /\ Becomes(a, "connecting", agent[a].attempt + 1) /\ Stopped(a)
      BY <3>2 DEF Stopped, Becomes, ServicesAssumption, TypeOK, Process, Phases
    <3>3. QED BY <1>4, <3>1, <3>2 DEF Fail, AgentCrash, NextAttempt
  <2>3. QED BY <2>1, <2>2 DEF TypeOK, toolVars
<1>5. QED BY <1>1, <1>2, <1>3, <1>4

\* NoHeaders are headers: what an agent asks is asked like anything else.
LEMMA AgentAsksAsAnyone ==
  ASSUME NEW a \in Agents, AgentAsks(a)
  PROVE  \E h \in Headers : Query(h) \/ Stateless(h)
<1>1. NoHeaders \in Headers
  BY DEF NoHeaders, Headers
<1>2. QED BY <1>1 DEF AgentAsks

\* Every step keeps the types.
LEMMA TypeStep == ServicesAssumption /\ TypeOK /\ [Next]_vars => TypeOK'
<1> SUFFICES ASSUME ServicesAssumption, TypeOK, [Next]_vars PROVE TypeOK'
  OBVIOUS
<1>1. CASE \E h \in Headers : Query(h) \/ Stateless(h)
  BY <1>1, TypeQuery, TypeStateless
<1>2. CASE ServerStart \/ ServerCrash \/ AwsChanges
  BY <1>2, TypeServer
<1>3. ASSUME NEW a \in Agents,
             AgentStart(a) \/ Open(a) \/ List(a) \/ Fail(a) \/ AgentCrash(a)
      PROVE  TypeOK'
  BY <1>3, TypeAgent
<1>4. CASE UNCHANGED vars
  BY <1>4 DEF vars, toolVars, agentVars, TypeOK
<1>5. QED BY <1>1, <1>2, <1>3, <1>4, AgentAsksAsAnyone DEF Next, Connector

\* The type invariant of the tool tier (Services.tla, TypeOK).
THEOREM ServicesType == Spec => []TypeOK
<1>1. ServicesAssumption
  BY ServicesAssumption
<1>2. QED BY <1>1, TypeInit, TypeStep, PTL DEF Spec

-----------------------------------------------------------------------------
(* Whose estate                                                            *)

\* What the histories say of a cache: of a key no other scan has been told than the one that
\* is kept, and an entry has been asked past by every key that came after it.
ToldIn(ix, t) ==
  \A k \in Keys : \A d \in t[k] : \E i \in 1 .. Len(ix) : ix[i].key = k /\ ix[i].estate.asOf = d
LaterIn(ix, s) ==
  \A i, j \in 1 .. Len(ix) : i < j => ix[j].key \in s[ix[i].key]

CacheInv == Sound(indexes) /\ ToldIn(indexes, told) /\ LaterIn(indexes, since) /\ OwnEstate

\* A cache that is what remains of the former one, and at its end perhaps the new index
\* of the key that is asked for.
Becoming(new, key) ==
  \E d \in {0, 1} : \A i \in 1 .. Len(new) :
    \/ i + d \in 1 .. Len(indexes) /\ new[i] = indexes[i + d]
    \/ i = Len(new) /\ new[i].key = key /\ ~Cached(key)

\* The histories stay those of the cache, whatever is asked for.
LEMMA HistoriesKept ==
  ASSUME TypeOK, CacheInv, NEW key \in Keys, NEW new, Sound(new), Becoming(new, key),
         NEW dates, Noted(key, new, dates),
         \A i \in 1 .. Len(new) : new[i].key = key => dates \subseteq {new[i].estate.asOf}
  PROVE  ToldIn(new, told') /\ LaterIn(new, since')
<1>1. PICK d \in {0, 1} : \A i \in 1 .. Len(new) :
        \/ i + d \in 1 .. Len(indexes) /\ new[i] = indexes[i + d]
        \/ i = Len(new) /\ new[i].key = key /\ ~Cached(key)
  BY DEF Becoming
<1>2. /\ new \in Seq(Entry) /\ indexes \in Seq(Entry)
      /\ DOMAIN new = 1 .. Len(new) /\ DOMAIN indexes = 1 .. Len(indexes)
      /\ Len(new) \in Nat /\ Len(indexes) \in Nat
  BY DEF Sound, CacheInv
<1>3. ASSUME NEW k \in Keys, NEW t \in told'[k]
      PROVE  \E i \in 1 .. Len(new) : new[i].key = k /\ new[i].estate.asOf = t
  <2>1. PICK m \in 1 .. Len(new) : new[m].key = k
    BY <1>2, <1>3 DEF Noted
  <2>2. t \in told[k] \/ (k = key /\ t \in dates)
    BY <1>3 DEF Noted
  <2>3. CASE t \in told[k]
    <3>1. PICK i \in 1 .. Len(indexes) : indexes[i].key = k /\ indexes[i].estate.asOf = t
      BY <2>3 DEF CacheInv, ToldIn
    <3>2. Cached(k)
      BY <1>2, <3>1 DEF Cached
    <3>3. m + d \in 1 .. Len(indexes) /\ new[m] = indexes[m + d]
      BY <1>1, <2>1, <3>2
    <3>4. m + d = i
      BY <2>1, <3>1, <3>3 DEF CacheInv, Sound
    <3>5. QED BY <2>1, <3>1, <3>3, <3>4
  <2>4. CASE k = key /\ t \in dates
    BY <2>1, <2>4
  <2>5. QED BY <2>2, <2>3, <2>4
<1>4. ASSUME NEW i \in 1 .. Len(new), NEW j \in 1 .. Len(new), i < j
      PROVE  new[j].key \in since'[new[i].key]
  <2>1. i + d \in 1 .. Len(indexes) /\ new[i] = indexes[i + d]
    <3>1. Len(new) \in Nat BY <1>2
    <3>2. i # Len(new) BY <1>4, <3>1
    <3>3. QED BY <1>1, <3>2
  <2>2. new[i].key \in Keys /\ new[j].key \in Keys /\ Cached(new[i].key)
    <3>1. new[i] \in Entry /\ new[j] \in Entry BY <1>2
    <3>2. QED BY <1>2, <2>1, <3>1 DEF Entry, Cached
  <2>3. since'[new[i].key] = since[new[i].key] \cup ({key} \ {new[i].key})
    BY <1>2, <2>2 DEF Noted
  <2>4. CASE j + d \in 1 .. Len(indexes) /\ new[j] = indexes[j + d]
    <3>1. i + d < j + d
      BY <1>4
    <3>2. new[j].key \in since[new[i].key]
      BY <2>1, <2>4, <3>1 DEF CacheInv, LaterIn
    <3>3. QED BY <2>3, <3>2
  <2>5. CASE new[j].key = key
    <3>1. new[i].key # key
      BY <1>4, <2>5 DEF Sound
    <3>2. QED BY <2>3, <2>5, <3>1
  <2>6. QED BY <1>1, <2>4, <2>5
<1>5. QED BY <1>3, <1>4 DEF ToldIn, LaterIn

\* The initial states have an empty cache.
LEMMA CacheInit == ServicesAssumption /\ Init => CacheInv
<1> SUFFICES ASSUME ServicesAssumption, Init PROVE CacheInv
  OBVIOUS
<1>1. indexes = <<>> /\ Len(indexes) = 0 /\ 1 .. Len(indexes) = {}
  BY DEF Init
<1>2. Sound(indexes)
  BY <1>1 DEF Sound, ServicesAssumption
<1>3. ToldIn(indexes, told) /\ LaterIn(indexes, since) /\ OwnEstate
  BY <1>1 DEF ToldIn, LaterIn, OwnEstate, Init
<1>4. QED BY <1>2, <1>3 DEF CacheInv

\* Steps that touch neither the cache nor its histories nor an answer keep it.
LEMMA CacheElsewhere ==
  CacheInv /\ UNCHANGED <<indexes, told, since, answer>> => CacheInv'
BY DEF CacheInv, Sound, ToldIn, LaterIn, OwnEstate

\* A query: the estate that answers is the one of the request, from the cache or not.
LEMMA CacheQuery ==
  ASSUME ServicesAssumption, TypeOK, CacheInv, NEW h \in Headers, Query(h)
  PROVE  CacheInv'
<1> DEFINE key == CredKey(h)
           e == [key |-> key, estate |-> Read(SessionOf(h))]
<1>1. /\ key \in Keys /\ e \in Entry
      /\ Sound(indexes)
      /\ indexes \in Seq(Entry) /\ DOMAIN indexes = 1 .. Len(indexes) /\ Len(indexes) \in Nat
  BY ReadType DEF Entry, CacheInv, Sound
<1>2. /\ Sound(Evicted) /\ Len(Evicted) < MaxIndexes
      /\ \E d \in {0, 1} : Drops(d, Evicted)
      /\ Len(Evicted) \in Nat /\ Evicted \in Seq(Entry)
  <2>1. /\ Sound(Evicted) /\ Len(Evicted) < MaxIndexes
        /\ \E d \in {0, 1} : Drops(d, Evicted)
    BY <1>1, EvictedDropsOldest
  <2>2. QED BY <2>1 DEF Sound
<1>3. PICK d \in {0, 1} : Drops(d, Evicted)
  BY <1>2
<1>4. \A i \in 1 .. Len(Evicted) : i + d \in 1 .. Len(indexes) /\ Evicted[i] = indexes[i + d]
  BY <1>1, <1>2, <1>3 DEF Drops
<1>5. CASE Hit(h)
  <2>1. PICK i \in 1 .. Len(indexes) : indexes[i].key = key /\ IndexOf(key) = indexes[i]
    BY <1>1, <1>5, IndexIsCached DEF Hit
  <2>2. /\ indexes' = indexes
        /\ Answers(h, indexes[i].estate)
        /\ Noted(key, indexes, {indexes[i].estate.asOf})
    BY <1>5, <2>1 DEF Hit
  <2>3. Becoming(indexes, key)
    <3>1. \A j \in 1 .. Len(indexes) : j + 0 \in 1 .. Len(indexes) /\ indexes[j] = indexes[j + 0]
      BY <1>1
    <3>2. QED BY <3>1 DEF Becoming
  <2>4. \A j \in 1 .. Len(indexes) : indexes[j].key = key => j = i
    BY <1>1, <2>1 DEF Sound
  <2>5. ToldIn(indexes, told') /\ LaterIn(indexes, since')
    BY <1>1, <2>2, <2>3, <2>4, HistoriesKept
  <2>6. OwnEstate'
    BY <1>1, <2>1, <2>2, AnswersOwn DEF Sound
  <2>7. Sound(indexes')
    BY <1>1, <2>2
  <2>8. QED BY <2>2, <2>5, <2>6, <2>7 DEF CacheInv
<1>6. CASE Miss(h)
  <2> DEFINE new == Append(Evicted, e)
  <2>1. /\ ~Cached(key)
        /\ indexes' = new
        /\ Answers(h, Read(SessionOf(h)))
        /\ Noted(key, new, {version})
    BY <1>6 DEF Miss
  <2>2. /\ Len(new) = Len(Evicted) + 1 /\ new[Len(new)] = e
        /\ \A i \in 1 .. Len(Evicted) : new[i] = Evicted[i]
        /\ \A i \in 1 .. Len(new) : i \in 1 .. Len(Evicted) \/ i = Len(new)
    BY <1>1, <1>2
  <2>3. \A i \in 1 .. Len(Evicted) : Evicted[i].key # key
    BY <1>1, <1>4, <2>1 DEF Cached
  <2>4. \A g \in Headers : CredKey(g) = e.key => /\ e.estate.user = SessionOf(g).user
                                                 /\ e.estate.region = SessionOf(g).region
    BY KeyTellsSession DEF Read
  <2>5. Sound(new)
    BY <1>1, <1>2, <2>3, <2>4, AppendSound
  <2>6. Becoming(new, key)
    BY <1>4, <2>1, <2>2 DEF Becoming
  <2>7. \A i \in 1 .. Len(new) : new[i].key = key => {version} \subseteq {new[i].estate.asOf}
    BY <2>2, <2>3 DEF Read
  <2> HIDE DEF new
  <2>8. ToldIn(new, told') /\ LaterIn(new, since')
    BY <1>1, <2>1, <2>5, <2>6, <2>7, HistoriesKept
  <2>9. OwnEstate'
    BY <2>1, AnswersOwn DEF Read
  <2>10. QED BY <2>1, <2>5, <2>8, <2>9 DEF CacheInv
<1>7. CASE NoSession(h)
  <2>1. /\ ~Cached(key) /\ indexes' = Evicted /\ answer' = answer
        /\ Noted(key, Evicted, {})
    BY <1>7 DEF NoSession
  <2>2. Becoming(Evicted, key)
    BY <1>4 DEF Becoming
  <2>3. ToldIn(Evicted, told') /\ LaterIn(Evicted, since')
    BY <1>1, <1>2, <2>1, <2>2, HistoriesKept
  <2>4. OwnEstate'
    BY <2>1 DEF CacheInv, OwnEstate
  <2>5. QED BY <1>2, <2>1, <2>3, <2>4 DEF CacheInv
<1>8. QED BY <1>5, <1>6, <1>7 DEF Query

\* A tool that keeps nothing reads with the session of its request.
LEMMA CacheStateless ==
  ASSUME ServicesAssumption, CacheInv, NEW h \in Headers, Stateless(h)
  PROVE  CacheInv'
<1>1. UNCHANGED <<indexes, told, since>>
  BY DEF Stateless
<1>2. OwnEstate'
  BY AnswersOwn DEF Stateless, Read
<1>3. QED BY <1>1, <1>2 DEF CacheInv, Sound, ToldIn, LaterIn

\* A process that dies takes the cache with it, and its histories.
LEMMA CacheServer ==
  ASSUME ServicesAssumption, CacheInv, ServerStart \/ ServerCrash \/ AwsChanges
  PROVE  CacheInv'
<1>1. CASE ServerStart \/ AwsChanges
  BY <1>1, CacheElsewhere DEF ServerStart, AwsChanges, toolVars
<1>2. CASE ServerCrash
  <2>1. /\ indexes' = <<>> /\ told' = [k \in Keys |-> {}] /\ answer' = answer
        /\ Len(indexes') = 0 /\ 1 .. Len(indexes') = {}
    BY <1>2 DEF ServerCrash
  <2>2. Sound(indexes')
    BY <2>1 DEF Sound, ServicesAssumption
  <2>3. ToldIn(indexes', told') /\ LaterIn(indexes', since')
    BY <2>1 DEF ToldIn, LaterIn
  <2>4. OwnEstate'
    BY <2>1 DEF CacheInv, OwnEstate
  <2>5. QED BY <2>2, <2>3, <2>4 DEF CacheInv
<1>3. QED BY <1>1, <1>2

\* Every step keeps the cache in order.
LEMMA CacheStep == ServicesAssumption /\ TypeOK /\ CacheInv /\ [Next]_vars => CacheInv'
<1> SUFFICES ASSUME ServicesAssumption, TypeOK, CacheInv, [Next]_vars PROVE CacheInv'
  OBVIOUS
<1>1. CASE \E h \in Headers : Query(h) \/ Stateless(h)
  BY <1>1, CacheQuery, CacheStateless
<1>2. CASE ServerStart \/ ServerCrash \/ AwsChanges
  BY <1>2, CacheServer
<1>3. ASSUME NEW a \in Agents,
             AgentStart(a) \/ Open(a) \/ List(a) \/ Fail(a) \/ AgentCrash(a)
      PROVE  CacheInv'
  <2>1. UNCHANGED <<indexes, told, since, answer>>
    BY <1>3 DEF AgentStart, Open, List, Fail, AgentCrash, toolVars
  <2>2. QED BY <2>1, CacheElsewhere
<1>4. CASE UNCHANGED vars
  BY <1>4, CacheElsewhere DEF vars, toolVars
<1>5. QED BY <1>1, <1>2, <1>3, <1>4, AgentAsksAsAnyone DEF Next, Connector

\* A cache in order answers everyone from one scan of their own.
LEMMA CacheServes == TypeOK /\ CacheInv => ServesOwnEstate
<1> SUFFICES ASSUME TypeOK, CacheInv PROVE OneScanEach
  BY DEF ServesOwnEstate, CacheInv
<1>1. ASSUME NEW k \in Keys PROVE Cardinality(told[k]) <= 1
  <2>1. \A c, d \in told[k] : c = d
    BY DEF CacheInv, ToldIn, Sound
  <2>2. CASE told[k] = {}
    BY <2>2, FS_EmptySet
  <2>3. CASE told[k] # {}
    <3>1. PICK c : told[k] = {c} BY <2>1, <2>3
    <3>2. QED BY <3>1, FS_Singleton
  <2>4. QED BY <2>2, <2>3
<1>2. Len(indexes) <= MaxIndexes
  BY DEF CacheInv, Sound
<1>3. QED BY <1>1, <1>2 DEF OneScanEach

\* Whoever else asks, whatever makes room and whichever process answers: a request with a
\* pair of keys is answered with what is read with them for the region it names, one with no
\* headers with what the server reads, and while an index is kept from one scan
\* (estate_server.py:3; Services.tla, ServesOwnEstate).
THEOREM ServicesServeOwnEstate == Spec => []ServesOwnEstate
<1>1. ServicesAssumption
  BY ServicesAssumption
<1>2. QED
  BY <1>1, TypeInit, TypeStep, CacheInit, CacheStep, CacheServes, PTL DEF Spec

-----------------------------------------------------------------------------
(* Who makes room                                                          *)

\* Only finitely many have asked since an index was made.
FiniteSince == \A k \in Keys : IsFiniteSet(since[k])

\* Every step adds one key at most to those that have asked.
LEMMA FiniteSinceStep == FiniteSince /\ [Next]_vars => FiniteSince'
<1> SUFFICES ASSUME FiniteSince, [Next]_vars PROVE FiniteSince'
  OBVIOUS
<1>1. IsFiniteSet({}) /\ \A x : IsFiniteSet({x})
  BY FS_EmptySet, FS_Singleton
<1>2. ASSUME NEW key, NEW kept, NEW dates, Noted(key, kept, dates) PROVE FiniteSince'
  <2> SUFFICES ASSUME NEW k \in Keys PROVE IsFiniteSet(since'[k])
    BY DEF FiniteSince
  <2>1. since'[k] \in {{}, since[k], since[k] \cup {key}}
    BY <1>2 DEF Noted
  <2>2. IsFiniteSet(since[k]) /\ IsFiniteSet(since[k] \cup {key})
    BY FS_AddElement DEF FiniteSince
  <2>3. QED BY <1>1, <2>1, <2>2
<1>3. ASSUME NEW h \in Headers, Query(h) PROVE FiniteSince'
  BY <1>2, <1>3 DEF Query, Hit, Miss, NoSession
<1>4. CASE ServerCrash
  BY <1>1, <1>4 DEF ServerCrash, FiniteSince
<1>5. CASE UNCHANGED since
  BY <1>5 DEF FiniteSince
<1>6. ASSUME NEW h \in Headers, Stateless(h) PROVE UNCHANGED since
  BY <1>6 DEF Stateless
<1>7. ASSUME NEW a \in Agents,
             AgentStart(a) \/ Open(a) \/ List(a) \/ Fail(a) \/ AgentCrash(a)
      PROVE  UNCHANGED since
  BY <1>7 DEF AgentStart, Open, List, Fail, AgentCrash
<1>8. (ServerStart \/ AwsChanges \/ UNCHANGED vars) => UNCHANGED since
  BY DEF ServerStart, AwsChanges, vars
<1>9. QED BY <1>3, <1>4, <1>5, <1>6, <1>7, <1>8, AgentAsksAsAnyone DEF Next, Connector

Holds(ix, k) == \E i \in DOMAIN ix : ix[i].key = k

\* The only index that making room for `key` drops is that of the key which came first to a
\* full cache; all the others have asked since, and `key` is not among them.
LEMMA DroppedAfterAll ==
  ASSUME ServicesAssumption, CacheInv, FiniteSince, NEW key, ~Cached(key),
         NEW k \in Keys, Cached(k), ~Holds(Evicted, k)
  PROVE  Cardinality(since[k] \cup {key}) >= MaxIndexes
<1>1. /\ Sound(indexes)
      /\ indexes \in Seq(Entry) /\ DOMAIN indexes = 1 .. Len(indexes) /\ Len(indexes) \in Nat
      /\ MaxIndexes \in Nat \ {0}
  BY DEF CacheInv, Sound, ServicesAssumption
<1>2. PICK d \in {0, 1} : Drops(d, Evicted) /\ (d = 1 => Len(indexes) = MaxIndexes)
  BY <1>1, EvictedDropsOldest
<1>3. Evicted \in Seq(Entry) /\ DOMAIN Evicted = 1 .. Len(Evicted)
  BY <1>1, EvictedDropsOldest DEF Sound
<1>4. PICK i \in 1 .. Len(indexes) : indexes[i].key = k
  BY <1>1 DEF Cached
<1>5. i = 1 /\ d = 1 /\ Len(indexes) = MaxIndexes
  <2>1. ASSUME i - d \in 1 .. Len(Evicted) PROVE FALSE
    <3>1. Evicted[i - d] = indexes[(i - d) + d]
      BY <1>2, <2>1 DEF Drops
    <3>2. (i - d) + d = i
      OBVIOUS
    <3>3. QED BY <1>3, <1>4, <2>1, <3>1, <3>2 DEF Holds
  <2>2. Len(Evicted) = Len(indexes) - d
    BY <1>2 DEF Drops
  <2>3. Len(indexes) \in Nat
    BY <1>1
  <2>4. i = 1 /\ d = 1
    BY <2>1, <2>2, <2>3
  <2>5. QED BY <1>2, <2>4
<1> DEFINE T == since[k] \cup {key}
           asker == [j \in 1 .. MaxIndexes |-> IF j = 1 THEN key ELSE indexes[j].key]
<1>6. \A j \in 2 .. MaxIndexes : indexes[j].key \in since[k] /\ indexes[j].key # key
  BY <1>1, <1>4, <1>5 DEF CacheInv, LaterIn, Cached
<1>7. asker \in [1 .. MaxIndexes -> T]
  <2>1. \A j \in 1 .. MaxIndexes : j = 1 \/ j \in 2 .. MaxIndexes
    BY <1>1
  <2>2. QED BY <1>6, <2>1
<1>8. \A i1, i2 \in 1 .. MaxIndexes : asker[i1] = asker[i2] => i1 = i2
  <2>1. \A j \in 1 .. MaxIndexes : j = 1 \/ j \in 2 .. MaxIndexes
    BY <1>1
  <2>2. QED BY <1>1, <1>5, <1>6, <2>1 DEF Sound
<1> HIDE DEF asker
<1>9. asker \in Injection(1 .. MaxIndexes, T)
  BY <1>7, <1>8 DEF Injection, IsInjective
<1>10. IsFiniteSet(T)
  BY FS_AddElement DEF FiniteSince
<1>11. Cardinality(1 .. MaxIndexes) <= Cardinality(T)
  BY <1>9, <1>10, FS_Injection
<1>12. Cardinality(1 .. MaxIndexes) = MaxIndexes
  BY <1>1, FS_Interval
<1>13. Cardinality(T) \in Nat
  BY <1>10, FS_CardinalityType
<1>14. QED BY <1>1, <1>11, <1>12, <1>13

\* No step of the tool tier drops the index of a key sooner.
LEMMA PlaceStep ==
  ASSUME ServicesAssumption, CacheInv, FiniteSince, [Next]_vars,
         NEW k \in Keys, Cached(k), ~Holds(indexes', k), run' = run
  PROVE  \E key \in Keys : ~Cached(key) /\ Cardinality(since[k] \cup {key}) >= MaxIndexes
<1>1. ASSUME UNCHANGED indexes PROVE FALSE
  BY <1>1 DEF Cached, Holds
<1>2. ASSUME ServerStart \/ ServerCrash \/ AwsChanges PROVE FALSE
  BY <1>1, <1>2 DEF ServerStart, ServerCrash, AwsChanges, toolVars
<1>3. ASSUME NEW a \in Agents,
             AgentStart(a) \/ Open(a) \/ List(a) \/ Fail(a) \/ AgentCrash(a)
      PROVE  FALSE
  BY <1>1, <1>3 DEF AgentStart, Open, List, Fail, AgentCrash, toolVars
<1>4. PICK h \in Headers : Query(h) \/ Stateless(h)
  BY <1>1, <1>2, <1>3, AgentAsksAsAnyone DEF Next, Connector, vars, toolVars
<1>5. Miss(h) \/ NoSession(h)
  BY <1>1, <1>4 DEF Query, Stateless, Hit
<1> DEFINE key == CredKey(h)
<1>6. key \in Keys /\ ~Cached(key)
  BY <1>5 DEF Miss, NoSession, Keys
<1>7. ~Holds(Evicted, k)
  <2>1. CASE NoSession(h)
    BY <2>1 DEF NoSession
  <2>2. CASE Miss(h)
    <3> DEFINE e == [key |-> key, estate |-> Read(SessionOf(h))]
    <3>1. /\ Evicted \in Seq(Entry) /\ Len(Evicted) \in Nat
          /\ DOMAIN Evicted = 1 .. Len(Evicted)
      BY EvictedDropsOldest DEF CacheInv, Sound
    <3>2. indexes' = Append(Evicted, e)
      BY <2>2 DEF Miss
    <3>3. \A i \in 1 .. Len(Evicted) : i \in DOMAIN indexes' /\ indexes'[i] = Evicted[i]
      <4> HIDE DEF e
      <4>1. QED BY <3>1, <3>2
    <3>4. QED BY <3>1, <3>3 DEF Holds
  <2>3. QED BY <1>5, <2>1, <2>2
<1>8. Cardinality(since[k] \cup {key}) >= MaxIndexes
  BY <1>6, <1>7, DroppedAfterAll
<1>9. QED BY <1>6, <1>8

\* Nobody's estate makes room for the one that came before it: with a cache of any size an
\* index is dropped only after as many others have asked as the cache has places
\* (estate_server.py:43-45; Services.tla, KeepsItsPlace).
THEOREM ServicesKeepTheirPlace == Spec => KeepsItsPlace
<1> DEFINE Keeps ==
      \A k \in Keys :
        Cached(k) /\ ~(\E i \in DOMAIN indexes' : indexes'[i].key = k) /\ run' = run
          => \E key \in Keys : ~Cached(key) /\ Cardinality(since[k] \cup {key}) >= MaxIndexes
<1>1. ServicesAssumption
  BY ServicesAssumption
<1>2. Init => FiniteSince
  BY FS_EmptySet DEF Init, FiniteSince
<1>3. ServicesAssumption /\ CacheInv /\ FiniteSince /\ [Next]_vars => [Keeps]_vars
  BY PlaceStep DEF Holds
<1>4. QED
  BY <1>1, <1>2, <1>3, TypeInit, TypeStep, CacheInit, CacheStep, FiniteSinceStep, PTL
     DEF Spec, KeepsItsPlace
=============================================================================
