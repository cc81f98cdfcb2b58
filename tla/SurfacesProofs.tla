--------------------------- MODULE SurfacesProofs ---------------------------
(***************************************************************************)
(* Proofs about Surfaces, for any requests, questions, files and           *)
(* environments: what is written and with which configuration, what leaves *)
(* the process, and whether what it tells of itself is true.               *)
(***************************************************************************)
EXTENDS Surfaces, TLAPS

\* The places of a request that has its configuration.
Served == {"session", "keep_session", "work", "count", "ask", "agent", "record", "check", "note",
           "answer"}
Over   == {"idle", "answered", "refused", "failed"}

\* A request has a configuration that was loaded and, while no two threads have made the caches
\* at once, the one that is kept; it has a session before it is applied.
SafeReq(q, c, ld, rc) ==
  /\ q.at = "keep" => q.cfg \in ld
  /\ q.at \in {"config", "keep"} => q.session = 0
  /\ q.at \in Served /\ q.route # "metrics" =>
       /\ q.cfg \in ld /\ c # 0 /\ q.session \in ld \cup {0}
       /\ ~rc => q.cfg = c /\ q.session \in {0, c}
  /\ q.at = "keep_session" \/ (q.at = "work" /\ q.route = "apply") => q.session # 0
  /\ q.route = "metrics" => q.at \in {"work", "tally"} \cup Over

CachesInv ==
  /\ loads \subseteq Versions /\ raced \in BOOLEAN
  /\ config \in loads \cup {0} /\ session \in loads \cup {0}
  /\ ~raced => session \in {0, config}

RequestsInv ==
  /\ req \in [Requests -> Shape]
  /\ \A r \in Requests : SafeReq(req[r], config, loads, raced)

\* The caches only fill.
Grows ==
  /\ loads \subseteq loads' /\ (raced => raced')
  /\ (config # 0 => config' = config)

\* A step of one request, which then is safe.
Moves(r) ==
  \E q \in Shape : req' = [req EXCEPT ![r] = q] /\ SafeReq(q, config', loads', raced')

\* What is safe stays so while the caches fill.
LEMMA SafeGrows ==
  ASSUME Grows, NEW q, SafeReq(q, config, loads, raced)
  PROVE  SafeReq(q, config', loads', raced')
BY DEF Grows, SafeReq

\* A step of one request keeps the others as they are.
LEMMA RequestsOfOne ==
  ASSUME RequestsInv, Grows, NEW r \in Requests, Moves(r)
  PROVE  RequestsInv'
<1>1. PICK q \in Shape : req' = [req EXCEPT ![r] = q] /\ SafeReq(q, config', loads', raced')
  BY DEF Moves
<1>2. req' \in [Requests -> Shape]
  BY <1>1 DEF RequestsInv
<1>3. ASSUME NEW u \in Requests PROVE SafeReq(req'[u], config', loads', raced')
  <2>1. req'[u] = IF u = r THEN q ELSE req[u]
    BY <1>1 DEF RequestsInv
  <2>2. SafeReq(req[u], config', loads', raced')
    BY SafeGrows DEF RequestsInv
  <2>3. QED BY <1>1, <2>1, <2>2
<1>4. QED BY <1>2, <1>3 DEF RequestsInv

-----------------------------------------------------------------------------
(* The ends of a request                                                   *)

\* What is kept of a request that ends, or is handed on, has the shape of one.
LEMMA IdleShape ==
  ASSUME NEW ran \in 0 .. 2, NEW place \in Places, NEW route \in Routes \cup {"query", None}
  PROVE  /\ [Idle EXCEPT !.at = place, !.ran = ran] \in Shape
         /\ [Idle EXCEPT !.at = place, !.route = route, !.ran = ran] \in Shape
BY DEF Idle, Shape

\* However a request ends, what is kept of it is safe.
LEMMA MovesToEnd ==
  ASSUME SurfacesAssumption, RequestsInv, NEW r \in Requests,
         Fails(r) \/ Answered(r) \/ Refused(r)
  PROVE  Moves(r)
<1>1. req[r].route \in Routes \cup {"query", None} /\ req[r].ran \in 0 .. 2
  BY DEF RequestsInv, Shape
<1>2. ASSUME NEW how \in {"answered", "refused", "failed"}, Finishes(r, how) PROVE Moves(r)
  <2> DEFINE q == [Idle EXCEPT !.at = how, !.ran = req[r].ran]
  <2>1. q \in Shape
    BY <1>1, IdleShape DEF Places
  <2>2. q.at = how /\ q.route = None
    BY DEF Idle
  <2>3. req' = [req EXCEPT ![r] = q]
    BY <1>2 DEF Finishes
  <2> HIDE DEF q
  <2>4. SafeReq(q, config', loads', raced')
    BY <2>2 DEF SafeReq, Served, Over
  <2>5. QED BY <2>1, <2>3, <2>4 DEF Moves
<1>3. CASE Raised(r) /\ ~Finishes(r, "failed")
  <2> DEFINE q == [Idle EXCEPT !.at = Entry(req[r].route), !.route = req[r].route,
                               !.ran = req[r].ran + 1]
  <2>1. /\ req' = [req EXCEPT ![r] = q] /\ req[r].route \in {"cost", "metrics"}
        /\ req[r].ran = 1
    BY <1>3 DEF Raised, Dispatched
  <2>2. q \in Shape
    <3>1. Entry(req[r].route) \in Places /\ req[r].ran + 1 \in 0 .. 2
      BY <2>1 DEF Places, Entry
    <3>2. QED BY <1>1, <3>1, IdleShape
  <2>3. q.at = Entry(req[r].route) /\ q.route = req[r].route /\ q.session = 0
    BY DEF Idle
  <2> HIDE DEF q
  <2>4. SafeReq(q, config', loads', raced')
    BY <2>1, <2>3 DEF SafeReq, Served, Entry
  <2>5. QED BY <2>1, <2>2, <2>4 DEF Moves
<1>4. QED BY <1>2, <1>3 DEF Fails, Answered, Refused

-----------------------------------------------------------------------------
(* The caches                                                              *)

\* The steps of a request that leave configuration and session as they are.
Elsewhere(r) ==
  \/ Arrive(r) \/ Endpoint(r) \/ Reset(r) \/ RunRemote(r) \/ RunAgent(r)
  \/ Record(r) \/ Check(r) \/ Note(r) \/ Answer(r)

LEMMA ElsewhereCaches ==
  ASSUME NEW r \in Requests, Elsewhere(r)
  PROVE  UNCHANGED <<config, session, loads, raced, kind, env, up, file>>
BY DEF Elsewhere, Arrive, Endpoint, Reset, RunRemote, RunAgent, Record, Check, Note, Answer,
       AddUp, Metrics, CostCall, Count, FixEndpoint, PreviewEndpoint, ApplyEndpoint, caches, fixed

\* What a thread loads, builds or keeps is a configuration that was loaded; and unless two
\* threads raced, a session is that of the configuration that is kept.
LEMMA CachesOfRequest ==
  ASSUME SurfacesAssumption, file \in Versions, CachesInv, RequestsInv, NEW r \in Requests, Request(r)
  PROVE  CachesInv' /\ Grows /\ UNCHANGED <<kind, env, up, file>>
<1>0. SafeReq(req[r], config, loads, raced) /\ 0 \notin Versions
  BY DEF RequestsInv, SurfacesAssumption, Versions
<1>1. CASE Elsewhere(r)
  BY <1>1, ElsewhereCaches DEF CachesInv, Grows
<1>2. CASE AskConfig(r)
  <2>1. /\ UNCHANGED <<session, raced, kind, env, up, file>>
        /\ \/ UNCHANGED <<config, loads>>
           \/ config = 0 /\ loads' = loads \cup {file} /\ config' \in {0, file}
    BY <1>2 DEF AskConfig, fixed
  <2>2. QED BY <2>1 DEF CachesInv, Grows
<1>3. CASE KeepConfig(r)
  <2>1. /\ UNCHANGED <<session, loads, kind, env, up, file>>
        /\ config' = First(config, req[r].cfg) /\ req[r].cfg \in loads
        /\ raced' = (raced \/ config \notin {0, req[r].cfg})
    BY <1>0, <1>3 DEF KeepConfig, fixed, At, SafeReq
  <2>2. raced' \in BOOLEAN
    BY <2>1 DEF CachesInv
  <2>3. QED BY <1>0, <2>1, <2>2 DEF CachesInv, Grows, First
<1>4. CASE AskSession(r)
  BY <1>4 DEF AskSession, fixed, caches, CachesInv, Grows
<1>5. CASE KeepSession(r)
  <2>1. /\ UNCHANGED <<config, loads, kind, env, up, file>>
        /\ session' = First(session, req[r].session)
        /\ raced' = (raced \/ session \notin {0, req[r].session})
        /\ req[r].at = "keep_session"
    BY <1>5 DEF KeepSession, fixed, At
  <2>2. req[r].session \in loads \cup {0} /\ (~raced => req[r].session \in {0, config})
    BY <1>0, <2>1 DEF SafeReq, Served, Over
  <2>3. raced' \in BOOLEAN
    BY <2>1 DEF CachesInv
  <2>4. QED BY <2>1, <2>2, <2>3 DEF CachesInv, Grows, First
<1>6. QED
  BY <1>1, <1>2, <1>3, <1>4, <1>5 DEF Request, Route, Elsewhere

-----------------------------------------------------------------------------
(* The steps of one request                                                *)

\* Going on to a place where nothing more is asked of a request.
LEMMA Onward ==
  ASSUME RequestsInv, Grows, NEW r \in Requests,
         NEW place \in Served \ {"session", "keep_session", "work"},
         req[r].at \in Served, req[r].route # "metrics",
         NEW asked \in SUBSET Tools, NEW seen \in Nat,
         req' = [req EXCEPT ![r] = [req[r] EXCEPT !.at = place, !.asked = asked, !.seen = seen]]
  PROVE  Moves(r)
<1> DEFINE q == [req[r] EXCEPT !.at = place, !.asked = asked, !.seen = seen]
<1>1. req[r] \in Shape /\ SafeReq(req[r], config, loads, raced) /\ place \in Places
  BY DEF RequestsInv, Served, Places
<1>2. /\ q \in Shape
      /\ q.at = place /\ q.route = req[r].route /\ q.cfg = req[r].cfg /\ q.session = req[r].session
      /\ q.ran = req[r].ran
  BY <1>1 DEF Shape
<1> HIDE DEF q
<1>3. SafeReq(q, config, loads, raced)
  BY <1>1, <1>2 DEF SafeReq, Served, Over
<1>4. QED BY <1>2, <1>3, SafeGrows DEF Moves, q

\* The same where only the place changes.
LEMMA GoesOnward ==
  ASSUME RequestsInv, Grows, NEW r \in Requests,
         NEW place \in Served \ {"session", "keep_session", "work"},
         req[r].at \in Served, req[r].route # "metrics", Goes(r, place)
  PROVE  Moves(r)
<1>1. req[r] \in Shape
  BY DEF RequestsInv
<1>2. req[r].asked \in SUBSET Tools /\ req[r].seen \in Nat
  BY <1>1 DEF Shape
<1>3. req' = [req EXCEPT ![r] = [req[r] EXCEPT !.at = place, !.asked = req[r].asked,
                                               !.seen = req[r].seen]]
  BY <1>1 DEF Goes, RequestsInv, Shape
<1>4. QED BY <1>2, <1>3, Onward

\* An endpoint ends the request or counts a call.
LEMMA EndpointMoves ==
  ASSUME SurfacesAssumption, counts \in Nat, RequestsInv, Grows, NEW r \in Requests, Endpoint(r)
  PROVE  Moves(r)
<1>1. CASE Fails(r) \/ Answered(r) \/ Refused(r)
  BY <1>1, MovesToEnd
<1>2. CASE Received(r) /\ At(r, "work") /\ req[r].route \in {"cost", "apply"}
  <2>1. /\ req[r].asked \in SUBSET Tools /\ req[r] \in Shape
        /\ "count" \in Served \ {"session", "keep_session", "work"} /\ "work" \in Served
    BY DEF RequestsInv, Shape, Served
  <2>2. req' = [req EXCEPT ![r] = [req[r] EXCEPT !.at = "count", !.asked = req[r].asked, !.seen = counts]]
    BY <1>2, <2>1, ZenonT(40) DEF Received, RequestsInv, Shape
  <2>3. QED BY <1>2, <2>1, <2>2, Onward DEF At
<1>a. CASE AddUp(r)
  <2> DEFINE q == [req[r] EXCEPT !.seen = counts, !.at = "tally"]
  <2>1. /\ req[r] \in Shape /\ SafeReq(req[r], config, loads, raced)
        /\ req[r].route = "metrics"
    BY <1>a DEF AddUp, RequestsInv
  <2>2. q \in Shape /\ q.at = "tally" /\ q.route = "metrics"
    BY <2>1 DEF Shape, Places
  <2>3. req' = [req EXCEPT ![r] = q]
    BY <1>a, <2>1 DEF AddUp, RequestsInv, Shape
  <2> HIDE DEF q
  <2>4. SafeReq(q, config', loads', raced')
    BY <2>2 DEF SafeReq, Served
  <2>5. QED BY <2>2, <2>3, <2>4 DEF Moves
<1>3. QED
  BY <1>1, <1>2, <1>a DEF Endpoint, AddUp, Metrics, CostCall, Unreached, FixEndpoint, PreviewEndpoint,
                    ApplyEndpoint, Count

\* A question goes from its agent to its answer, or fails.
LEMMA RouteMoves ==
  ASSUME SurfacesAssumption, RequestsInv, Grows, NEW r \in Requests, Route(r)
  PROVE  Moves(r)
<1>0. req[r].route = "metrics" => req[r].at \in {"work", "tally"} \cup Over
  BY DEF RequestsInv, SafeReq
<1>1. CASE Fails(r) \/ Answered(r) \/ Refused(r)
  BY <1>1, MovesToEnd
<1>2. ASSUME NEW place \in {"agent", "answer", "check", "note"}, Goes(r, place),
             req[r].at \in Served, req[r].route # "metrics"
      PROVE  Moves(r)
  BY <1>2, GoesOnward DEF Served
<1>3. CASE Reset(r)
  BY <1>0, <1>2, <1>3 DEF Reset, At, Asks, Served, Over
<1>4. CASE RunRemote(r)
  BY <1>0, <1>1, <1>2, <1>4 DEF RunRemote, At, Served, Over
<1>5. CASE RunAgent(r)
  <2>1. /\ req[r] \in Shape /\ req[r].seen \in Nat
        /\ "record" \in Served \ {"session", "keep_session", "work"}
        /\ req[r].at \in Served /\ req[r].route # "metrics"
    BY <1>0, <1>5 DEF RunAgent, At, Served, Over, RequestsInv, Shape
  <2>2. ASSUME NEW asked \in Wanted, req' = [req EXCEPT ![r].asked = asked, ![r].at = "record"]
        PROVE  Moves(r)
    <3>1. asked \in SUBSET Tools
      BY DEF SurfacesAssumption
    <3>2. req' = [req EXCEPT ![r] = [req[r] EXCEPT !.at = "record", !.asked = asked,
                                                   !.seen = req[r].seen]]
      BY <2>1, <2>2 DEF RequestsInv, Shape
    <3>3. QED BY <2>1, <3>1, <3>2, Onward
  <2>3. QED BY <1>1, <1>5, <2>2 DEF RunAgent
<1>6. CASE Record(r)
  BY <1>0, <1>2, <1>6 DEF Record, At, Served, Over
<1>7. CASE Check(r)
  BY <1>0, <1>2, <1>7 DEF Check, At, Served, Over
<1>8. CASE Note(r)
  BY <1>0, <1>1, <1>2, <1>8 DEF Note, At, Served, Over
<1>9. QED
  BY <1>1, <1>3, <1>4, <1>5, <1>6, <1>7, <1>8 DEF Route, Answer

\* A request gets its configuration and its session.
LEMMA CacheMoves ==
  ASSUME SurfacesAssumption, file \in Versions, CachesInv, RequestsInv, Grows, NEW r \in Requests,
         AskConfig(r) \/ KeepConfig(r) \/ AskSession(r) \/ KeepSession(r)
  PROVE  Moves(r)
<1>0. /\ req[r] \in Shape /\ SafeReq(req[r], config, loads, raced)
      /\ 0 \notin Versions /\ loads \subseteq Versions
  BY DEF RequestsInv, CachesInv, SurfacesAssumption, Versions
<1>1. CASE Fails(r) \/ Answered(r) \/ Refused(r)
  BY <1>1, MovesToEnd
<1>2. AfterConfig(req[r].route) = "session"
        \/ (AfterConfig(req[r].route) = "work" /\ req[r].route # "apply")
  BY DEF AfterConfig
<1>3. CASE AskConfig(r) /\ config # 0 /\ ~Fails(r)
  <2> DEFINE place == IF kind = "chat" THEN "ask" ELSE AfterConfig(req[r].route)
             q == [req[r] EXCEPT !.cfg = config, !.at = place]
  <2>1. /\ req' = [req EXCEPT ![r] = q] /\ req[r].at = "config"
        /\ UNCHANGED <<config, loads, raced>>
    BY <1>0, <1>3 DEF AskConfig, At, RequestsInv, Shape
  <2>2. place \in {"session", "ask"} \/ (place = "work" /\ req[r].route # "apply")
    BY <1>2
  <2>3. place \in Places
    BY <2>2 DEF Places
  <2> HIDE DEF place
  <2>4. /\ q \in Shape /\ q.at = place /\ q.cfg = config
        /\ q.route = req[r].route /\ q.session = req[r].session /\ q.ran = req[r].ran
    BY <1>0, <2>3 DEF Shape, CachesInv
  <2> HIDE DEF q
  <2>5. SafeReq(q, config, loads, raced)
    BY <1>0, <1>3, <2>1, <2>2, <2>4 DEF SafeReq, Served, Over, CachesInv
  <2>6. QED BY <2>1, <2>4, <2>5 DEF Moves
<1>4. CASE AskConfig(r) /\ config = 0 /\ ~Fails(r)
  <2> DEFINE place == IF kind = "chat" THEN "ask" ELSE "keep"
             q == [req[r] EXCEPT !.cfg = file, !.at = place]
  <2>1. /\ req' = [req EXCEPT ![r] = q] /\ req[r].at = "config"
        /\ loads' = loads \cup {file} /\ (place = "ask" => config' = file)
    BY <1>0, <1>4 DEF AskConfig, At, RequestsInv, Shape
  <2>2. place \in {"ask", "keep"} /\ place \in Places
    BY DEF Places
  <2> HIDE DEF place
  <2>3. /\ q \in Shape /\ q.at = place /\ q.cfg = file
        /\ q.route = req[r].route /\ q.session = req[r].session /\ q.ran = req[r].ran
    BY <1>0, <2>2 DEF Shape
  <2> HIDE DEF q
  <2>4. SafeReq(q, config', loads', raced')
    BY <1>0, <2>1, <2>2, <2>3 DEF SafeReq, Served, Over
  <2>5. QED BY <2>1, <2>3, <2>4 DEF Moves
<1>5. CASE KeepConfig(r)
  <2> DEFINE place == AfterConfig(req[r].route)
             q == [req[r] EXCEPT !.at = place]
  <2>1. /\ req' = [req EXCEPT ![r] = q] /\ req[r].at = "keep" /\ loads' = loads
        /\ config' = First(config, req[r].cfg)
        /\ raced' = (raced \/ config \notin {0, req[r].cfg})
    BY <1>0, <1>5 DEF KeepConfig, At, Goes, RequestsInv
  <2>2. place = "session" \/ (place = "work" /\ req[r].route # "apply")
    BY <1>2
  <2>3. place \in Places
    BY <2>2 DEF Places
  <2> HIDE DEF place
  <2>4. /\ q \in Shape /\ q.at = place /\ q.cfg = req[r].cfg
        /\ q.route = req[r].route /\ q.session = req[r].session /\ q.ran = req[r].ran
    BY <1>0, <2>3 DEF Shape
  <2> HIDE DEF q
  <2>5. req[r].cfg \in loads /\ config' # 0 /\ (~raced' => config' = req[r].cfg)
    BY <1>0, <2>1 DEF SafeReq, First, CachesInv
  <2>6. SafeReq(q, config', loads', raced')
    BY <1>0, <2>1, <2>2, <2>4, <2>5 DEF SafeReq, Served, Over
  <2>7. QED BY <2>1, <2>4, <2>6 DEF Moves
<1>6. CASE AskSession(r) /\ ~(Fails(r) \/ Refused(r))
  <2>1. /\ req[r].at = "session" /\ UNCHANGED <<config, loads, raced>>
        /\ \/ session # 0 /\ req' = [req EXCEPT ![r].session = session, ![r].at = "work"]
           \/ req' = [req EXCEPT ![r].session = Base(r), ![r].at = "keep_session"]
    BY <1>6 DEF AskSession, NoSession, At, caches
  <2>2. /\ Base(r) \in loads /\ Base(r) # 0 /\ (~raced => Base(r) = config)
        /\ req[r].route # "metrics"
    BY <1>0, <2>1 DEF Base, SafeReq, Served, Over, CachesInv
  <2>3. ASSUME NEW s \in loads, s # 0, ~raced => s = config, NEW place \in {"work", "keep_session"},
               req' = [req EXCEPT ![r] = [req[r] EXCEPT !.session = s, !.at = place]]
        PROVE  Moves(r)
    <3> DEFINE q == [req[r] EXCEPT !.session = s, !.at = place]
    <3>1. /\ q \in Shape /\ q.at = place /\ q.cfg = req[r].cfg
          /\ q.route = req[r].route /\ q.session = s /\ q.ran = req[r].ran
      BY <1>0, <2>3 DEF Shape, Places
    <3> HIDE DEF q
    <3>2. SafeReq(q, config, loads, raced)
      BY <1>0, <2>1, <2>2, <2>3, <3>1 DEF SafeReq, Served, Over
    <3>3. QED BY <2>1, <2>3, <3>1, <3>2 DEF Moves, q
  <2>4. CASE session # 0 /\ req' = [req EXCEPT ![r].session = session, ![r].at = "work"]
    <3>1. session \in loads /\ (~raced => session = config)
      BY <2>4 DEF CachesInv
    <3>2. req' = [req EXCEPT ![r] = [req[r] EXCEPT !.session = session, !.at = "work"]]
      BY <1>0, <2>4 DEF RequestsInv, Shape
    <3>3. QED BY <2>3, <2>4, <3>1, <3>2
  <2>5. CASE req' = [req EXCEPT ![r].session = Base(r), ![r].at = "keep_session"]
    <3>1. req' = [req EXCEPT ![r] = [req[r] EXCEPT !.session = Base(r), !.at = "keep_session"]]
      BY <1>0, <2>5 DEF RequestsInv, Shape
    <3>2. QED BY <2>2, <2>3, <3>1
  <2>6. QED BY <2>1, <2>4, <2>5
<1>7. CASE KeepSession(r)
  <2> DEFINE q == [req[r] EXCEPT !.at = "work"]
  <2>1. /\ req' = [req EXCEPT ![r] = q] /\ req[r].at = "keep_session"
        /\ UNCHANGED <<config, loads>>
    BY <1>0, <1>7 DEF KeepSession, At, Goes, RequestsInv
  <2>2. /\ q \in Shape /\ q.at = "work" /\ q.cfg = req[r].cfg
        /\ q.route = req[r].route /\ q.session = req[r].session /\ q.ran = req[r].ran
    BY <1>0 DEF Shape, Places
  <2> HIDE DEF q
  <2>3. SafeReq(q, config, loads, raced)
    BY <1>0, <2>1, <2>2 DEF SafeReq, Served, Over
  <2>4. QED BY <2>1, <2>2, <2>3, SafeGrows DEF Moves
<1>8. QED
  BY <1>1, <1>3, <1>4, <1>5, <1>6, <1>7

\* A request that has not come yet.
LEMMA IdleIsOne ==
  Idle \in Shape /\ Idle.at = "idle" /\ Idle.session = 0
<1>1. "idle" \in Places /\ 0 \in 0 .. 2
  BY DEF Places
<1>2. Idle.at = "idle" /\ Idle.ran = 0 /\ Idle.session = 0
  BY SMTT(30) DEF Idle
<1>3. [Idle EXCEPT !.at = "idle", !.ran = 0] \in Shape
  BY <1>1, IdleShape
<1>4. Idle = [Idle EXCEPT !.at = "idle", !.ran = 0]
  BY <1>2 DEF Idle
<1>5. QED BY <1>2, <1>3, <1>4

\* A request arrives, and may join others.
LEMMA ArriveKeeps ==
  ASSUME SurfacesAssumption, kind \in {"api", "chat", "cli"}, RequestsInv, Grows,
         NEW r \in Requests, Arrive(r)
  PROVE  RequestsInv'
<1>1. PICK route \in (IF kind = "api" THEN Routes ELSE {"query"}) :
        \E question \in (IF route \in {"query", "structured"} THEN Asking ELSE {None}) :
        \E remote \in (IF question = None THEN {FALSE} ELSE BOOLEAN) :
          Joined(r, [Idle EXCEPT !.at = Entry(route), !.route = route, !.question = question,
                                 !.remote = remote, !.ran = 1])
  BY DEF Arrive
<1>2. PICK question \in (IF route \in {"query", "structured"} THEN Asking ELSE {None}) :
      \E remote \in (IF question = None THEN {FALSE} ELSE BOOLEAN) :
          Joined(r, [Idle EXCEPT !.at = Entry(route), !.route = route, !.question = question,
                                 !.remote = remote, !.ran = 1])
  BY <1>1
<1>3. PICK remote \in (IF question = None THEN {FALSE} ELSE BOOLEAN) :
          Joined(r, [Idle EXCEPT !.at = Entry(route), !.route = route, !.question = question,
                                 !.remote = remote, !.ran = 1])
  BY <1>2
<1> DEFINE place == Entry(route)
           new == [Idle EXCEPT !.at = place, !.route = route, !.question = question,
                               !.remote = remote, !.ran = 1]
<1>4. place \in Places /\ place \in {"work", "config"} /\ (place = "work" <=> route = "metrics")
  BY DEF Places, Entry
<1>5. /\ route \in Routes \cup {"query", None} /\ question \in Asking \cup {None}
      /\ remote \in BOOLEAN
  BY <1>1, <1>2, <1>3
<1>6. Joined(r, new)
  BY <1>3
<1> HIDE DEF place
<1>7. /\ new \in Shape
      /\ new.at = place /\ new.route = route /\ new.session = 0 /\ new.ran = 1
  <2>1. place \in Places /\ 1 \in 0 .. 2
    BY <1>4
  <2>2. QED BY <2>1, <1>5, IdleIsOne, ZenonT(40) DEF Shape
<1> HIDE DEF new
<1>8. SafeReq(new, config', loads', raced')
  BY <1>4, <1>7 DEF SafeReq, Served, Over
<1>9. ASSUME NEW q \in Shape, SafeReq(q, config', loads', raced'), NEW b \in BOOLEAN
      PROVE  /\ [q EXCEPT !.together = b] \in Shape
             /\ SafeReq([q EXCEPT !.together = b], config', loads', raced')
  <2> DEFINE p == [q EXCEPT !.together = b]
  <2>1. /\ p \in Shape /\ p.at = q.at /\ p.cfg = q.cfg /\ p.route = q.route
        /\ p.session = q.session /\ p.ran = q.ran
    BY DEF Shape
  <2> HIDE DEF p
  <2>2. SafeReq(p, config', loads', raced')
    BY <1>9, <2>1 DEF SafeReq
  <2>3. QED BY <2>1, <2>2 DEF p
<1>10. /\ req' = [q \in Requests |-> req'[q]]
       /\ \A q \in Requests :
            \/ q = r /\ \E b \in BOOLEAN : req'[q] = [new EXCEPT !.together = b]
            \/ \E b \in BOOLEAN : req'[q] = [req[q] EXCEPT !.together = b]
            \/ req'[q] = req[q]
  BY <1>6 DEF Joined
<1>11. \A q \in Requests : req[q] \in Shape /\ SafeReq(req[q], config', loads', raced')
  BY SafeGrows DEF RequestsInv
<1>12. \A q \in Requests : req'[q] \in Shape /\ SafeReq(req'[q], config', loads', raced')
  BY <1>7, <1>8, <1>9, <1>10, <1>11
<1>13. QED BY <1>10, <1>12 DEF RequestsInv

-----------------------------------------------------------------------------
(* What is written                                                         *)

\* A write is permitted by the configuration it was made with and, unless two threads raced,
\* made with the session of that configuration.
Lawful(w, ld, rc) ==
  /\ w.cfg \in ld /\ w.session \in ld
  /\ IF w.what = "artifact" THEN Cfg(w.cfg).mode \in {"artifacts", "guarded_write"}
     ELSE Cfg(w.cfg).mode = "guarded_write"
  /\ ~rc => w.session = w.cfg

WritesInv == \A w \in writes : Lawful(w, loads, raced)

\* What was lawful stays so, and what is written is.
LEMMA WritesGrow ==
  ASSUME WritesInv, Grows, env' = env,
         \A w \in writes' : w \in writes \/ Lawful(w, loads, raced)
  PROVE  WritesInv'
BY DEF WritesInv, Grows, Lawful, Cfg

\* The endpoints and the agent of a request.
LEMMA WritesOfRequest ==
  ASSUME SurfacesAssumption, CachesInv, RequestsInv, WritesInv, NEW r \in Requests, Request(r),
         Grows, env' = env
  PROVE  WritesInv'
<1>0. SafeReq(req[r], config, loads, raced) /\ 0 \notin loads
  BY DEF RequestsInv, CachesInv, SurfacesAssumption, Versions
<1>1. CASE UNCHANGED writes
  BY <1>1, WritesGrow
<1>2. CASE FixEndpoint(r) /\ writes' # writes
  <2> DEFINE w == [what |-> "artifact", cfg |-> req[r].cfg, session |-> req[r].cfg]
  <2>1. /\ req[r].at = "work" /\ req[r].route = "fix"
        /\ CanGenerateArtifacts(Cfg(req[r].cfg).mode)
        /\ writes' = writes \cup {w}
    BY <1>2 DEF FixEndpoint, At
  <2>2. Lawful(w, loads, raced)
    BY <1>0, <2>1 DEF Lawful, SafeReq, Served, CanGenerateArtifacts
  <2>3. QED BY <2>1, <2>2, WritesGrow
<1>3. CASE ApplyEndpoint(r) /\ writes' # writes
  <2> DEFINE w == [what |-> "action", cfg |-> req[r].cfg, session |-> req[r].session]
  <2>1. /\ req[r].at = "work" /\ req[r].route = "apply"
        /\ CanApplyActions(Cfg(req[r].cfg).mode)
        /\ writes' = writes \cup {w}
    BY <1>3 DEF ApplyEndpoint, At
  <2>2. Lawful(w, loads, raced)
    BY <1>0, <2>1 DEF Lawful, SafeReq, Served, CanApplyActions
  <2>3. QED BY <2>1, <2>2, WritesGrow
<1>4. CASE RunAgent(r) /\ writes' # writes
  <2>1. PICK asked \in Wanted :
          writes' = writes \cup
            {[what |-> t, cfg |-> req[r].cfg, session |-> PrincipalOf(r)] :
               t \in {w \in Executed(AgentOf(r), asked) : w = "write" /\ HasSession(r)}}
    BY <1>4 DEF RunAgent
  <2>2. req[r].at = "agent" /\ AgentOf(r).guard = Cfg(req[r].cfg).mode
    BY <1>4 DEF RunAgent, At, AgentOf, Agent
  <2>3. /\ req[r].cfg \in loads /\ PrincipalOf(r) \in loads
        /\ ~raced => PrincipalOf(r) = req[r].cfg
    BY <1>0, <2>2 DEF SafeReq, Served, Over, PrincipalOf
  <2>4. ASSUME NEW t \in {w \in Executed(AgentOf(r), asked) : w = "write" /\ HasSession(r)}
        PROVE  Lawful([what |-> t, cfg |-> req[r].cfg, session |-> PrincipalOf(r)], loads, raced)
    <3>1. t = "write" /\ Cfg(req[r].cfg).mode = "guarded_write"
      BY <2>2, <2>4 DEF Executed, Blocked, CanApplyActions
    <3>2. QED BY <2>3, <3>1 DEF Lawful
  <2>5. QED BY <2>1, <2>4, WritesGrow
<1>5. QED
  BY <1>1, <1>2, <1>3, <1>4
     DEF Request, Arrive, AskConfig, KeepConfig, AskSession, KeepSession, Endpoint, AddUp, Metrics,
         CostCall, Count, PreviewEndpoint, Route, Reset, RunRemote, Record, Check, Note, Answer

-----------------------------------------------------------------------------
(* The command lines                                                       *)

\* A command writes nothing, and runs no agent, before it has its configuration; it writes an
\* artifact or applies an action only where it has asked whether it may.
Orderly(steps) ==
  /\ Len(steps) \in 0 .. 5 /\ DOMAIN steps = 1 .. Len(steps)
  /\ \A i \in DOMAIN steps :
       /\ steps[i].does \in {"artifact", "apply", "run"} => i > 2 /\ steps[1] = Step("load", "raises")
       /\ steps[i].does = "artifact" => steps[2] = Step("artifacts", "caught")
       /\ steps[i].does = "apply" => steps[2] = Step("writes", "caught")

LEMMA CommandsAreOrderly ==
  ASSUME NEW program \in DOMAIN Programs, NEW name \in DOMAIN Programs[program]
  PROVE  Orderly(Programs[program][name])
<1>1. /\ Orderly(PreflightCommand) /\ Orderly(WhoAmICommand) /\ Orderly(ShowConfig) /\ Orderly(ForecastVsBudget)
      /\ Orderly(CostCommand) /\ Orderly(OptimizeCommand) /\ Orderly(AnomalyCommand)
      /\ Orderly(OrgCommand) /\ Orderly(AccuracyCommand) /\ Orderly(DigestCommand)
  BY DEF Orderly, PreflightCommand, WhoAmICommand, ShowConfig, CostCommand, OptimizeCommand,
         AnomalyCommand, ForecastVsBudget, OrgCommand, AccuracyCommand, DigestCommand, Loads,
         SessionRaises, SessionCaught, Step
<1>2. /\ Orderly(FixCommand) /\ Orderly(PreviewCommand) /\ Orderly(ApplyCommand)
      /\ Orderly(AskCommand) /\ Orderly(AskRemoteCommand) /\ Orderly(RouteCommand)
  BY DEF Orderly, FixCommand, PreviewCommand, ApplyCommand, AskCommand, AskRemoteCommand,
         RouteCommand, Loads, SessionRaises, SessionCaught, Step
<1>3. /\ Orderly(ScanCommand) /\ Orderly(DiagramCommand) /\ Orderly(TopologyCommand)
      /\ Orderly(ReviewCommand) /\ Orderly(DiagnoseCommand)
      /\ Orderly(DevOpsAskCommand) /\ Orderly(DevOpsAskRemoteCommand)
  BY DEF Orderly, ScanCommand, DiagramCommand, TopologyCommand, ReviewCommand, DiagnoseCommand,
         DevOpsAskCommand, DevOpsAskRemoteCommand, Loads, SessionRaises, SessionCaught, Step
<1>4. CASE program = "finops"
  <2>1. Programs[program] = FinOps
    BY <1>4 DEF Programs
  <2>2. QED BY <1>1, <1>2, <2>1 DEF FinOps
<1>5. CASE program = "devops"
  <2>1. Programs[program] = DevOps
    BY <1>5 DEF Programs
  <2>2. QED BY <1>3, <2>1 DEF DevOps
<1>6. QED
  BY <1>4, <1>5 DEF Programs

\* A step that was done has all the steps before it behind it, those whose failure does not end the command apart.
LEMMA DoneBefore ==
  ASSUME NEW steps, Orderly(steps), NEW failing, NEW does \in Outcome(steps, failing).done
  PROVE  \E i \in DOMAIN steps :
           /\ steps[i].does = does
           /\ \A j \in DOMAIN steps : j < i /\ steps[j].fails \in {"caught", "raises"} =>
                steps[j].does \in Outcome(steps, failing).done /\ steps[j].does \notin failing
<1> DEFINE ends == Ends(steps, failing)
           last == IF ends = {} THEN Len(steps) ELSE Min(ends) - 1
<1>1. Outcome(steps, failing).done = {steps[i].does : i \in 1 .. last} \ failing
  BY DEF Outcome
<1>2. /\ Len(steps) \in 0 .. 5 /\ DOMAIN steps = 1 .. Len(steps) /\ ends \subseteq 1 .. Len(steps)
      /\ \A j \in DOMAIN steps : steps[j].does \in failing /\ steps[j].fails \in {"caught", "raises"} => j \in ends
  BY DEF Orderly, Ends
<1> HIDE DEF ends
<1>3. ASSUME ends # {}
      PROVE  Min(ends) \in ends /\ \A j \in ends : Min(ends) <= j
  <2>1. \E m \in ends : \A j \in ends : m <= j
    <3>1. \A j \in ends : j = 1 \/ j = 2 \/ j = 3 \/ j = 4 \/ j = 5
      BY <1>2
    <3>2. QED BY <1>3, <3>1
  <2>2. QED BY <2>1 DEF Min
<1>4. last \in Nat /\ last <= Len(steps) /\ \A j \in 1 .. last : j \notin ends
  <2>1. CASE ends = {}
    BY <1>2, <2>1
  <2>2. CASE ends # {}
    <3>1. Min(ends) \in 1 .. Len(steps) /\ \A j \in ends : Min(ends) <= j
      BY <1>2, <1>3, <2>2
    <3>2. last = Min(ends) - 1
      BY <2>2
    <3>3. Len(steps) \in Nat
      BY <1>2
    <3> HIDE DEF last
    <3>4. QED BY <3>1, <3>2, <3>3
  <2>3. QED BY <2>1, <2>2
<1> HIDE DEF last
<1>5. PICK i \in 1 .. last : steps[i].does = does
  BY <1>1
<1>6. i \in DOMAIN steps
  BY <1>2, <1>4
<1>7. ASSUME NEW j \in DOMAIN steps, j < i, steps[j].fails \in {"caught", "raises"}
      PROVE  steps[j].does \in Outcome(steps, failing).done /\ steps[j].does \notin failing
  <2>1. j \in 1 .. last /\ j \notin ends
    BY <1>2, <1>4, <1>5, <1>7
  <2>2. steps[j].does \notin failing
    BY <1>2, <1>7, <2>1
  <2>3. QED BY <1>1, <2>1, <2>2
<1>8. QED
  BY <1>5, <1>6, <1>7

\* What a command writes is lawful.
LEMMA CommandWritesLawfully ==
  ASSUME Command
  PROVE  /\ loads' \subseteq {file}
         /\ \A w \in writes' : Lawful(w, loads', FALSE)
<1>1. PICK program \in DOMAIN Programs : \E name \in DOMAIN Programs[program] :
        LET steps == Programs[program][name] IN
        \E broken \in SUBSET ({steps[i].does : i \in DOMAIN steps} \cap Outside), asked \in Wanted :
          LET outcome == Outcome(steps, Failing(file) \cup broken) IN
          /\ loads' = IF "load" \in outcome.done THEN {file} ELSE {}
          /\ writes' = Wrote(file, outcome.done, asked)
  BY ZenonT(40) DEF Command
<1>2. PICK name \in DOMAIN Programs[program] :
        LET steps == Programs[program][name] IN
        \E broken \in SUBSET ({steps[i].does : i \in DOMAIN steps} \cap Outside), asked \in Wanted :
          LET outcome == Outcome(steps, Failing(file) \cup broken) IN
          /\ loads' = IF "load" \in outcome.done THEN {file} ELSE {}
          /\ writes' = Wrote(file, outcome.done, asked)
  BY <1>1
<1> DEFINE steps == Programs[program][name]
<1>3. PICK broken \in SUBSET ({steps[i].does : i \in DOMAIN steps} \cap Outside), asked \in Wanted :
          LET outcome == Outcome(steps, Failing(file) \cup broken) IN
          /\ loads' = IF "load" \in outcome.done THEN {file} ELSE {}
          /\ writes' = Wrote(file, outcome.done, asked)
  BY <1>2
<1>4. Orderly(steps)
  BY CommandsAreOrderly
<1> HIDE DEF steps
<1> DEFINE failing == Failing(file) \cup broken
           done == Outcome(steps, failing).done
<1>5. /\ loads' = IF "load" \in done THEN {file} ELSE {}
      /\ writes' = Wrote(file, done, asked)
  BY <1>3
<1>6. ASSUME NEW does \in done
      PROVE  /\ does \in {"artifact", "apply", "run"} => "load" \in done
             /\ does = "artifact" => "artifacts" \notin failing
             /\ does = "apply" => "writes" \notin failing
  <2>1. PICK i \in DOMAIN steps :
          /\ steps[i].does = does
          /\ \A j \in DOMAIN steps : j < i /\ steps[j].fails \in {"caught", "raises"} =>
               steps[j].does \in done /\ steps[j].does \notin failing
    BY <1>4, DoneBefore
  <2>2. CASE does \in {"artifact", "apply", "run"}
    <3>1. /\ i > 2 /\ 1 \in DOMAIN steps /\ 2 \in DOMAIN steps /\ steps[1] = Step("load", "raises")
          /\ 1 < i /\ 2 < i
      BY <1>4, <2>1, <2>2 DEF Orderly
    <3>2. steps[1].does = "load" /\ steps[1].fails = "raises"
      BY <3>1 DEF Step
    <3>3. does = "artifact" => steps[2].does = "artifacts" /\ steps[2].fails = "caught"
      BY <1>4, <2>1 DEF Orderly, Step
    <3>4. does = "apply" => steps[2].does = "writes" /\ steps[2].fails = "caught"
      BY <1>4, <2>1 DEF Orderly, Step
    <3> HIDE DEF done, failing
    <3>5. "load" \in done
      BY <2>1, <3>1, <3>2
    <3>6. does = "artifact" => "artifacts" \notin failing
      BY <2>1, <3>1, <3>3
    <3>7. does = "apply" => "writes" \notin failing
      BY <2>1, <3>1, <3>4
    <3>8. QED BY <3>5, <3>6, <3>7
  <2>3. QED BY <2>2
<1>7. /\ "artifacts" \notin failing => CanGenerateArtifacts(Cfg(file).mode)
      /\ "writes" \notin failing => CanApplyActions(Cfg(file).mode)
  BY DEF Failing
<1> HIDE DEF failing, done
<1>8. ASSUME NEW t \in (done \cap {"artifact", "apply"})
                \cup (IF "run" \in done
                      THEN Executed([guard |-> Cfg(file).mode], asked) \cap {"write"} ELSE {})
      PROVE  Lawful([what |-> t, cfg |-> file, session |-> file], loads', FALSE)
  <2>1. CASE t \in done \cap {"artifact", "apply"}
    <3>1. file \in loads'
      BY <1>5, <1>6, <2>1
    <3>2. t = "artifact" => Cfg(file).mode \in {"artifacts", "guarded_write"}
      BY <1>6, <1>7, <2>1 DEF CanGenerateArtifacts
    <3>3. t = "apply" => Cfg(file).mode = "guarded_write"
      BY <1>6, <1>7, <2>1 DEF CanApplyActions
    <3>4. QED BY <2>1, <3>1, <3>2, <3>3 DEF Lawful
  <2>2. CASE "run" \in done /\ t = "write" /\ t \in Executed([guard |-> Cfg(file).mode], asked)
    <3>1. file \in loads'
      BY <1>5, <1>6, <2>2
    <3>2. Cfg(file).mode = "guarded_write"
      BY <2>2 DEF Executed, Blocked, CanApplyActions
    <3>3. QED BY <2>2, <3>1, <3>2 DEF Lawful
  <2>3. QED BY <1>8, <2>1, <2>2
<1>9. \A w \in writes' : Lawful(w, loads', FALSE)
  BY <1>5, <1>8 DEF Wrote
<1>10. QED BY <1>5, <1>9

-----------------------------------------------------------------------------
(* Whatever is written was allowed                                         *)

\* A command line has no caches that last, and no requests.
CliInv ==
  kind = "cli" => /\ config = 0 /\ session = 0 /\ ~raced
                  /\ \A r \in Requests : req[r].at = "idle"

AllowedInv ==
  /\ kind \in {"api", "chat", "cli"} /\ file \in Versions /\ counts \in Nat
  /\ CachesInv /\ RequestsInv /\ WritesInv /\ CliInv

LEMMA AllowedInit ==
  ASSUME SurfacesAssumption, Init
  PROVE  AllowedInv
<1>1. kind \in {"api", "chat", "cli"} /\ file \in Versions /\ counts \in Nat
  BY DEF SurfacesAssumption, Init, Versions
<1>2. CachesInv /\ WritesInv
  BY DEF Init, CachesInv, WritesInv
<1>3. \A r \in Requests : req[r] = Idle
  BY DEF Init
<1>4. RequestsInv
  <2>1. req \in [Requests -> Shape]
    BY IdleIsOne DEF Init
  <2>2. SafeReq(Idle, config, loads, raced)
    BY IdleIsOne DEF SafeReq, Served, Over, Idle
  <2>3. QED BY <1>3, <2>1, <2>2 DEF RequestsInv
<1>5. CliInv
  BY <1>3, IdleIsOne DEF Init, CliInv
<1>6. QED BY <1>1, <1>2, <1>4, <1>5 DEF AllowedInv

\* Only the requests of an API or a chat take steps.
LEMMA RequestSteps ==
  ASSUME SurfacesAssumption, AllowedInv, NEW r \in Requests, Request(r)
  PROVE  AllowedInv'
<1>1. CachesInv' /\ Grows /\ UNCHANGED <<kind, env, up, file>>
  BY CachesOfRequest DEF AllowedInv
<1>2. counts' \in Nat
  <2>1. CASE Count(r)
    BY <2>1 DEF Count, AllowedInv, RequestsInv, Shape
  <2>2. CASE ~Count(r)
    <3>1. counts' = counts
      BY <2>2 DEF Request, Arrive, AskConfig, KeepConfig, AskSession, KeepSession, Endpoint, AddUp, Metrics,
                  CostCall, Received, Unreached, FixEndpoint, PreviewEndpoint, ApplyEndpoint,
                  Route, Reset, RunRemote, RunAgent, Record, Check, Note, Answer, metered
    <3>2. QED BY <3>1, SMTT(30) DEF AllowedInv
  <2>3. QED BY <2>1, <2>2
<1>3. RequestsInv'
  <2>1. CASE Arrive(r)
    BY <1>1, <2>1, ArriveKeeps DEF AllowedInv
  <2>2. CASE ~Arrive(r)
    <3>1. Moves(r)
      BY <1>1, <2>2, EndpointMoves, RouteMoves, CacheMoves DEF Request, AllowedInv
    <3>2. QED BY <1>1, <3>1, RequestsOfOne DEF AllowedInv
  <2>3. QED BY <2>1, <2>2
<1>4. WritesInv'
  BY <1>1, WritesOfRequest DEF AllowedInv
<1>5. kind # "cli"
  <2>1. kind = "api" \/ kind = "chat" \/ req[r].at # "idle"
    BY DEF Request, Arrive, AskConfig, KeepConfig, AskSession, KeepSession, Endpoint, AddUp, Metrics,
           CostCall, FixEndpoint, PreviewEndpoint, ApplyEndpoint, Count,
           Route, Reset, RunRemote, RunAgent, Record, Check, Note, Answer, At
  <2>2. QED BY <2>1, SMTT(30) DEF AllowedInv, CliInv
<1>6. QED
  BY <1>1, <1>2, <1>3, <1>4, <1>5 DEF AllowedInv, CliInv

LEMMA AllowedStep ==
  ASSUME SurfacesAssumption, AllowedInv, [Next]_vars
  PROVE  AllowedInv'
<1>1. ASSUME UNCHANGED <<kind, env, counts, config, session, loads, raced, req, writes>>,
             file' \in Versions
      PROVE  AllowedInv'
  BY <1>1 DEF AllowedInv, CachesInv, RequestsInv, WritesInv, Lawful, Cfg, CliInv
<1>2. CASE EditFile
  BY <1>1, <1>2 DEF EditFile, fixed, caches, metered
<1>3. CASE Start
  BY <1>1, <1>3 DEF Start, caches, metered, AllowedInv
<1>4. CASE Command
  <2>1. /\ kind = "cli"
        /\ UNCHANGED <<kind, env, file, counts, config, session, raced, req>>
    BY <1>4 DEF Command, fixed, metered
  <2>2. /\ loads' \subseteq {file}
        /\ \A w \in writes' : Lawful(w, loads', FALSE)
    BY <1>4, CommandWritesLawfully
  <2>3. config = 0 /\ session = 0 /\ raced = FALSE /\ \A r \in Requests : req[r].at = "idle"
    BY <2>1 DEF AllowedInv, CachesInv, CliInv
  <2>4. CachesInv'
    BY <2>1, <2>2, <2>3 DEF AllowedInv, CachesInv
  <2>5. RequestsInv'
    BY <2>1, <2>3 DEF AllowedInv, RequestsInv, SafeReq, Served, Over
  <2>6. WritesInv'
    BY <2>1, <2>2, <2>3 DEF WritesInv, Lawful, Cfg
  <2>7. QED
    BY <2>1, <2>3, <2>4, <2>5, <2>6 DEF AllowedInv, CliInv
<1>5. CASE \E r \in Requests : Request(r)
  BY <1>5, RequestSteps
<1>6. CASE UNCHANGED vars
  BY <1>1, <1>6 DEF vars, fixed, caches, metered, AllowedInv
<1>7. QED
  BY <1>2, <1>3, <1>4, <1>5, <1>6 DEF Next

LEMMA AllowedWrites ==
  ASSUME AllowedInv
  PROVE  WritesWereAllowed
<1>1. ASSUME NEW w \in writes
      PROVE  /\ Permits(w) # {}
             /\ ~raced => \E v \in Permits(w) : Principal(Cfg(v)) = Principal(Cfg(w.session))
  <2>1. Lawful(w, loads, raced)
    BY DEF AllowedInv, WritesInv
  <2>2. w.cfg \in Permits(w) /\ (~raced => w.session = w.cfg)
    BY <2>1 DEF Lawful, Permits
  <2>3. QED BY <2>2
<1>2. QED BY <1>1 DEF WritesWereAllowed

\* Nothing is written that a configuration of the process does not permit, in whatever order its
\* threads take their steps and however often the file is edited: an artifact or an action of
\* an endpoint, of the model of an agent, of a command.
THEOREM SurfacesWritesWereAllowed == Spec => []WritesWereAllowed
<1> USE SurfacesAssumption
<1>1. Init => AllowedInv
  BY AllowedInit
<1>2. AllowedInv /\ [Next]_vars => AllowedInv'
  BY AllowedStep
<1>3. AllowedInv => WritesWereAllowed
  BY AllowedWrites
<1>4. QED BY <1>1, <1>2, <1>3, PTL DEF Spec

-----------------------------------------------------------------------------
(* What leaves the process                                                 *)

\* Of a span, what the handle it is sent with promises.
Clean(s, h) ==
  /\ h.redact /\ h.content \in {"omit", "redact"} =>
       "account" \notin s.attributes \cup {e.text : e \in s.events}
  /\ h.content = "omit" => \A e \in s.events : ~IsContent(e)

\* What on_end leaves of the spans this code and its agents end keeps that promise.
LEMMA OnEndCleans ==
  ASSUME NEW h, NEW s \in {Ended, Talk}
  PROVE  Clean(OnEnd(h, s), h)
<1>1. /\ \A t : Redacted(t) # "account"
      /\ s.events \subseteq {[name |-> "exception", text |-> "account"],
                             [name |-> "content", text |-> "account"]}
  BY DEF Redacted, Ended, Talk, Span
<1>2. \A e \in s.events : /\ RedactedEvent(e).text # "account"
                          /\ IsContent(RedactedEvent(e)) = IsContent(e)
  BY <1>1 DEF RedactedEvent, IsContent, Redacted
<1>3. CASE h.content \in {"omit", "redact"}
  <2> DEFINE kept == IF h.content = "omit" THEN {e \in s.events : ~IsContent(e)} ELSE s.events
             scrub == h.redact /\ h.content \in {"omit", "redact"}
             o == OnEnd(h, s)
  <2>1. /\ o.attributes = IF h.redact THEN {Redacted(t) : t \in s.attributes} ELSE s.attributes
        /\ o.events = IF scrub THEN {RedactedEvent(e) : e \in kept} ELSE kept
    BY <1>3 DEF OnEnd
  <2>2. kept \subseteq s.events /\ (h.content = "omit" => \A e \in kept : ~IsContent(e))
    OBVIOUS
  <2> HIDE DEF kept, o
  <2>3. scrub => "account" \notin o.attributes \cup {e.text : e \in o.events}
    BY <1>1, <1>2, <2>1, <2>2
  <2>4. h.content = "omit" => \A e \in o.events : ~IsContent(e)
    BY <1>2, <2>1, <2>2
  <2>5. QED BY <2>3, <2>4 DEF Clean, o
<1>4. CASE h.content \notin {"omit", "redact"}
  BY <1>4 DEF Clean
<1>5. QED BY <1>3, <1>4

LeaksInv ==
  /\ file \in Nat \ {0}
  /\ handle = None => sent = {}
  /\ handle # None =>
       \E v \in 1 .. file : <<handle.content, handle.redact>> = <<Cfg(v).content, Cfg(v).redact>>
  /\ handle # None => \A s \in sent : Clean(s, handle)

\* Whoever ends spans: what is sent is added as on_end leaves it.
LEMMA SendingKeeps ==
  ASSUME LeaksInv, NEW spans \in SUBSET {Ended, Talk}, Exports(spans),
         UNCHANGED <<file, handle, env>>
  PROVE  LeaksInv'
<1>1. sent' = sent \cup Sent(handle, spans)
  BY DEF Exports
<1>2. CASE handle = None
  BY <1>1, <1>2 DEF Sent, LeaksInv, Cfg
<1>3. CASE handle # None
  <2>1. \A s \in sent' : s \in sent \/ \E x \in spans : s = OnEnd(handle, x)
    BY <1>1, <1>3 DEF Sent
  <2>2. \A s \in sent' : Clean(s, handle)
    BY <1>3, <2>1, OnEndCleans DEF LeaksInv
  <2>3. QED BY <1>3, <2>2 DEF LeaksInv, Cfg
<1>4. QED BY <1>2, <1>3

\* Telemetry keeps the configuration it was first set up with.
LEMMA SettingUpKeeps ==
  ASSUME LeaksInv, handle' \in {handle, SetUpNow}, UNCHANGED <<file, env, sent>>
  PROVE  LeaksInv'
<1>1. CASE handle' = handle
  BY <1>1 DEF LeaksInv, Cfg
<1>2. CASE handle' # handle
  <2>1. PICK h : h = Handle(Cfg(file), Name, Exporter(Cfg(file), ~Quiet))
    OBVIOUS
  <2>2. handle = None /\ handle' = h
    BY <1>2, <2>1 DEF SetUpNow, SetUp
  <2>3. h.content = Cfg(file).content /\ h.redact = Cfg(file).redact
    BY <2>1 DEF Handle
  <2>4. sent' = {} /\ file \in 1 .. file
    BY <2>2 DEF LeaksInv
  <2>5. Cfg(file)' = Cfg(file)
    BY DEF Cfg
  <2>6. \E v \in 1 .. file : <<handle'.content, handle'.redact>> = <<Cfg(v).content, Cfg(v).redact>>'
    BY <2>2, <2>3, <2>4 DEF Cfg
  <2>7. QED BY <2>4, <2>6 DEF LeaksInv
<1>3. QED BY <1>1, <1>2

LEMMA LeaksStep ==
  ASSUME LeaksInv, [Next]_vars
  PROVE  LeaksInv'
<1>1. CASE EditFile
  <2>1. file' = file + 1 /\ UNCHANGED <<env, handle, sent>>
    BY <1>1 DEF EditFile, fixed
  <2>2. file' \in Nat \ {0} /\ 1 .. file \subseteq 1 .. file'
    BY <2>1 DEF LeaksInv
  <2>3. QED BY <2>1, <2>2 DEF LeaksInv, Cfg
<1>2. CASE Start
  BY <1>2, SettingUpKeeps DEF Start
<1>3. CASE Command
  <2>1. \E spans \in SUBSET {Ended, Talk} : Exports(spans)
    BY <1>3 DEF Command
  <2>2. UNCHANGED <<file, handle, env>>
    BY <1>3 DEF Command, fixed
  <2>3. QED BY <2>1, <2>2, SendingKeeps
<1>4. ASSUME NEW r \in Requests, Request(r)
      PROVE  LeaksInv'
  <2>1. CASE Arrive(r)
    BY <2>1, SettingUpKeeps DEF Arrive, fixed
  <2>2. CASE ~Arrive(r)
    <3>1. UNCHANGED <<file, handle, env>>
      BY <1>4, <2>2
         DEF Request, AskConfig, KeepConfig, AskSession, KeepSession, Endpoint, AddUp, Metrics,
             CostCall, FixEndpoint, PreviewEndpoint, ApplyEndpoint, Count, Route, Reset, RunRemote,
             RunAgent, Record, Check, Note, Answer, fixed
    <3>2. sent' = sent \/ Exports({Ended}) \/ Exports({Talk})
      BY <1>4, <2>2
         DEF Request, AskConfig, KeepConfig, AskSession, NoSession, KeepSession, Endpoint, AddUp, Metrics,
             CostCall, Received, Unreached, FixEndpoint, PreviewEndpoint, ApplyEndpoint, Count,
             Route, Reset, RunRemote, RunAgent, Record, Check, Note, Answer, Answered, Refused, Fails
    <3>3. CASE sent' = sent
      BY <3>1, <3>3, SettingUpKeeps
    <3>4. QED BY <3>1, <3>2, <3>3, SendingKeeps
  <2>3. QED BY <2>1, <2>2
<1>5. CASE UNCHANGED vars
  BY <1>5, SettingUpKeeps DEF vars, fixed
<1>6. QED BY <1>1, <1>2, <1>3, <1>4, <1>5 DEF Next

\* With redaction on and the content mode "omit" or "redact", nothing with an account in an
\* attribute or an event ever leaves a process, and with "omit" nothing of a conversation,
\* whatever the configurations it goes through; the two settings are those of one of them.
THEOREM SurfacesNothingLeaks == Spec => []NothingLeaks
<1>1. Init => LeaksInv
  BY DEF Init, LeaksInv
<1>2. LeaksInv /\ [Next]_vars => LeaksInv'
  BY LeaksStep
<1>3. LeaksInv => NothingLeaks
  BY DEF LeaksInv, NothingLeaks, Clean
<1>4. QED BY <1>1, <1>2, <1>3, PTL DEF Spec

-----------------------------------------------------------------------------
(* What the process tells of itself                                        *)

\* The places where a question is its router's.
Routed == {"agent", "record", "check", "note", "answer"}

\* What a step of another request leaves of one.
Alike(p, q) ==
  /\ p.at = q.at /\ p.seen = q.seen /\ p.asked = q.asked /\ p.cfg = q.cfg
  /\ p.question = q.question
  /\ p.together = q.together \/ p.together = (kind = "chat")

LEMMA OthersAlike ==
  ASSUME RequestsInv, NEW r \in Requests, Request(r), NEW q \in Requests, q # r
  PROVE  Alike(req'[q], req[q]) /\ (Busy(q) /\ Arrive(r) => req'[q].together = (kind = "chat"))
<1>1. req[q] \in Shape
  BY DEF RequestsInv
<1>2. CASE Arrive(r)
  <2>1. PICK new : Joined(r, new)
    BY <1>2 DEF Arrive
  <2>2. req'[q] = IF Busy(q) THEN [req[q] EXCEPT !.together = kind = "chat"] ELSE req[q]
    BY <2>1 DEF Joined
  <2>3. QED BY <1>1, <2>2 DEF Alike, Shape
<1>3. CASE ~Arrive(r)
  <2>1. req'[q] = req[q]
    BY <1>3 DEF Request, AskConfig, KeepConfig, AskSession, KeepSession, NoSession, Endpoint, AddUp, Metrics,
           CostCall, Received, Unreached, FixEndpoint, PreviewEndpoint, ApplyEndpoint, Count,
           Route, Reset, RunRemote, RunAgent, Record, Check, Note, Answer, Fails, Raised,
           Dispatched, Finishes, Answered, Refused, Goes, RequestsInv
  <2>2. QED BY <1>3, <2>1 DEF Alike
<1>4. QED BY <1>2, <1>3

\* However a request ends, it is at none of the places that matter here.
LEMMA EndsElsewhere ==
  ASSUME RequestsInv, NEW r \in Requests, Fails(r) \/ Answered(r) \/ Refused(r)
  PROVE  /\ req'[r].at \in {"answered", "refused", "failed", "config", "work"}
         /\ req'[r].at \in {"config", "work"} => kind = "api"
<1>1. ASSUME NEW how \in {"answered", "refused", "failed"}, Finishes(r, how)
      PROVE  req'[r].at = how
  BY <1>1 DEF Finishes, RequestsInv, Idle
<1>2. CASE Dispatched(r) /\ kind = "api"
  <2>1. Entry(req[r].route) \in {"config", "work"}
    BY DEF Entry
  <2>2. req'[r].at = Entry(req[r].route)
    BY <1>2 DEF Dispatched, RequestsInv, Idle
  <2>3. QED BY <1>2, <2>1, <2>2
<1>3. QED
  BY <1>1, <1>2 DEF Fails, Raised, Answered, Refused

\* A step that only goes on.
LEMMA OnlyGoes ==
  ASSUME RequestsInv, NEW r \in Requests, NEW place, Goes(r, place)
  PROVE  /\ req'[r].at = place /\ req'[r].asked = req[r].asked
         /\ req'[r].together = req[r].together /\ req'[r].cfg = req[r].cfg
         /\ req'[r].question = req[r].question
<1>1. req[r] \in Shape /\ req' = [req EXCEPT ![r] = [req[r] EXCEPT !.at = place]]
  BY DEF Goes, RequestsInv
<1>2. req'[r] = [req[r] EXCEPT !.at = place]
  BY <1>1 DEF RequestsInv
<1>3. QED BY <1>1, <1>2 DEF Shape

\* A step of a question at its router, which goes on.
LEMMA RouteKeeps ==
  ASSUME RequestsInv, NEW r \in Requests, Route(r), ~Fails(r), ~Answered(r)
  PROVE  /\ req'[r].at \in {"agent", "record", "check", "note", "answer"}
         /\ req'[r].together = req[r].together /\ req'[r].cfg = req[r].cfg
         /\ req'[r].question = req[r].question
         /\ ~RunAgent(r) => req'[r].asked = req[r].asked
         /\ RunRemote(r) => req'[r].at = "answer"
         /\ RunAgent(r) => req'[r].at = "record"
<1>1. CASE RunAgent(r)
  <2>1. PICK asked : req' = [req EXCEPT ![r].asked = asked, ![r].at = "record"]
    BY <1>1 DEF RunAgent
  <2>2. req' = [req EXCEPT ![r] = [req[r] EXCEPT !.asked = asked, !.at = "record"]]
    BY <2>1 DEF RequestsInv
  <2>3. req[r] \in Shape /\ req'[r] = [req[r] EXCEPT !.asked = asked, !.at = "record"]
    BY <2>2 DEF RequestsInv
  <2>4. ~RunRemote(r)
    BY <1>1 DEF RunAgent, RunRemote
  <2>5. QED BY <1>1, <2>3, <2>4 DEF Shape
<1>2. CASE ~RunAgent(r)
  <2>1. /\ \E place \in {"agent", "record", "check", "note", "answer"} : Goes(r, place)
        /\ RunRemote(r) => Goes(r, "answer")
    BY <1>2 DEF Route, Reset, RunRemote, Record, Check, Note, Answer
  <2>2. QED BY <1>2, <2>1, OnlyGoes
<1>3. QED BY <1>1, <1>2

\* Where each step takes its request.
LEMMA WhereTo ==
  ASSUME RequestsInv, NEW r \in Requests, Request(r)
  PROVE  /\ req'[r].at \in Routed => Reset(r) \/ RunRemote(r) \/ RunAgent(r) \/ Record(r)
                                     \/ Check(r) \/ Note(r) \/ Answer(r)
         /\ req'[r].at = "count" => CostCall(r) \/ ApplyEndpoint(r)
         /\ req'[r].at = "tally" => AddUp(r)
         /\ Busy(r)' => Busy(r) \/ Arrive(r)
<1>1. CASE Fails(r) \/ Answered(r) \/ Refused(r)
  <2>1. req'[r].at \in {"answered", "refused", "failed", "config", "work"}
    BY <1>1, EndsElsewhere
  <2>2. Busy(r) \/ Arrive(r)
    BY DEF Request, AskConfig, KeepConfig, AskSession, KeepSession, Endpoint, AddUp, Metrics, CostCall,
           FixEndpoint, PreviewEndpoint, ApplyEndpoint, Count, Route, Reset, RunRemote, RunAgent,
           Record, Check, Note, Answer, At, Busy
  <2>3. QED BY <2>1, <2>2 DEF Routed
<1>2. CASE Arrive(r)
  <2>1. PICK new : Joined(r, new) /\ new.at \in {"work", "config"} /\ "at" \in DOMAIN new
    <3>1. PICK route, question, remote :
            Joined(r, [Idle EXCEPT !.at = Entry(route), !.route = route, !.question = question,
                                   !.remote = remote, !.ran = 1])
      BY <1>2 DEF Arrive
    <3>2. [Idle EXCEPT !.at = Entry(route), !.route = route, !.question = question,
                       !.remote = remote, !.ran = 1].at \in {"work", "config"}
      BY DEF Idle, Entry
    <3>3. "at" \in DOMAIN [Idle EXCEPT !.at = Entry(route), !.route = route, !.question = question,
                                       !.remote = remote, !.ran = 1]
      BY DEF Idle
    <3>4. QED BY <3>1, <3>2, <3>3
  <2>2. req'[r].at \in {"work", "config"}
    BY <2>1 DEF Joined
  <2>3. QED BY <1>2, <2>2 DEF Routed
<1>3. CASE AskConfig(r) \/ KeepConfig(r) \/ AskSession(r) \/ KeepSession(r)
  <2>1. Busy(r)
    BY <1>3 DEF AskConfig, KeepConfig, AskSession, KeepSession, At, Busy
  <2>2. req'[r].at \in {"ask", "session", "work", "keep", "keep_session"} \/ Fails(r) \/ Refused(r)
    BY <1>3 DEF AskConfig, KeepConfig, AskSession, KeepSession, NoSession, Goes, AfterConfig,
                RequestsInv, Shape
  <2>3. QED BY <1>1, <2>1, <2>2 DEF Routed
<1>4. CASE Endpoint(r) \/ Route(r)
  <2>1. Busy(r)
    BY <1>4 DEF Endpoint, AddUp, Metrics, CostCall, FixEndpoint, PreviewEndpoint, ApplyEndpoint, Count,
           Route, Reset, RunRemote, RunAgent, Record, Check, Note, Answer, At, Busy
  <2>2. CASE CostCall(r) \/ ApplyEndpoint(r)
    <3>1. req'[r].at = "count" \/ Fails(r) \/ Answered(r) \/ Refused(r)
      BY <2>2 DEF CostCall, ApplyEndpoint, Received, Unreached, RequestsInv, Shape
    <3>2. QED BY <1>1, <2>1, <2>2, <3>1 DEF Routed
  <2>3. CASE Metrics(r) \/ FixEndpoint(r) \/ PreviewEndpoint(r) \/ Count(r)
    BY <1>1, <2>3 DEF Metrics, FixEndpoint, PreviewEndpoint, Count
  <2>a. CASE AddUp(r)
    <3>1. req'[r].at = "tally"
      BY <2>a DEF AddUp, RequestsInv, Shape
    <3>2. QED BY <2>1, <2>a, <3>1 DEF Routed
  <2>4. CASE Route(r)
    <3>1. req'[r].at \notin {"count", "tally"}
      <4>1. CASE Fails(r) \/ Answered(r)
        BY <1>1, <4>1, EndsElsewhere
      <4>2. CASE ~Fails(r) /\ ~Answered(r)
        BY <2>4, <4>2, RouteKeeps
      <4>3. QED BY <4>1, <4>2
    <3>2. QED BY <2>1, <2>4, <3>1 DEF Route
  <2>5. QED BY <1>4, <2>2, <2>3, <2>a, <2>4 DEF Endpoint
<1>5. QED BY <1>2, <1>3, <1>4 DEF Request

-----------------------------------------------------------------------------
(* The meter                                                               *)

Counting(r) == req[r].at = "count"
Telling(r)  == req[r].at = "tally"

\* Of two threads that count at once the one that stores last wins; what it has seen is less
\* than what has been answered, its own answer among them.
MeterInv ==
  /\ counts \in Nat /\ calls \in Nat /\ unmetered \in Nat /\ counts + unmetered <= calls
  /\ \A r \in Requests : Counting(r) => req[r].seen + 1 + unmetered <= calls
  /\ \A r \in Requests : Telling(r) => req[r].seen + unmetered <= calls
  /\ ~lossy =>
       /\ \A r, q \in Requests : Counting(r) /\ Counting(q) => r = q
       /\ \A r \in Requests : Counting(r) => req[r].seen = counts /\ calls = counts + unmetered + 1
       /\ (\A r \in Requests : ~Counting(r)) => counts + unmetered = calls

\* AWS answers a call of one thread.
LEMMA MeterOfReceived ==
  ASSUME RequestsInv, MeterInv, NEW r \in Requests, Received(r), ~Counting(r),
         \A q \in Requests : q # r => req'[q].at = req[q].at /\ req'[q].seen = req[q].seen
  PROVE  MeterInv'
<1>s. \A q \in Requests : req[q].seen \in Nat
  BY DEF RequestsInv, Shape
<1>1. /\ calls' = calls + 1 /\ counts' = counts /\ unmetered' = unmetered
      /\ lossy' = (lossy \/ \E q \in Requests : req[q].at = "count")
      /\ req'[r].seen = counts /\ req'[r].at = "count"
  BY DEF Received, RequestsInv, Shape
<1>2. /\ counts' \in Nat /\ calls' \in Nat /\ unmetered' \in Nat /\ counts' + unmetered' <= calls'
      /\ \A q \in Requests : Counting(q)' => req'[q].seen + 1 + unmetered' <= calls'
      /\ \A q \in Requests : Telling(q)' => req'[q].seen + unmetered' <= calls'
  BY <1>s, <1>1 DEF MeterInv, Counting, Telling
<1>3. ASSUME ~lossy'
      PROVE  /\ \A u, q \in Requests : Counting(u)' /\ Counting(q)' => u = q
             /\ \A q \in Requests :
                  Counting(q)' => req'[q].seen = counts' /\ calls' = counts' + unmetered' + 1
             /\ ~ \A q \in Requests : ~Counting(q)'
  <2>1. /\ ~lossy /\ \A q \in Requests : ~Counting(q)
        /\ counts + unmetered = calls
    BY <1>1, <1>3 DEF MeterInv, Counting
  <2>2. \A q \in Requests : Counting(q)' => q = r
    BY <2>1 DEF Counting
  <2>3. calls' = counts' + unmetered' + 1
    BY <1>1, <2>1 DEF MeterInv
  <2>4. QED BY <1>1, <2>1, <2>2, <2>3 DEF Counting
<1>4. QED BY <1>2, <1>3 DEF MeterInv

\* Nobody counts or tells who did not before, and the sum stays as it is.
LEMMA MeterRests ==
  ASSUME RequestsInv, MeterInv, NEW r \in Requests, ~Counting(r), ~Counting(r)', ~Telling(r)',
         \A q \in Requests : q # r => req'[q].at = req[q].at /\ req'[q].seen = req[q].seen,
         counts' = counts, lossy' = lossy,
         \/ calls' = calls /\ unmetered' = unmetered
         \/ calls' = calls + 1 /\ unmetered' = unmetered + 1
  PROVE  MeterInv'
<1>s. \A q \in Requests : req[q].seen \in Nat
  BY DEF RequestsInv, Shape
<1>1. \A q \in Requests : Counting(q)' => Counting(q) /\ q # r /\ req'[q].seen = req[q].seen
  BY DEF Counting
<1>2. \A q \in Requests : Telling(q)' => Telling(q) /\ req'[q].seen = req[q].seen
  BY DEF Telling
<1>3. (\A q \in Requests : ~Counting(q)') => \A q \in Requests : ~Counting(q)
  BY DEF Counting
<1>4. /\ counts' \in Nat /\ calls' \in Nat /\ unmetered' \in Nat /\ counts' + unmetered' <= calls'
      /\ \A q \in Requests : Counting(q)' => req'[q].seen + 1 + unmetered' <= calls'
      /\ \A q \in Requests : Telling(q)' => req'[q].seen + unmetered' <= calls'
  BY <1>s, <1>1, <1>2 DEF MeterInv
<1>5. ASSUME ~lossy'
      PROVE  /\ \A u, q \in Requests : Counting(u)' /\ Counting(q)' => u = q
             /\ \A q \in Requests :
                  Counting(q)' => req'[q].seen = counts' /\ calls' = counts' + unmetered' + 1
             /\ (\A q \in Requests : ~Counting(q)') => counts' + unmetered' = calls'
  BY <1>s, <1>1, <1>3, <1>5 DEF MeterInv
<1>6. QED BY <1>4, <1>5 DEF MeterInv

LEMMA MeterOfRequest ==
  ASSUME RequestsInv, MeterInv, NEW r \in Requests, Request(r)
  PROVE  MeterInv'
<1>1. \A q \in Requests : q # r => req'[q].at = req[q].at /\ req'[q].seen = req[q].seen
  BY OthersAlike DEF Alike
<1>s. \A q \in Requests : req[q].seen \in Nat
  BY DEF RequestsInv, Shape
<1>2. CASE Received(r) /\ ~Counting(r)
  BY <1>1, <1>2, MeterOfReceived
<1>3. CASE Count(r)
  <2>1. /\ calls' = calls /\ lossy' = lossy /\ unmetered' = unmetered /\ Counting(r)
        /\ counts' = req[r].seen + 1 /\ req'[r].at \notin {"count", "tally"}
    BY <1>3, EndsElsewhere DEF Count, At, Counting
  <2>2. /\ counts' \in Nat /\ calls' \in Nat /\ unmetered' \in Nat /\ counts' + unmetered' <= calls'
        /\ \A q \in Requests : Counting(q)' => req'[q].seen + 1 + unmetered' <= calls'
        /\ \A q \in Requests : Telling(q)' => req'[q].seen + unmetered' <= calls'
    BY <1>1, <1>s, <2>1 DEF MeterInv, Counting, Telling
  <2>3. ASSUME ~lossy'
        PROVE  counts' + unmetered' = calls' /\ \A q \in Requests : ~Counting(q)'
    BY <1>1, <2>1, <2>3 DEF MeterInv, Counting
  <2>4. QED BY <2>2, <2>3 DEF MeterInv
<1>4. CASE AddUp(r)
  <2>1. /\ UNCHANGED <<counts, calls, unmetered, lossy>> /\ ~Counting(r)
        /\ req'[r].seen = counts /\ req'[r].at = "tally"
    BY <1>4 DEF AddUp, metered, At, Counting, RequestsInv, Shape
  <2>2. \A q \in Requests : /\ Counting(q)' => Counting(q) /\ req'[q].seen = req[q].seen
                            /\ Telling(q)' /\ q # r => Telling(q) /\ req'[q].seen = req[q].seen
                            /\ Counting(q) => Counting(q)'
    BY <1>1, <2>1 DEF Counting, Telling
  <2>3. QED BY <1>s, <2>1, <2>2 DEF MeterInv
<1>5. CASE ~Received(r) /\ ~Count(r) /\ ~AddUp(r)
  <2>1. /\ counts' = counts /\ lossy' = lossy
        /\ \/ calls' = calls /\ unmetered' = unmetered
           \/ calls' = calls + 1 /\ unmetered' = unmetered + 1
    <3>1. CASE AskSession(r)
      BY <3>1 DEF AskSession, StsAnswers
    <3>2. CASE ~AskSession(r)
      <4>1. UNCHANGED metered
        BY <1>5, <3>2 DEF Request, Arrive, AskConfig, KeepConfig, KeepSession, Endpoint, Metrics,
           CostCall, Unreached, FixEndpoint, PreviewEndpoint, ApplyEndpoint,
           Route, Reset, RunRemote, RunAgent, Record, Check, Note, Answer
      <4>2. QED BY <4>1, SMTT(30) DEF metered
    <3>3. QED BY <3>1, <3>2
  <2>2. ~Counting(r)
    BY <1>5 DEF Request, Arrive, AskConfig, KeepConfig, AskSession, KeepSession, Endpoint, Metrics,
           CostCall, FixEndpoint, PreviewEndpoint, ApplyEndpoint, At, Counting,
           Route, Reset, RunRemote, RunAgent, Record, Check, Note, Answer
  <2>3. ~Counting(r)' /\ ~Telling(r)'
    <3>1. CASE CostCall(r) \/ ApplyEndpoint(r)
      BY <1>5, <3>1, EndsElsewhere DEF CostCall, ApplyEndpoint, Unreached, Counting, Telling
    <3>2. QED BY <1>5, <3>1, WhereTo DEF Counting, Telling
  <2>4. QED BY <1>1, <2>1, <2>2, <2>3, MeterRests
<1>6. Received(r) => ~Counting(r) \/ Count(r)
  BY DEF Request, Arrive, AskConfig, KeepConfig, AskSession, KeepSession, Endpoint, AddUp, Metrics,
         CostCall, FixEndpoint, PreviewEndpoint, ApplyEndpoint, At, Counting,
         Route, Reset, RunRemote, RunAgent, Record, Check, Note, Answer
<1>7. QED BY <1>2, <1>3, <1>4, <1>5, <1>6

-----------------------------------------------------------------------------
(* The answers                                                             *)

\* A question that has its router to itself.
Alone(r) == kind = "api" \/ (kind = "chat" /\ ~req[r].together)

\* What is reported after it is its own.
Its(u, r) ==
  u.of = r /\ u.tools = req[r].asked /\ u.model = AgentOf(r).model

AnswerInv ==
  /\ usage = [s \in Requests \cup {Shared} |-> usage[s]]
  /\ \A r \in Requests : Busy(r) => kind \in {"api", "chat"}
  /\ \A r, q \in Requests : kind = "chat" /\ Busy(r) /\ ~req[r].together /\ Busy(q) => q = r
  /\ \A r \in Requests : Alone(r) =>
       /\ req[r].at \in {"agent", "record"} => usage[Slot(r)] = None
       /\ req[r].at \in {"check", "note", "answer"} =>
            usage[Slot(r)] = None \/ Its(usage[Slot(r)], r)
       /\ req[r].at = "note" => usage[Slot(r)] # None

\* The last conjunct for one request.
HasItsOwn(r) ==
  Alone(r) =>
       /\ req[r].at \in {"agent", "record"} => usage[Slot(r)] = None
       /\ req[r].at \in {"check", "note", "answer"} =>
            usage[Slot(r)] = None \/ Its(usage[Slot(r)], r)
       /\ req[r].at = "note" => usage[Slot(r)] # None

\* A slot changes only where a question is alone with it, or is not alone.
LEMMA OthersHaveTheirs ==
  ASSUME SurfacesAssumption, RequestsInv, AnswerInv, NEW r \in Requests, Request(r),
         NEW q \in Requests, q # r
  PROVE  HasItsOwn(q)'
<1>1. Alike(req'[q], req[q]) /\ UNCHANGED <<kind, env>>
  BY OthersAlike, CachesOfRequest, Zenon
     DEF Request, Arrive, AskConfig, KeepConfig, AskSession, KeepSession, Endpoint, AddUp, Metrics, CostCall,
         FixEndpoint, PreviewEndpoint, ApplyEndpoint, Count, Route, Reset, RunRemote, RunAgent,
         Record, Check, Note, Answer, fixed
<1>2. SUFFICES ASSUME Alone(q)', req'[q].at \in Routed
               PROVE  HasItsOwn(q)'
  BY DEF HasItsOwn, Routed
<1>3. /\ Alone(q) /\ req[q].at = req'[q].at /\ req[q].asked = req'[q].asked
      /\ req[q].cfg = req'[q].cfg /\ req[q].question = req'[q].question
  BY <1>1, <1>2 DEF Alone, Alike
<1>4. HasItsOwn(q)
  BY DEF AnswerInv, HasItsOwn
<1>5. AgentOf(q)' = AgentOf(q) /\ Slot(q)' = Slot(q)
  BY <1>1, <1>3 DEF AgentOf, IntentOf, Cfg, Slot
<1>6. usage'[Slot(q)] = usage[Slot(q)]
  <2>1. CASE UNCHANGED usage
    BY <2>1
  <2>2. CASE Reset(r) \/ Record(r)
    <3>1. Busy(r) /\ Busy(q)
      BY <1>2, <1>3, <2>2 DEF Reset, Record, At, Busy, Routed
    <3>2. kind = "api"
      BY <1>3, <3>1 DEF AnswerInv, Alone
    <3>3. Slot(q) = q /\ Slot(r) = r
      BY <3>2 DEF Slot
    <3>4. \E u : usage' = [usage EXCEPT ![r] = u]
      BY <2>2, <3>3 DEF Reset, Record
    <3>5. QED BY <3>3, <3>4
  <2>3. QED
    BY <2>1, <2>2 DEF Request, Arrive, AskConfig, KeepConfig, AskSession, KeepSession, Endpoint,
         AddUp, Metrics, CostCall, FixEndpoint, PreviewEndpoint, ApplyEndpoint, Count, Route, RunRemote,
         RunAgent, Check, Note, Answer
<1>7. QED
  BY <1>3, <1>4, <1>5, <1>6, SMTT(30) DEF HasItsOwn, Its

\* The steps of a question at its router.
LEMMA KeepsItsOwn ==
  ASSUME SurfacesAssumption, RequestsInv, AnswerInv, NEW r \in Requests, Request(r)
  PROVE  HasItsOwn(r)'
<1>1. SUFFICES ASSUME Alone(r)', req'[r].at \in Routed
               PROVE  HasItsOwn(r)'
  BY DEF HasItsOwn, Routed
<1>2. \/ Reset(r) \/ RunRemote(r) \/ RunAgent(r) \/ Record(r)
      \/ Check(r) \/ Note(r) \/ Answer(r)
  BY <1>1, WhereTo
<1>3. UNCHANGED <<kind, env>> /\ ~Fails(r) /\ ~Answered(r)
  BY <1>1, <1>2, EndsElsewhere DEF Reset, RunRemote, RunAgent, Record, Check, Note, Answer, fixed, Routed
<1>4. req[r] \in Shape /\ req = [q \in Requests |-> req[q]]
  BY DEF RequestsInv
<1>5. /\ req'[r].together = req[r].together /\ req'[r].cfg = req[r].cfg
      /\ req'[r].question = req[r].question
      /\ ~RunAgent(r) => req'[r].asked = req[r].asked
      /\ RunRemote(r) => req'[r].at = "answer"
      /\ RunAgent(r) => req'[r].at = "record"
  BY <1>2, <1>3, RouteKeeps DEF Route
<1>6. /\ Alone(r) /\ AgentOf(r)' = AgentOf(r) /\ Slot(r)' = Slot(r)
      /\ Slot(r) \in Requests \cup {Shared}
  BY <1>1, <1>3, <1>5 DEF Alone, AgentOf, IntentOf, Cfg, Slot
<1>7. HasItsOwn(r)
  BY DEF AnswerInv, HasItsOwn
<1>8. CASE Reset(r)
  <2>0. Goes(r, "agent") /\ usage' = [usage EXCEPT ![Slot(r)] = None]
    BY <1>8 DEF Reset
  <2>1. req'[r].at = "agent" /\ usage'[Slot(r)] = None
    BY <1>6, <2>0, OnlyGoes DEF AnswerInv
  <2>2. QED BY <1>6, <2>1 DEF HasItsOwn
<1>9. CASE RunRemote(r) \/ RunAgent(r)
  <2>1. /\ req[r].at = "agent" /\ req'[r].at \in {"answer", "record"} /\ usage' = usage
    BY <1>5, <1>9 DEF RunRemote, RunAgent, At
  <2>2. QED BY <1>6, <1>7, <2>1 DEF HasItsOwn
<1>10. CASE Record(r)
  <2>1. PICK u \in {None, Usage(Cfg(req[r].cfg), IntentOf(r), r, req[r].asked)} :
          usage' = [usage EXCEPT ![Slot(r)] = u]
    BY <1>10 DEF Record
  <2>2. usage'[Slot(r)] = u
    BY <1>6, <2>1 DEF AnswerInv
  <2>3. req'[r].at \in {"answer", "check"} /\ req'[r].asked = req[r].asked
    BY <1>4, <1>10 DEF Record, Goes, Shape
  <2>4. u # None => u.of = r /\ u.tools = req[r].asked /\ u.model = AgentOf(r).model
    BY <2>1 DEF Usage, Metered, AgentOf, Agent, PricedRole, AgentRole
  <2>5. QED BY <1>6, <2>2, <2>3, <2>4 DEF HasItsOwn, Its
<1>11. CASE Check(r) \/ Note(r)
  <2>1. /\ req[r].at \in {"check", "note"} /\ req'[r].at \in {"answer", "note"}
        /\ req'[r].at = "note" => usage[Slot(r)] # None
        /\ usage' = usage /\ req'[r].asked = req[r].asked
    BY <1>3, <1>4, <1>11 DEF Check, Note, Goes, At, Shape
  <2>2. QED BY <1>6, <1>7, <2>1 DEF HasItsOwn, Its
<1>12. QED
  BY <1>2, <1>3, <1>8, <1>9, <1>10, <1>11 DEF Answer

LEMMA AnswerOfRequest ==
  ASSUME SurfacesAssumption, RequestsInv, AnswerInv, NEW r \in Requests, Request(r)
  PROVE  AnswerInv'
<1>1. usage' = [s \in Requests \cup {Shared} |-> usage'[s]]
  <2>1. UNCHANGED usage \/ \E s \in Requests \cup {Shared} : \E u : usage' = [usage EXCEPT ![s] = u]
    <3>1. Slot(r) \in Requests \cup {Shared}
      BY SMTT(30) DEF Slot
    <3>2. QED
      BY <3>1 DEF Request, Arrive, AskConfig, KeepConfig, AskSession, KeepSession, Endpoint,
         AddUp, Metrics, CostCall, FixEndpoint, PreviewEndpoint, ApplyEndpoint, Count, Route, Reset, RunRemote,
         RunAgent, Record, Check, Note, Answer
  <2>2. QED BY <2>1, SMTT(30) DEF AnswerInv
<1>2. kind' = kind
  BY DEF Request, Arrive, AskConfig, KeepConfig, AskSession, KeepSession, Endpoint, AddUp, Metrics, CostCall,
         FixEndpoint, PreviewEndpoint, ApplyEndpoint, Count, Route, Reset, RunRemote, RunAgent,
         Record, Check, Note, Answer, fixed
<1>3. /\ \A q \in Requests : q # r => (Busy(q)' <=> Busy(q))
      /\ Busy(r)' => Busy(r) \/ Arrive(r)
  BY OthersAlike, WhereTo DEF Alike, Busy
<1>4. \A q \in Requests : Busy(q)' => kind' \in {"api", "chat"}
  <2>1. Arrive(r) => kind \in {"api", "chat"}
    BY DEF Arrive
  <2>2. QED BY <1>2, <1>3, <2>1 DEF AnswerInv
<1>5. ASSUME NEW u \in Requests, NEW q \in Requests,
             kind' = "chat", Busy(u)', ~req'[u].together, Busy(q)'
      PROVE  q = u
  <2>1. CASE Arrive(r)
    <3>1. PICK new : Joined(r, new) /\ DOMAIN new = DOMAIN Idle
      <4>1. PICK route, question, remote :
              Joined(r, [Idle EXCEPT !.at = Entry(route), !.route = route,
                                     !.question = question, !.remote = remote, !.ran = 1])
        BY <2>1 DEF Arrive
      <4>2. DOMAIN [Idle EXCEPT !.at = Entry(route), !.route = route,
                                !.question = question, !.remote = remote, !.ran = 1] = DOMAIN Idle
        BY DEF Idle
      <4>3. QED BY <4>1, <4>2
    <3>2. CASE u # r /\ q # u
      BY <1>2, <1>3, <1>5, <2>1, <3>2, OthersAlike
    <3>3. CASE u = r /\ q # r
      <4>1. q \in {p \in Requests \ {r} : Busy(p)}
        BY <1>3, <1>5, <3>3
      <4>2. req'[r] = [new EXCEPT !.together = TRUE]
        BY <1>2, <1>5, <3>1, <4>1 DEF Joined
      <4>3. "together" \in DOMAIN Idle
        BY DEF Idle
      <4>4. req'[r].together
        BY <3>1, <4>2, <4>3
      <4>5. QED BY <1>5, <3>3, <4>4
    <3>4. QED BY <3>2, <3>3
  <2>2. CASE ~Arrive(r)
    <3>1. Busy(u) /\ Busy(q)
      BY <1>3, <1>5, <2>2
    <3>2. CASE u # r
      <4>1. req'[u].together = req[u].together
        BY <1>2, <1>5, <3>2, OthersAlike DEF Alike
      <4>2. QED BY <1>2, <1>5, <3>1, <4>1 DEF AnswerInv
    <3>3. CASE u = r
      <4>1. req'[r].together = req[r].together
        <5>1. ~Fails(r) /\ ~Answered(r) /\ ~Refused(r)
          BY <1>2, <1>5, <3>3, EndsElsewhere DEF Busy
        <5>2. CASE Route(r)
          BY <5>1, <5>2, RouteKeeps
        <5>3. CASE Endpoint(r)
          BY <5>1, <5>3 DEF Endpoint, AddUp, Metrics, CostCall, Received, Unreached, FixEndpoint,
             PreviewEndpoint, ApplyEndpoint, Count, RequestsInv, Shape
        <5>4. CASE AskConfig(r) \/ AskSession(r)
          BY <5>1, <5>4 DEF AskConfig, AskSession, NoSession, RequestsInv, Shape
        <5>5. CASE KeepConfig(r) \/ KeepSession(r)
          BY <5>5, OnlyGoes DEF KeepConfig, KeepSession
        <5>6. QED BY <2>2, <5>2, <5>3, <5>4, <5>5 DEF Request
      <4>2. QED BY <1>2, <1>5, <3>1, <3>3, <4>1 DEF AnswerInv
    <3>4. QED BY <3>2, <3>3
  <2>3. QED BY <2>1, <2>2
<1>6. \A q \in Requests : HasItsOwn(q)'
  BY OthersHaveTheirs, KeepsItsOwn
<1>7. QED
  BY <1>1, <1>4, <1>5, <1>6 DEF AnswerInv, HasItsOwn

-----------------------------------------------------------------------------
(* The commands                                                            *)

\* Each promise of a command is a step whose failure ends it, and whatever else it tells of one
\* whose failure is noted.
Stops(steps, does) ==
  \E i \in DOMAIN steps : steps[i].does = does /\ steps[i].fails \in {"caught", "raises"}
Notes(steps, does) ==
  \E i \in DOMAIN steps : steps[i].does = does /\ steps[i].fails = "noted"

Keeps(steps, promised, told) ==
  /\ \A does \in promised : Stops(steps, does)
  /\ \A does \in told : Notes(steps, does)

KeepsIts(steps, name) == Keeps(steps, Promised[name], Told[name])

LEMMA CommandsKeep ==
  ASSUME NEW program \in DOMAIN Programs, NEW name \in DOMAIN Programs[program]
  PROVE  KeepsIts(Programs[program][name], name)
<1>1. /\ Keeps(PreflightCommand, {"identity"}, {"models"}) /\ Keeps(WhoAmICommand, {"identity"}, {})
      /\ Keeps(ShowConfig, {"load"}, {}) /\ Keeps(CostCommand, {"call"}, {})
      /\ Keeps(OptimizeCommand, {"session"}, {"call"}) /\ Keeps(AnomalyCommand, {"session"}, {"call"})
      /\ Keeps(ForecastVsBudget, {"forecast"}, {"call"})
      /\ Keeps(OrgCommand, {"session"}, {"names"})
      /\ Keeps(DigestCommand, {"session"}, {"call", "deliver"})
  BY DEF Keeps, Stops, Notes, PreflightCommand, WhoAmICommand, ShowConfig, CostCommand,
         OptimizeCommand, AnomalyCommand, ForecastVsBudget, OrgCommand, DigestCommand, Loads,
         SessionRaises, SessionCaught, Step
<1>2. /\ Keeps(AccuracyCommand, {"call", "agree"}, {})
      /\ Keeps(FixCommand, {"artifact"}, {}) /\ Keeps(PreviewCommand, {"preview"}, {})
      /\ Keeps(ApplyCommand, {"apply"}, {}) /\ Keeps(AskCommand, {"run"}, {})
      /\ Keeps(AskRemoteCommand, {"remote"}, {}) /\ Keeps(RouteCommand, {"run"}, {})
  BY DEF Keeps, Stops, Notes, AccuracyCommand, FixCommand, PreviewCommand, ApplyCommand,
         AskCommand, AskRemoteCommand, RouteCommand, Loads, SessionRaises, SessionCaught, Step
<1>3. /\ Keeps(ScanCommand, {"session"}, {"scan"}) /\ Keeps(DiagramCommand, {"write"}, {})
      /\ Keeps(TopologyCommand, {"write"}, {"scan"})
      /\ Keeps(ReviewCommand, {"session"}, {"call"}) /\ Keeps(DiagnoseCommand, {"session"}, {"call"})
      /\ Keeps(DevOpsAskCommand, {"run"}, {}) /\ Keeps(DevOpsAskRemoteCommand, {"remote"}, {})
  BY DEF Keeps, Stops, Notes, ScanCommand, DiagramCommand, TopologyCommand, ReviewCommand,
         DiagnoseCommand, DevOpsAskCommand, DevOpsAskRemoteCommand, Loads, SessionRaises,
         SessionCaught, Step
<1>4. CASE program = "finops"
  <2>1. Programs[program] = FinOps
    BY <1>4 DEF Programs
  <2>2. name \in {"preflight", "whoami", "config", "cost", "optimize", "anomaly",
                 "forecast_vs_budget", "org", "accuracy", "digest", "fix", "preview", "apply",
                 "ask", "ask_remote", "route"}
    BY <2>1 DEF FinOps
  <2>3. /\ KeepsIts(FinOps.preflight, "preflight") /\ KeepsIts(FinOps.whoami, "whoami")
        /\ KeepsIts(FinOps.config, "config") /\ KeepsIts(FinOps.cost, "cost")
        /\ KeepsIts(FinOps.optimize, "optimize") /\ KeepsIts(FinOps.anomaly, "anomaly")
        /\ KeepsIts(FinOps.forecast_vs_budget, "forecast_vs_budget")
        /\ KeepsIts(FinOps.org, "org") /\ KeepsIts(FinOps.digest, "digest")
    BY <1>1 DEF FinOps, Promised, Told, KeepsIts
  <2>4. /\ KeepsIts(FinOps.accuracy, "accuracy")
        /\ KeepsIts(FinOps.fix, "fix") /\ KeepsIts(FinOps.preview, "preview")
        /\ KeepsIts(FinOps.apply, "apply") /\ KeepsIts(FinOps.ask, "ask")
        /\ KeepsIts(FinOps.ask_remote, "ask_remote") /\ KeepsIts(FinOps.route, "route")
    BY <1>2 DEF FinOps, Promised, Told, KeepsIts
  <2>5. KeepsIts(FinOps[name], name)
    BY <2>2, <2>3, <2>4
  <2>6. QED BY <2>1, <2>5
<1>5. CASE program = "devops"
  <2>1. Programs[program] = DevOps
    BY <1>5 DEF Programs
  <2>2. name \in {"scan", "diagram", "topology", "review", "diagnose", "ask", "ask_remote"}
    BY <2>1 DEF DevOps
  <2>3. /\ KeepsIts(DevOps.scan, "scan") /\ KeepsIts(DevOps.diagram, "diagram")
        /\ KeepsIts(DevOps.topology, "topology") /\ KeepsIts(DevOps.review, "review")
        /\ KeepsIts(DevOps.diagnose, "diagnose") /\ KeepsIts(DevOps.ask, "ask")
        /\ KeepsIts(DevOps.ask_remote, "ask_remote")
    BY <1>3 DEF DevOps, Promised, Told, KeepsIts
  <2>4. KeepsIts(DevOps[name], name)
    BY <2>2, <2>3
  <2>5. QED BY <2>1, <2>4
<1>6. QED
  BY <1>4, <1>5 DEF Programs

ExitInv == KeepsItsPromise

\* What is done and noted where nothing ends a command.
LEMMA ExitOfOutcome ==
  ASSUME NEW steps, NEW name, NEW failing, KeepsIts(steps, name), DOMAIN steps = 1 .. Len(steps),
         Outcome(steps, failing).code = 0
  PROVE  /\ Promised[name] \subseteq Outcome(steps, failing).done
         /\ Told[name] \subseteq Outcome(steps, failing).done \cup Outcome(steps, failing).noted
<1>1. Ends(steps, failing) = {}
  BY DEF Outcome
<1>2. /\ Outcome(steps, failing).done = {steps[i].does : i \in DOMAIN steps} \ failing
      /\ Outcome(steps, failing).noted =
           {steps[i].does : i \in {j \in DOMAIN steps : steps[j].fails = "noted"}} \cap failing
  BY <1>1 DEF Outcome
<1>3. QED BY <1>1, <1>2 DEF KeepsIts, Keeps, Stops, Notes, Ends

LEMMA ExitOfCommand ==
  ASSUME Command
  PROVE  ExitInv'
<1>1. PICK program \in DOMAIN Programs : \E name \in DOMAIN Programs[program] :
        \E failing : LET outcome == Outcome(Programs[program][name], failing) IN
          exit' = [program |-> program, name |-> name, code |-> outcome.code,
                   done |-> outcome.done, noted |-> outcome.noted]
  BY DEF Command
<1>2. PICK name \in DOMAIN Programs[program] :
        \E failing : LET outcome == Outcome(Programs[program][name], failing) IN
          exit' = [program |-> program, name |-> name, code |-> outcome.code,
                   done |-> outcome.done, noted |-> outcome.noted]
  BY <1>1
<1> DEFINE steps == Programs[program][name]
<1>3. PICK failing : exit' = [program |-> program, name |-> name, code |-> Outcome(steps, failing).code,
                              done |-> Outcome(steps, failing).done,
                              noted |-> Outcome(steps, failing).noted]
  BY <1>2
<1>4. KeepsIts(steps, name) /\ DOMAIN steps = 1 .. Len(steps)
  BY CommandsKeep, CommandsAreOrderly DEF Orderly
<1> HIDE DEF steps
<1>5. Outcome(steps, failing).code = 0 =>
        /\ Promised[name] \subseteq Outcome(steps, failing).done
        /\ Told[name] \subseteq Outcome(steps, failing).done \cup Outcome(steps, failing).noted
  BY <1>4, ExitOfOutcome
<1>6. QED BY <1>3, <1>5 DEF ExitInv, KeepsItsPromise

-----------------------------------------------------------------------------
TruthInv == MeterInv /\ AnswerInv /\ ExitInv

LEMMA TruthInit ==
  ASSUME SurfacesAssumption, Init
  PROVE  TruthInv
<1>1. \A r \in Requests : req[r].at = "idle"
  BY IdleIsOne DEF Init
<1>2. MeterInv
  BY <1>1 DEF Init, MeterInv, Counting, Telling
<1>3. AnswerInv
  BY <1>1 DEF Init, AnswerInv, Busy, Slot
<1>4. QED BY <1>2, <1>3 DEF Init, TruthInv, ExitInv, KeepsItsPromise

LEMMA TruthStep ==
  ASSUME SurfacesAssumption, AllowedInv, TruthInv, [Next]_vars
  PROVE  TruthInv'
<1>1. ASSUME UNCHANGED <<kind, env, counts, calls, unmetered, lossy, usage, req>>, ExitInv'
      PROVE  TruthInv'
  BY <1>1 DEF TruthInv, MeterInv, Counting, Telling, AnswerInv, Busy, Alone, Its, AgentOf, IntentOf, Cfg, Slot
<1>2. CASE EditFile \/ Start \/ UNCHANGED vars
  BY <1>1, <1>2 DEF EditFile, Start, vars, fixed, metered, TruthInv, ExitInv, KeepsItsPromise
<1>3. CASE Command
  BY <1>1, <1>3, ExitOfCommand DEF Command, fixed, metered
<1>4. ASSUME NEW r \in Requests, Request(r) PROVE TruthInv'
  <2>1. exit' = exit
    BY <1>4 DEF Request, Arrive, AskConfig, KeepConfig, AskSession, KeepSession, Endpoint, AddUp, Metrics,
         CostCall, FixEndpoint, PreviewEndpoint, ApplyEndpoint, Count, Route, Reset, RunRemote,
         RunAgent, Record, Check, Note, Answer
  <2>2. QED
    BY <1>4, <2>1, MeterOfRequest, AnswerOfRequest, SMTT(30) DEF TruthInv, ExitInv, KeepsItsPromise, AllowedInv
<1>5. QED BY <1>2, <1>3, <1>4 DEF Next

\* ApiMeter counts no more calls than AWS has answered through a session it is attached to, and all
\* of those unless two threads counted at once; the API reports the usage of a question that is its own and the chat loses no answer
\* unless questions overlap; a command that returns 0 has done what it promises, and done or noted
\* what it reports.
THEOREM SurfacesTellTheTruth == Spec => []TellsTheTruth
<1> USE SurfacesAssumption
<1>1. Init => AllowedInv /\ TruthInv
  BY AllowedInit, TruthInit
<1>2. AllowedInv /\ TruthInv /\ [Next]_vars => (AllowedInv /\ TruthInv)'
  BY AllowedStep, TruthStep
<1>3. TruthInv => TellsTheTruth
  <2> SUFFICES ASSUME TruthInv PROVE TellsTheTruth
    OBVIOUS
  <2>1. MeterIsHonest
    BY DEF TruthInv, MeterInv, Counting, Telling, Settled, MeterIsHonest
  <2>2. ASSUME NEW r \in Requests PROVE ReportsItsOwn(r) /\ KeepsItsAnswer(r)
    <3>1. ReportsItsOwn(r)
      BY DEF TruthInv, AnswerInv, ReportsItsOwn, Alone, Its
    <3>2. KeepsItsAnswer(r)
      BY DEF TruthInv, AnswerInv, KeepsItsAnswer, Alone, Its, Busy
    <3>3. QED BY <3>1, <3>2
  <2>3. QED BY <2>1, <2>2 DEF TruthInv, ExitInv, TellsTheTruth
<1>4. QED BY <1>1, <1>2, <1>3, PTL DEF Spec

-----------------------------------------------------------------------------
(* The types                                                               *)

\* What the other invariants do not say of the types.
TypedInv ==
  /\ kind \in Kinds /\ env \in DOMAIN Envs /\ up \in BOOLEAN
  /\ handle # None => handle.exporter \in {"otlp", "console"}
  /\ calls \in Nat /\ unmetered \in Nat /\ lossy \in BOOLEAN
  /\ usage \in [Requests \cup {Shared} -> Usages \cup {None}]
  /\ exit # None => exit.code \in 0 .. 2

\* Providers stand only where there is somewhere to export to.
LEMMA SetUpHasExporter ==
  ASSUME NEW cfg, NEW name, NEW console, handle # None => handle.exporter \in {"otlp", "console"}
  PROVE  LET h == SetUp(handle, cfg, name, console) IN h # None => h.exporter \in {"otlp", "console"}
<1>1. Exporter(cfg, console) \in {"otlp", "console", "none"}
  BY DEF Exporter
<1>2. ASSUME Exporter(cfg, console) # "none"
      PROVE  Handle(cfg, name, Exporter(cfg, console)).exporter \in {"otlp", "console"}
  BY <1>1, <1>2 DEF Handle
<1>3. QED BY <1>2 DEF SetUp

\* What _record_usage notes is priced as a model of the request's configuration.
LEMMA UsageIsTyped ==
  ASSUME NEW r \in Requests, NEW v \in Versions, NEW intent, NEW asked \in SUBSET Tools
  PROVE  Usage(Cfg(v), intent, r, asked) \in Usages
<1>1. PricedRole(intent) \in Roles /\ "orchestrator" \in Roles
  BY DEF PricedRole, Roles
<1>2. ModelId(Cfg(v), PricedRole(intent)) \in {None} \cup {Cfg(v)[role] : role \in Roles}
  BY <1>1 DEF ModelId
<1>3. QED BY <1>2 DEF Usage, Usages, Metered

LEMMA TypedInit ==
  ASSUME Init
  PROVE  TypedInv
BY DEF Init, TypedInv

\* A request sets up telemetry, counts a call and records or resets what an agent has used.
LEMMA TypedRequest ==
  ASSUME AllowedInv, TypedInv, NEW r \in Requests, Request(r),
         UNCHANGED <<kind, env, up>>
  PROVE  TypedInv'
<1>1. handle' = handle \/ handle' = SetUpNow
  BY DEF Request, Arrive, AskConfig, KeepConfig, AskSession, KeepSession, Endpoint, AddUp, Metrics,
         CostCall, FixEndpoint, PreviewEndpoint, ApplyEndpoint, Count, Route, Reset, RunRemote,
         RunAgent, Record, Check, Note, Answer
<1>2. handle' # None => handle'.exporter \in {"otlp", "console"}
  BY <1>1, SetUpHasExporter DEF SetUpNow, TypedInv
<1>3. UNCHANGED <<kind, env, up, exit>>
  <2>1. exit' = exit
    BY DEF Request, Arrive, AskConfig, KeepConfig, AskSession, KeepSession, Endpoint, AddUp, Metrics,
           CostCall, FixEndpoint, PreviewEndpoint, ApplyEndpoint, Count, Route, Reset,
           RunRemote, RunAgent, Record, Check, Note, Answer
  <2>2. QED BY <2>1, SMTT(30)
<1>4. calls' \in Nat /\ unmetered' \in Nat /\ lossy' \in BOOLEAN
  <2>1. CASE Endpoint(r)
    <3>1. UNCHANGED <<calls, unmetered, lossy>> \/ Received(r)
      BY <2>1 DEF Endpoint, AddUp, Metrics, CostCall, Unreached, FixEndpoint, PreviewEndpoint,
             ApplyEndpoint, Count, metered
    <3>2. calls' \in Nat /\ unmetered' \in Nat
      BY <3>1 DEF Received, TypedInv
    <3>3. lossy' = lossy \/ lossy' = (lossy \/ \E q \in Requests : req[q].at = "count")
      BY <3>1 DEF Received
    <3>4. lossy' \in BOOLEAN
      BY <3>3, Zenon DEF TypedInv
    <3>5. QED BY <3>2, <3>4
  <2>2. CASE AskSession(r)
    BY <2>2 DEF AskSession, StsAnswers, TypedInv
  <2>3. CASE ~Endpoint(r) /\ ~AskSession(r)
    <3>1. UNCHANGED <<calls, unmetered, lossy>>
      BY <2>3 DEF Request, Arrive, AskConfig, KeepConfig, KeepSession, Route, Reset,
             RunRemote, RunAgent, Record, Check, Note, Answer, metered
    <3>2. QED BY <3>1 DEF TypedInv
  <2>4. QED BY <2>1, <2>2, <2>3
<1>5. usage' \in [Requests \cup {Shared} -> Usages' \cup {None}]
  <2>1. Usages' = Usages
    BY DEF Usages, Cfg
  <2>2. CASE Reset(r)
    BY <2>1, <2>2 DEF Reset, TypedInv
  <2>3. CASE Record(r)
    <3>1. /\ req[r].asked \in SUBSET Tools
          /\ req[r].at = "record" => req[r].cfg \in Versions
      BY DEF AllowedInv, RequestsInv, CachesInv, Shape, SafeReq, Served, Over
    <3>2. PICK u \in {None, Usage(Cfg(req[r].cfg), IntentOf(r), r, req[r].asked)} :
            usage' = [usage EXCEPT ![Slot(r)] = u]
      BY <2>3 DEF Record
    <3>3. u \in Usages \cup {None}
      BY <2>3, <3>1, <3>2, UsageIsTyped DEF Record, At
    <3>4. QED BY <2>1, <3>2, <3>3 DEF TypedInv
  <2>4. CASE ~Reset(r) /\ ~Record(r)
    <3>1. usage' = usage
      BY <2>4 DEF Request, Arrive, AskConfig, KeepConfig, AskSession, KeepSession, Endpoint,
             AddUp, Metrics, CostCall, FixEndpoint, PreviewEndpoint, ApplyEndpoint, Count, Route,
             RunRemote, RunAgent, Check, Note, Answer
    <3>2. QED BY <2>1, <3>1 DEF TypedInv
  <2>5. QED BY <2>2, <2>3, <2>4
<1>6. QED BY <1>2, <1>3, <1>4, <1>5 DEF TypedInv

LEMMA TypedStep ==
  ASSUME SurfacesAssumption, AllowedInv, TypedInv, [Next]_vars
  PROVE  TypedInv'
<1>1. ASSUME UNCHANGED <<kind, env, calls, unmetered, lossy, usage>>, up' \in BOOLEAN,
             handle' # None => handle'.exporter \in {"otlp", "console"},
             exit' # None => exit'.code \in 0 .. 2
      PROVE  TypedInv'
  BY <1>1 DEF TypedInv, Usages, Cfg
<1>2. CASE EditFile \/ UNCHANGED vars
  BY <1>1, <1>2 DEF EditFile, vars, fixed, metered, TypedInv
<1>3. CASE Start
  <2>1. handle' # None => handle'.exporter \in {"otlp", "console"}
    BY <1>3, SetUpHasExporter DEF Start, SetUpNow, TypedInv
  <2>2. QED BY <1>1, <1>3, <2>1 DEF Start, metered, TypedInv
<1>4. CASE Command
  <2>1. exit'.code \in 0 .. 2
    <3>1. \E program, name, steps, failing, done, noted :
            exit' = [program |-> program, name |-> name, code |-> Outcome(steps, failing).code,
                     done |-> done, noted |-> noted]
      BY <1>4 DEF Command
    <3>2. QED BY <3>1 DEF Outcome
  <2>2. QED BY <1>1, <1>4, <2>1 DEF Command, fixed, metered, TypedInv
<1>5. ASSUME NEW r \in Requests, Request(r) PROVE TypedInv'
  <2>1. UNCHANGED <<kind, env, up>>
    BY <1>5, CachesOfRequest DEF AllowedInv
  <2>2. QED BY <1>5, <2>1, TypedRequest
<1>6. QED BY <1>2, <1>3, <1>4, <1>5 DEF Next

\* Whatever happens, a process is where its program can be: it exports with an exporter that
\* exists, what its routers report is priced as a model of a configuration it may have loaded,
\* its counters are natural numbers and its exit code one of three.
THEOREM SurfacesAreTyped == Spec => []TypeOK
<1> USE SurfacesAssumption
<1>1. Init => AllowedInv /\ TypedInv
  BY AllowedInit, TypedInit
<1>2. AllowedInv /\ TypedInv /\ [Next]_vars => (AllowedInv /\ TypedInv)'
  BY AllowedStep, TypedStep
<1>3. AllowedInv /\ TypedInv => TypeOK
  <2> SUFFICES ASSUME AllowedInv, TypedInv PROVE TypeOK
    OBVIOUS
  <2>1. \A w \in writes : w.cfg \in Versions /\ w.session \in Versions
    BY DEF AllowedInv, WritesInv, CachesInv, Lawful
  <2>2. QED BY <2>1 DEF AllowedInv, TypedInv, CachesInv, RequestsInv, TypeOK
<1>4. QED BY <1>1, <1>2, <1>3, PTL DEF Spec

=============================================================================
