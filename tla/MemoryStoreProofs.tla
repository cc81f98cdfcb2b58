-------------------------- MODULE MemoryStoreProofs --------------------------
(***************************************************************************)
(* Proofs about MemoryStore, for any finite number of sessions and any     *)
(* facts: what a memory file can hold when sessions save over each other,  *)
(* and what it holds when they do not.                                     *)
(***************************************************************************)
EXTENDS MemoryStore, FiniteSetTheorems, TLAPS

-----------------------------------------------------------------------------
(* Type correctness                                                        *)

\* A session that is in add has a fact to add.
TypeInv ==
  /\ TypeOK
  /\ \A s \in Sessions : pc[s] # "idle" => call[s].content \in Facts

\* One element more.
LEMMA AddOne ==
  ASSUME NEW S, NEW x, NEW n \in Int, IsFiniteSet(S), Cardinality(S) <= n
  PROVE  IsFiniteSet(S \cup {x}) /\ Cardinality(S \cup {x}) <= n + 1
<1>1. IsFiniteSet(S \cup {x}) /\ Cardinality(S \cup {x}) = IF x \in S THEN Cardinality(S) ELSE Cardinality(S) + 1
  BY FS_AddElement
<1>2. Cardinality(S) \in Nat
  BY FS_CardinalityType
<1>3. Cardinality(S \cup {x}) \in {Cardinality(S), Cardinality(S) + 1}
  BY <1>1
<1>4. QED BY <1>1, <1>2, <1>3

\* There is always a file that nobody uses.
LEMMA NewFileIsNew ==
  ASSUME MemoryAssumption, TypeInv, NEW s \in Sessions, pc[s] = "open", tmp = None
  PROVE  NewFile \in Files /\ NewFile \notin InUse
<1> DEFINE n == Cardinality(Sessions)
           others == {call[u].fd : u \in Sessions \ {s}}
<1>1. IsFiniteSet(Sessions) /\ n \in Nat
  BY FS_CardinalityType DEF MemoryAssumption
<1>2. /\ IsFiniteSet(Sessions \ {s})
      /\ Cardinality(Sessions \ {s}) = n - 1
  BY <1>1, FS_RemoveElement
<1>3. IsFiniteSet(others) /\ Cardinality(others) <= n - 1
  <2> DEFINE f == [u \in Sessions \ {s} |-> call[u].fd]
  <2>1. f \in Surjection(Sessions \ {s}, others)
    BY DEF Surjection
  <2>2. QED BY <1>2, <2>1, FS_Surjection
<1>4. InUse = (others \cup {path}) \cup {None}
  BY DEF InUse, TypeInv, TypeOK
<1>5. IsFiniteSet(InUse) /\ Cardinality(InUse) <= n + 1
  <2>1. n - 1 \in Int /\ n \in Int /\ (n - 1) + 1 = n
    BY <1>1
  <2>2. IsFiniteSet(others \cup {path}) /\ Cardinality(others \cup {path}) <= (n - 1) + 1
    <3> HIDE DEF n, others
    <3>1. QED BY <1>3, <2>1, AddOne
  <2>3. IsFiniteSet(others \cup {path}) /\ Cardinality(others \cup {path}) <= n
    BY <2>1, <2>2
  <2> HIDE DEF n, others
  <2>4. QED BY <1>4, <2>1, <2>3, AddOne
<1>6. Cardinality(Files) = n + 2
  BY <1>1, FS_Interval DEF Files
<1>7. ~(Files \subseteq InUse)
  <2>1. Files \subseteq InUse => Cardinality(Files) <= Cardinality(InUse)
    BY <1>5, FS_Subset
  <2>2. Cardinality(InUse) \in Nat BY <1>5, FS_CardinalityType
  <2>3. QED BY <1>1, <1>5, <1>6, <2>1, <2>2
<1>8. \E f \in Files : f \notin InUse
  BY <1>7
<1>9. QED BY <1>8 DEF NewFile

\* A load gives facts.
LEMMA StoredType == TypeInv => Stored \in Seq(Facts) /\ Load \subseteq Seq(Facts)
BY DEF TypeInv, TypeOK, Stored, Load

\* The initial states have their types.
LEMMA TypeInit == MemoryAssumption /\ Init => TypeInv
<1> SUFFICES ASSUME MemoryAssumption, Init PROVE TypeInv
  OBVIOUS
<1>1. NoCall \in Calls
  BY DEF NoCall, Calls
<1>2. call = [s \in Sessions |-> NoCall] /\ NoCall.fd = None
  BY DEF Init, NoCall
<1>3. call \in [Sessions -> Calls] /\ \A s \in Sessions : call[s].fd = None
  BY <1>1, <1>2
<1>4. QED BY <1>3 DEF Init, Steps, TypeOK, TypeInv

\* What a step of one session has to show: its own call and place, and the files.
LEMMA TypeOfOne ==
  ASSUME TypeInv, NEW s \in Sessions, NEW c \in Calls, NEW step \in Steps,
         call' = [call EXCEPT ![s] = c], Goto(s, step),
         step # "idle" => c.content \in Facts,
         c.fd \in IF step = "write" THEN Files ELSE {None},
         inode' \in [Files -> Seq(Facts) \cup {Empty, Torn}],
         path' \in Files \cup {None}, tmp' \in Files \cup {None},
         path' # None => path' # tmp',
         kept' \in SUBSET Facts, forgotten' \in SUBSET Facts
  PROVE  TypeInv'
<1>1. pc' \in [Sessions -> Steps] /\ call' \in [Sessions -> Calls]
  BY DEF TypeInv, TypeOK, Goto
<1>2. ASSUME NEW u \in Sessions
      PROVE  /\ call'[u].fd \in IF pc'[u] = "write" THEN Files ELSE {None}
             /\ pc'[u] # "idle" => call'[u].content \in Facts
  <2>1. CASE u = s
    <3>1. call'[u] = c /\ pc'[u] = step
      BY <2>1 DEF TypeInv, TypeOK, Goto
    <3>2. QED BY <3>1
  <2>2. CASE u # s
    <3>1. call'[u] = call[u] /\ pc'[u] = pc[u]
      BY <2>2 DEF TypeInv, TypeOK, Goto
    <3>2. QED BY <3>1 DEF TypeInv, TypeOK
  <2>3. QED BY <2>1, <2>2
<1>3. QED BY <1>1, <1>2 DEF TypeInv, TypeOK

\* The steps of add up to the opening of the temporary file.
LEMMA TypeEarly ==
  ASSUME MemoryAssumption, TypeInv, NEW s \in Sessions,
         (\E fact \in Told : BeginAdd(s, fact)) \/ AlreadyKnown(s) \/ AppendNew(s)
  PROVE  TypeInv'
<1>0. call \in [Sessions -> Calls] /\ call[s] \in Calls
  BY DEF TypeInv, TypeOK
<1>1. ASSUME NEW fact \in Told, BeginAdd(s, fact) PROVE TypeInv'
  <2> DEFINE c == [call[s] EXCEPT !.content = Redact(fact)]
  <2>1. Redact(fact) \in Facts
    BY DEF MemoryAssumption, Redact, Facts
  <2>2. c \in Calls /\ c.content = Redact(fact) /\ c.fd = call[s].fd
    BY <1>0, <2>1 DEF Calls
  <2>3. call' = [call EXCEPT ![s] = c] /\ pc[s] = "idle" /\ Goto(s, "load")
    BY <1>0, <1>1 DEF BeginAdd
  <2> HIDE DEF c
  <2>4. UNCHANGED <<inode, path, tmp, kept, forgotten>> /\ "load" \in Steps /\ call[s].fd = None
    BY <1>1, <2>3 DEF BeginAdd, Steps, TypeInv, TypeOK
  <2>5. QED BY <2>1, <2>2, <2>3, <2>4, TypeOfOne DEF TypeInv, TypeOK
<1>2. CASE AlreadyKnown(s)
  <2>1. NoCall \in Calls /\ NoCall.fd = None
    BY DEF NoCall, Calls
  <2>2. /\ call' = [call EXCEPT ![s] = NoCall] /\ Goto(s, "idle") /\ "idle" \in Steps
        /\ UNCHANGED <<inode, path, tmp>> /\ kept' \in SUBSET Facts /\ forgotten' \in SUBSET Facts
    BY <1>2 DEF AlreadyKnown, Return, Steps, TypeInv, TypeOK
  <2>3. QED BY <2>1, <2>2, TypeOfOne DEF TypeInv, TypeOK
<1>3. CASE AppendNew(s)
  <2>1. PICK entries \in Load :
          /\ call' = [call EXCEPT ![s].entries = Append(entries, call[s].content)]
          /\ forgotten' = forgotten \cup (ToSet(Stored) \ ToSet(entries))
    BY <1>3 DEF AppendNew
  <2> DEFINE c == [call[s] EXCEPT !.entries = Append(entries, call[s].content)]
  <2>2. call[s].content \in Facts /\ Append(entries, call[s].content) \in Seq(Facts)
    BY <1>3, StoredType DEF AppendNew, TypeInv
  <2>3. c \in Calls /\ c.content = call[s].content /\ c.fd = call[s].fd
    BY <1>0, <2>2 DEF Calls
  <2>4. call' = [call EXCEPT ![s] = c] /\ pc[s] = "load" /\ Goto(s, "open")
    BY <1>0, <1>3, <2>1 DEF AppendNew
  <2> HIDE DEF c
  <2>5. forgotten' \in SUBSET Facts
    BY <2>1, StoredType DEF ToSet, TypeInv, TypeOK
  <2>6. UNCHANGED <<inode, path, tmp, kept>> /\ "open" \in Steps /\ call[s].fd = None
    BY <1>3, <2>4 DEF AppendNew, Steps, TypeInv, TypeOK
  <2>7. QED BY <2>2, <2>3, <2>4, <2>5, <2>6, TypeOfOne DEF TypeInv, TypeOK
<1>4. QED BY <1>1, <1>2, <1>3

\* The steps that write and rename the file.
LEMMA TypeSave ==
  ASSUME MemoryAssumption, TypeInv, NEW s \in Sessions,
         OpenTmp(s) \/ WriteTmp(s) \/ Replace(s)
  PROVE  TypeInv'
<1>0. /\ call \in [Sessions -> Calls] /\ call[s] \in Calls
      /\ inode \in [Files -> Seq(Facts) \cup {Empty, Torn}]
  BY DEF TypeInv, TypeOK
<1>1. CASE OpenTmp(s)
  <2> DEFINE f == IF tmp = None THEN NewFile ELSE tmp
             c == [call[s] EXCEPT !.fd = f]
  <2>1. f \in Files /\ f # path
    <3>1. CASE tmp = None
      BY <1>1, <3>1, NewFileIsNew DEF OpenTmp, InUse
    <3>2. CASE tmp # None
      BY <3>2 DEF TypeInv, TypeOK
    <3>3. QED BY <3>1, <3>2
  <2>2. /\ call' = [call EXCEPT ![s] = [call[s] EXCEPT !.fd = f]]
        /\ tmp' = f /\ inode' = [inode EXCEPT ![f] = Empty] /\ pc[s] = "open"
    BY <1>0, <1>1 DEF OpenTmp
  <2> HIDE DEF f
  <2>3. c \in Calls /\ c.content = call[s].content /\ c.fd = f
    BY <1>0, <2>1 DEF Calls
  <2>4. call' = [call EXCEPT ![s] = c]
    BY <2>2
  <2> HIDE DEF c
  <2>5. /\ inode' \in [Files -> Seq(Facts) \cup {Empty, Torn}]
        /\ path' = path /\ kept' = kept /\ path \in Files \cup {None} /\ kept \in SUBSET Facts
        /\ forgotten' \in SUBSET Facts
        /\ Goto(s, "write") /\ "write" \in Steps /\ c.content \in Facts
    BY <1>0, <1>1, <2>2, <2>3 DEF OpenTmp, Steps, TypeInv, TypeOK
  <2>6. QED BY <2>1, <2>2, <2>3, <2>4, <2>5, TypeOfOne
<1>2. CASE WriteTmp(s)
  <2> DEFINE c == [call[s] EXCEPT !.fd = None]
  <2>1. call' = [call EXCEPT ![s] = c] /\ pc[s] = "write" /\ Goto(s, "replace")
    BY <1>0, <1>2 DEF WriteTmp
  <2>2. c \in Calls /\ c.content = call[s].content /\ c.fd = None /\ call[s].entries \in Seq(Facts)
    BY <1>0 DEF Calls
  <2> HIDE DEF c
  <2>3. inode' \in [Files -> Seq(Facts) \cup {Empty, Torn}]
    BY <1>0, <1>2, <2>2 DEF WriteTmp, AfterWrite
  <2>4. /\ UNCHANGED <<path, tmp, kept, forgotten>> /\ "replace" \in Steps /\ c.content \in Facts
        /\ path \in Files \cup {None} /\ tmp \in Files \cup {None} /\ (path # None => path # tmp)
        /\ kept \in SUBSET Facts /\ forgotten \in SUBSET Facts
    BY <1>2, <2>1, <2>2 DEF WriteTmp, Steps, TypeInv, TypeOK
  <2>5. QED BY <2>1, <2>2, <2>3, <2>4, TypeOfOne
<1>3. CASE Replace(s)
  <2>1. NoCall \in Calls /\ NoCall.fd = None
    BY DEF NoCall, Calls
  <2>2. /\ call' = [call EXCEPT ![s] = NoCall] /\ Goto(s, "idle") /\ "idle" \in Steps
        /\ path' = tmp /\ tmp' = None /\ tmp # None /\ tmp \in Files
        /\ kept' \in SUBSET Facts /\ forgotten' \in SUBSET Facts
    BY <1>3 DEF Replace, Return, Steps, TypeInv, TypeOK
  <2>3. inode' \in [Files -> Seq(Facts) \cup {Empty, Torn}]
    BY <1>0, <1>3 DEF Replace, Unlink
  <2>4. QED BY <2>1, <2>2, <2>3, TypeOfOne
<1>4. QED BY <1>1, <1>2, <1>3

\* The steps that end an add without its fact.
LEMMA TypeLeave ==
  ASSUME TypeInv, NEW s \in Sessions, ReplaceFails(s) \/ Abort(s)
  PROVE  TypeInv'
<1>1. NoCall \in Calls /\ NoCall.fd = None
  BY DEF NoCall, Calls
<1>2. inode' \in [Files -> Seq(Facts) \cup {Empty, Torn}]
  BY DEF ReplaceFails, Abort, TypeInv, TypeOK
<1>3. /\ call' = [call EXCEPT ![s] = NoCall] /\ Goto(s, "idle") /\ "idle" \in Steps
      /\ UNCHANGED <<path, tmp, kept, forgotten>>
      /\ path \in Files \cup {None} /\ tmp \in Files \cup {None} /\ (path # None => path # tmp)
      /\ kept \in SUBSET Facts /\ forgotten \in SUBSET Facts
  BY DEF ReplaceFails, Abort, Leave, Steps, TypeInv, TypeOK
<1>4. QED BY <1>1, <1>2, <1>3, TypeOfOne

\* Every step keeps the types.
LEMMA TypeStep == MemoryAssumption /\ TypeInv /\ [Next]_vars => TypeInv'
<1> SUFFICES ASSUME MemoryAssumption, TypeInv, [Next]_vars PROVE TypeInv'
  OBVIOUS
<1>1. CASE UNCHANGED vars
  BY <1>1 DEF vars, TypeInv, TypeOK
<1>2. QED BY <1>1, TypeEarly, TypeSave, TypeLeave DEF Next

\* The type invariant of the memory store (MemoryStore.tla, TypeOK).
THEOREM MemoryType == Spec => []TypeOK
<1>1. MemoryAssumption
  BY MemoryAssumption
<1>2. TypeInv => TypeOK
  BY DEF TypeInv
<1>3. QED BY <1>1, <1>2, TypeInit, TypeStep, PTL DEF Spec

-----------------------------------------------------------------------------
(* No fact twice                                                           *)

Once(q) == \A i, j \in 1 .. Len(q) : q[i] = q[j] => i = j

\* Neither a file nor what a session is about to write has a fact twice.
OnceInv ==
  /\ \A f \in Files : inode[f] \notin {Empty, Torn} => Once(inode[f])
  /\ \A s \in Sessions : Once(call[s].entries)

\* What a load gives has no fact twice.
LEMMA StoredOnce == MemoryAssumption /\ TypeInv /\ OnceInv => Once(Stored)
<1> SUFFICES ASSUME MemoryAssumption, TypeInv, OnceInv PROVE Once(Stored)
  OBVIOUS
<1>1. CASE path = None \/ inode[path] \in {Empty, Torn}
  BY <1>1 DEF Stored, Once
<1>2. CASE path # None /\ inode[path] \notin {Empty, Torn}
  <2>1. path \in Files BY <1>2 DEF TypeInv, TypeOK
  <2>2. QED BY <1>2, <2>1 DEF Stored, OnceInv
<1>3. QED BY <1>1, <1>2

\* A fact that is not there is there once when it is appended.
LEMMA AppendOnce ==
  ASSUME NEW q \in Seq(Facts), Once(q), NEW fact \in Facts, ~Holds(q, fact)
  PROVE  Once(Append(q, fact))
<1> DEFINE r == Append(q, fact)
<1>1. /\ Len(q) \in Nat /\ Len(r) = Len(q) + 1 /\ r[Len(q) + 1] = fact
      /\ \A i \in 1 .. Len(q) : r[i] = q[i]
  OBVIOUS
<1>2. \A i \in 1 .. Len(q) : q[i] # fact
  BY DEF Holds, ToSet
<1>3. \A i \in 1 .. Len(r) : i \in 1 .. Len(q) \/ i = Len(q) + 1
  BY <1>1
<1> HIDE DEF r
<1>4. Once(r)
  BY <1>1, <1>2, <1>3 DEF Once
<1>5. QED BY <1>4 DEF r

\* Every step keeps it: what is appended was not in the file that was read, and what is
\* written is what was appended, or nothing that can be read.
LEMMA OnceStep == MemoryAssumption /\ TypeInv /\ OnceInv /\ [Next]_vars => OnceInv'
<1> SUFFICES ASSUME MemoryAssumption, TypeInv, OnceInv, [Next]_vars PROVE OnceInv'
  OBVIOUS
<1>0. /\ call \in [Sessions -> Calls]
      /\ inode \in [Files -> Seq(Facts) \cup {Empty, Torn}]
  BY DEF TypeInv, TypeOK
<1>1. Once(NoCall.entries)
  BY DEF NoCall, Once
<1>2. CASE UNCHANGED vars
  BY <1>2 DEF vars, OnceInv
<1>3. ASSUME NEW s \in Sessions, NEW fact \in Told, BeginAdd(s, fact) PROVE OnceInv'
  <2>1. inode' = inode /\ \A u \in Sessions : call'[u].entries = call[u].entries
    BY <1>0, <1>3 DEF BeginAdd, Calls
  <2>2. QED BY <2>1 DEF OnceInv
<1>4. ASSUME NEW s \in Sessions, AlreadyKnown(s) PROVE OnceInv'
  <2>1. inode' = inode /\ call' = [call EXCEPT ![s] = NoCall]
    BY <1>4 DEF AlreadyKnown, Return
  <2>2. QED BY <1>0, <1>1, <2>1 DEF OnceInv
<1>5. ASSUME NEW s \in Sessions, AppendNew(s) PROVE OnceInv'
  <2>1. PICK entries \in Load :
          /\ ~Holds(entries, call[s].content)
          /\ call' = [call EXCEPT ![s].entries = Append(entries, call[s].content)]
    BY <1>5 DEF AppendNew
  <2>2. entries \in Seq(Facts) /\ Once(entries) /\ call[s].content \in Facts
    <3>1. Once(<<>>) /\ Once(Stored)
      BY StoredOnce DEF Once
    <3>2. Once(entries)
      BY <3>1 DEF Load
    <3>3. QED BY <1>5, <3>2, StoredType DEF AppendNew, TypeInv
  <2>3. Once(Append(entries, call[s].content))
    BY <2>1, <2>2, AppendOnce
  <2>4. /\ inode' = inode
        /\ \A u \in Sessions : call'[u].entries = IF u = s THEN Append(entries, call[s].content)
                                                 ELSE call[u].entries
    <3>1. inode' = inode
      BY <1>5 DEF AppendNew
    <3> DEFINE r == Append(entries, call[s].content)
    <3>2. call' = [call EXCEPT ![s].entries = r]
      BY <2>1
    <3> HIDE DEF r
    <3>3. \A u \in Sessions : call'[u].entries = IF u = s THEN r ELSE call[u].entries
      BY <1>0, <3>2 DEF Calls
    <3>4. QED BY <3>1, <3>3 DEF r
  <2>5. QED BY <2>3, <2>4 DEF OnceInv
<1>6. ASSUME NEW s \in Sessions, OpenTmp(s) PROVE OnceInv'
  <2>1. /\ \A u \in Sessions : call'[u].entries = call[u].entries
        /\ \A f \in Files : inode'[f] \in {inode[f], Empty}
    BY <1>0, <1>6 DEF OpenTmp, Calls
  <2>2. QED BY <2>1 DEF OnceInv
<1>7. ASSUME NEW s \in Sessions, WriteTmp(s) PROVE OnceInv'
  <2>1. /\ \A u \in Sessions : call'[u].entries = call[u].entries
        /\ \A f \in Files : inode'[f] \in {inode[f], Torn, call[s].entries}
    BY <1>0, <1>7 DEF WriteTmp, AfterWrite, Calls
  <2>2. QED BY <2>1 DEF OnceInv
<1>8. ASSUME NEW s \in Sessions, Replace(s) \/ ReplaceFails(s) \/ Abort(s) PROVE OnceInv'
  <2>1. call' = [call EXCEPT ![s] = NoCall]
    BY <1>8 DEF Replace, Return, ReplaceFails, Abort, Leave
  <2>2. \A f \in Files : inode'[f] \in {inode[f], Empty, Torn}
    BY <1>0, <1>8 DEF Replace, Unlink, ReplaceFails, Abort
  <2>3. QED BY <1>0, <1>1, <2>1, <2>2 DEF OnceInv
<1>9. QED BY <1>2, <1>3, <1>4, <1>5, <1>6, <1>7, <1>8 DEF Next

\* However many sessions save over each other, wherever one of them stops and whatever a torn
\* file held, no fact is remembered twice (store.py:76; MemoryStore.tla, NoDuplicates).
THEOREM MemoryNoDuplicates == Spec => []NoDuplicates
<1>1. MemoryAssumption
  BY MemoryAssumption
<1>2. MemoryAssumption /\ Init => OnceInv
  BY DEF Init, OnceInv, NoCall, Once
<1>3. MemoryAssumption /\ TypeInv /\ OnceInv => NoDuplicates
  BY StoredOnce, StoredType DEF Once, NoDuplicates
<1>4. QED BY <1>1, <1>2, <1>3, TypeInit, TypeStep, OnceStep, PTL DEF Spec

-----------------------------------------------------------------------------
(* One add at a time                                                       *)

\* The facts that are in the file, but for those a failed read has given up.
Durable == \A fact \in kept \ forgotten : Holds(Stored, fact)

\* What an add has prepared while no other is in progress: what it read, which is the file or
\* nothing, with its fact, in a temporary file that is not the file itself.
Prepared(s) ==
  /\ pc[s] \in {"open", "write", "replace"} =>
       \E entries \in Load :
         /\ call[s].entries = Append(entries, call[s].content)
         /\ ToSet(Stored) \ ToSet(entries) \subseteq forgotten
  /\ pc[s] = "write" => tmp # None /\ call[s].fd = tmp /\ inode[tmp] = Empty
  /\ pc[s] = "replace" => tmp # None /\ inode[tmp] = call[s].entries

Alone == \A s, u \in Sessions : pc[s] # "idle" /\ pc[u] # "idle" => s = u

SerialInv == overlap \/ (Alone /\ FileComplete /\ Durable /\ \A s \in Sessions : Prepared(s))

\* What is held after appending a fact.
LEMMA HoldsAppended ==
  ASSUME NEW q \in Seq(Facts), NEW fact \in Facts
  PROVE  /\ Holds(Append(q, fact), fact)
         /\ \A x : Holds(q, x) => Holds(Append(q, fact), x)
<1> DEFINE r == Append(q, fact)
<1>1. /\ Len(q) \in Nat /\ Len(r) = Len(q) + 1 /\ r[Len(q) + 1] = fact
      /\ \A i \in 1 .. Len(q) : r[i] = q[i]
      /\ DOMAIN q = 1 .. Len(q) /\ DOMAIN r = 1 .. Len(q) + 1
  OBVIOUS
<1> HIDE DEF r
<1>2. Holds(r, fact) /\ \A x : Holds(q, x) => Holds(r, x)
  BY <1>1 DEF Holds, ToSet
<1>3. QED BY <1>2 DEF r

\* Steps of a session that is alone: the others stay idle, and the file with what is kept
\* shows whether the facts are durable.
LEMMA SerialOfOne ==
  ASSUME TypeInv, NEW s \in Sessions, NEW step \in Steps, NEW c \in Calls,
         \A u \in Sessions \ {s} : pc[u] = "idle",
         Goto(s, step), call' = [call EXCEPT ![s] = c],
         FileComplete', Durable',
         Prepared(s)'
  PROVE  SerialInv'
<1>1. \A u \in Sessions \ {s} : pc'[u] = "idle"
  BY DEF Goto, TypeInv, TypeOK
<1>2. Alone'
  BY <1>1 DEF Alone
<1>3. \A u \in Sessions \ {s} : Prepared(u)'
  BY <1>1 DEF Prepared
<1>4. QED BY <1>2, <1>3 DEF SerialInv

\* The beginning of an add is the only step that may find another in progress.
LEMMA SerialBegin ==
  ASSUME MemoryAssumption, TypeInv, SerialInv, NEW s \in Sessions, NEW fact \in Told,
         BeginAdd(s, fact), ~overlap'
  PROVE  SerialInv'
<1> DEFINE c == [call[s] EXCEPT !.content = Redact(fact)]
<1>1. /\ ~overlap /\ \A u \in Sessions : pc[u] = "idle"
      /\ UNCHANGED <<inode, path, tmp, kept, forgotten>>
  BY DEF BeginAdd
<1>2. FileComplete' /\ Durable'
  BY <1>1 DEF SerialInv, FileComplete, Durable, Stored
<1>3. /\ Goto(s, "load") /\ "load" \in Steps /\ pc'[s] = "load"
      /\ call \in [Sessions -> Calls] /\ call' = [call EXCEPT ![s] = c]
  BY DEF BeginAdd, Goto, Steps, TypeInv, TypeOK
<1>4. c \in Calls
  <2>1. Redact(fact) \in Facts
    BY DEF MemoryAssumption, Redact, Facts
  <2>2. QED BY <1>3, <2>1 DEF Calls
<1>5. Prepared(s)'
  BY <1>3 DEF Prepared
<1> HIDE DEF c
<1>6. QED BY <1>1, <1>2, <1>3, <1>4, <1>5, SerialOfOne

\* The other steps of an add that is alone.
LEMMA SerialAdd ==
  ASSUME MemoryAssumption, TypeInv, SerialInv, NEW s \in Sessions, ~overlap, ~overlap',
         AlreadyKnown(s) \/ AppendNew(s) \/ OpenTmp(s) \/ WriteTmp(s)
           \/ Replace(s) \/ ReplaceFails(s) \/ Abort(s)
  PROVE  SerialInv'
<1>1. pc[s] # "idle"
  BY DEF AlreadyKnown, AppendNew, OpenTmp, WriteTmp, Replace, ReplaceFails, Abort
<1>2. /\ \A u \in Sessions \ {s} : pc[u] = "idle"
      /\ FileComplete /\ Durable /\ Prepared(s)
  BY <1>1 DEF SerialInv, Alone
<1>3. /\ call \in [Sessions -> Calls] /\ call[s] \in Calls /\ pc \in [Sessions -> Steps]
      /\ inode \in [Files -> Seq(Facts) \cup {Empty, Torn}]
      /\ path \in Files \cup {None} /\ tmp \in Files \cup {None} /\ (path # None => path # tmp)
      /\ Stored \in Seq(Facts) /\ Load \subseteq Seq(Facts) /\ call[s].content \in Facts
      /\ call[s].entries \in Seq(Facts)
  BY <1>1, StoredType DEF TypeInv, TypeOK, Calls
<1>4. NoCall \in Calls /\ {"idle", "open", "write", "replace"} \subseteq Steps
  BY DEF NoCall, Calls, Steps
<1>5. CASE AlreadyKnown(s)
  <2>1. /\ UNCHANGED <<inode, path>> /\ kept' = kept \cup {call[s].content}
        /\ forgotten' = forgotten \ {call[s].content}
        /\ Goto(s, "idle") /\ call' = [call EXCEPT ![s] = NoCall] /\ pc'[s] = "idle"
        /\ Holds(Stored, call[s].content)
    BY <1>3, <1>5 DEF AlreadyKnown, Return, Goto
  <2>2. FileComplete' /\ Durable' /\ Prepared(s)'
    BY <1>2, <2>1 DEF FileComplete, Durable, Stored, Prepared
  <2>3. QED BY <1>2, <1>4, <2>1, <2>2, SerialOfOne
<1>6. CASE AppendNew(s)
  <2>1. PICK entries \in Load :
          /\ call' = [call EXCEPT ![s].entries = Append(entries, call[s].content)]
          /\ forgotten' = forgotten \cup (ToSet(Stored) \ ToSet(entries))
    BY <1>6 DEF AppendNew
  <2> DEFINE c == [call[s] EXCEPT !.entries = Append(entries, call[s].content)]
  <2>2. /\ UNCHANGED <<inode, path, tmp, kept>>
        /\ Goto(s, "open") /\ call' = [call EXCEPT ![s] = c] /\ pc'[s] = "open"
    BY <1>3, <1>6, <2>1 DEF AppendNew, Goto
  <2>3. Append(entries, call[s].content) \in Seq(Facts)
    BY <1>3
  <2>4. /\ c \in Calls /\ c.content = call[s].content
        /\ c.entries = Append(entries, call[s].content)
    BY <1>3, <2>3 DEF Calls
  <2> HIDE DEF c
  <2>5. call'[s] = c /\ Stored' = Stored /\ Load' = Load
    BY <1>3, <2>2 DEF Stored, Load
  <2>6. FileComplete' /\ Durable'
    BY <1>2, <2>1, <2>2, <2>5 DEF FileComplete, Durable
  <2>7. Prepared(s)'
    BY <2>1, <2>2, <2>4, <2>5 DEF Prepared
  <2>8. QED BY <1>2, <1>4, <2>2, <2>4, <2>6, <2>7, SerialOfOne
<1>7. CASE OpenTmp(s)
  <2> DEFINE f == IF tmp = None THEN NewFile ELSE tmp
             c == [call[s] EXCEPT !.fd = f]
  <2>1. f \in Files /\ f # path /\ f # None
    <3>1. CASE tmp = None
      BY <1>7, <3>1, NewFileIsNew DEF OpenTmp, InUse
    <3>2. CASE tmp # None
      BY <1>3, <3>2
    <3>3. QED BY <3>1, <3>2
  <2>2. /\ call' = [call EXCEPT ![s] = [call[s] EXCEPT !.fd = f]]
        /\ tmp' = f /\ inode' = [inode EXCEPT ![f] = Empty] /\ pc[s] = "open"
        /\ UNCHANGED <<path, kept, forgotten>> /\ Goto(s, "write") /\ pc'[s] = "write"
    BY <1>3, <1>7 DEF OpenTmp, Goto
  <2> HIDE DEF f
  <2>3. /\ c \in Calls /\ c.content = call[s].content /\ c.fd = f
        /\ c.entries = call[s].entries
    BY <1>3, <2>1 DEF Calls
  <2>4. call' = [call EXCEPT ![s] = c]
    BY <2>2
  <2> HIDE DEF c
  <2>5. /\ call'[s] = c /\ inode'[f] = Empty
        /\ path # None => inode'[path] = inode[path]
    BY <1>3, <2>1, <2>2, <2>4
  <2>6. Stored' = Stored /\ Load' = Load
    BY <2>2, <2>5 DEF Stored, Load
  <2>7. FileComplete' /\ Durable' /\ Prepared(s)'
    BY <1>2, <2>1, <2>2, <2>3, <2>5, <2>6 DEF FileComplete, Durable, Prepared
  <2>8. QED BY <1>2, <1>4, <2>2, <2>3, <2>4, <2>7, SerialOfOne
<1>8. CASE WriteTmp(s)
  <2> DEFINE c == [call[s] EXCEPT !.fd = None]
  <2>1. /\ pc[s] = "write" /\ tmp # None /\ tmp \in Files /\ call[s].fd = tmp /\ inode[tmp] = Empty
    BY <1>2, <1>3, <1>8 DEF WriteTmp, Prepared
  <2>2. /\ call' = [call EXCEPT ![s] = c] /\ pc'[s] = "replace" /\ Goto(s, "replace")
        /\ UNCHANGED <<path, tmp, kept, forgotten>>
        /\ inode' = [inode EXCEPT ![tmp] = call[s].entries]
    BY <1>3, <1>8, <2>1 DEF WriteTmp, AfterWrite, Goto
  <2>3. c \in Calls /\ c.content = call[s].content /\ c.entries = call[s].entries
    BY <1>3 DEF Calls
  <2> HIDE DEF c
  <2>4. /\ call'[s] = c /\ inode'[tmp] = call[s].entries
        /\ path # None => inode'[path] = inode[path]
    BY <1>3, <2>1, <2>2
  <2>5. Stored' = Stored /\ Load' = Load
    BY <2>2, <2>4 DEF Stored, Load
  <2>6. FileComplete' /\ Durable' /\ Prepared(s)'
    BY <1>2, <2>1, <2>2, <2>3, <2>4, <2>5 DEF FileComplete, Durable, Prepared
  <2>7. QED BY <1>2, <1>4, <2>2, <2>3, <2>6, SerialOfOne
<1>9. CASE Replace(s)
  <2>1. PICK entries \in Load :
          /\ pc[s] = "replace" /\ tmp # None /\ tmp \in Files /\ inode[tmp] = call[s].entries
          /\ call[s].entries = Append(entries, call[s].content)
          /\ ToSet(Stored) \ ToSet(entries) \subseteq forgotten
    BY <1>2, <1>3, <1>9 DEF Replace, Prepared
  <2>2. /\ path' = tmp /\ kept' = kept \cup {call[s].content}
        /\ forgotten' = forgotten \ {call[s].content}
        /\ call' = [call EXCEPT ![s] = NoCall] /\ Goto(s, "idle") /\ pc'[s] = "idle"
        /\ inode'[tmp] = inode[tmp]
    BY <1>3, <1>9, <2>1 DEF Replace, Return, Goto, Unlink
  <2>3. inode'[path'] = call[s].entries /\ call[s].entries \notin {Empty, Torn}
    BY <1>3, <2>1, <2>2 DEF MemoryAssumption
  <2>4. Stored' = Append(entries, call[s].content)
    BY <2>1, <2>2, <2>3 DEF Stored
  <2>5. \A fact \in kept \ forgotten : Holds(entries, fact)
    BY <1>2, <2>1 DEF Durable, Holds
  <2>a. /\ Holds(Append(entries, call[s].content), call[s].content)
        /\ \A x : Holds(entries, x) => Holds(Append(entries, call[s].content), x)
    BY <1>3, HoldsAppended
  <2>6. Durable'
    <3> SUFFICES ASSUME NEW fact \in kept', fact \notin forgotten'
                 PROVE  Holds(Append(entries, call[s].content), fact)
      BY <2>4 DEF Durable
    <3>1. QED BY <2>2, <2>5, <2>a
  <2>7. FileComplete' /\ Prepared(s)'
    BY <2>2, <2>3 DEF FileComplete, Prepared
  <2>8. QED BY <1>2, <1>4, <2>2, <2>6, <2>7, SerialOfOne
<1>10. CASE ReplaceFails(s) \/ Abort(s)
  <2>1. /\ UNCHANGED <<path, tmp, kept, forgotten>>
        /\ call' = [call EXCEPT ![s] = NoCall] /\ Goto(s, "idle") /\ pc'[s] = "idle"
    BY <1>3, <1>10 DEF ReplaceFails, Abort, Leave, Goto
  <2>2. path # None => inode'[path] = inode[path]
    BY <1>2, <1>3, <1>10 DEF ReplaceFails, Abort, Prepared
  <2>3. Stored' = Stored
    BY <2>1, <2>2 DEF Stored
  <2>4. FileComplete' /\ Durable' /\ Prepared(s)'
    BY <1>2, <2>1, <2>2, <2>3 DEF FileComplete, Durable, Prepared
  <2>5. QED BY <1>2, <1>4, <2>1, <2>4, SerialOfOne
<1>11. QED BY <1>5, <1>6, <1>7, <1>8, <1>9, <1>10

\* Every step keeps it, or is the one at which adds begin to overlap.
LEMMA SerialStep == MemoryAssumption /\ TypeInv /\ SerialInv /\ [Next]_vars => SerialInv'
<1> SUFFICES ASSUME MemoryAssumption, TypeInv, SerialInv, [Next]_vars, ~overlap' PROVE SerialInv'
  BY DEF SerialInv
<1>1. CASE UNCHANGED vars
  BY <1>1 DEF vars, SerialInv, Alone, FileComplete, Durable, Stored, Load, Prepared
<1>2. ASSUME NEW s \in Sessions,
             AlreadyKnown(s) \/ AppendNew(s) \/ OpenTmp(s) \/ WriteTmp(s)
               \/ Replace(s) \/ ReplaceFails(s) \/ Abort(s)
      PROVE  SerialInv'
  <2>1. ~overlap
    BY <1>2 DEF AlreadyKnown, AppendNew, OpenTmp, WriteTmp, Replace, ReplaceFails, Abort, Leave
  <2>2. QED BY <1>2, <2>1, SerialAdd
<1>3. QED BY <1>1, <1>2, SerialBegin DEF Next

\* As long as adds do not overlap, wherever one of them stops or fails, the file is a complete
\* document and has every fact whose add returned, but for those that a later add did not see
\* because its read failed (store.py:56, 63, memory/__init__.py:3;
\* MemoryStore.tla, SerialDurableFacts).
THEOREM MemorySerialDurability == Spec => []SerialDurableFacts
<1>1. MemoryAssumption
  BY MemoryAssumption
<1>2. Init => SerialInv
  BY DEF Init, SerialInv, Alone, FileComplete, Durable, Prepared
<1>3. SerialInv => SerialDurableFacts
  BY DEF SerialInv, SerialDurableFacts, Durable
<1>4. QED BY <1>1, <1>2, <1>3, TypeInit, TypeStep, SerialStep, PTL DEF Spec

-----------------------------------------------------------------------------
(* Search                                                                  *)

\* Of two entries that score, one comes before the other, and what comes before it comes
\* before what follows it.
LEMMA SoonerIs ==
  ASSUME MemoryAssumption, NEW query \in Queries, NEW entries \in Seq(Facts)
  PROVE  LET S == Scored(query, entries) IN
         /\ \A i \in S : ~Sooner(query, entries, i, i)
         /\ \A i, j \in S : i # j => Sooner(query, entries, i, j) \/ Sooner(query, entries, j, i)
         /\ \A i, j, k \in S : Sooner(query, entries, i, j) /\ Sooner(query, entries, j, k)
                                => Sooner(query, entries, i, k)
<1> DEFINE S == Scored(query, entries)  value == [i \in S |-> query[entries[i].topic]]
<1>1. \A i \in S : i \in Nat /\ value[i] \in Nat
  <2>1. ASSUME NEW i \in S PROVE i \in Nat /\ entries[i] \in Facts
    BY DEF Scored
  <2>2. \A f \in Facts : f.topic \in Topics
    BY DEF Facts
  <2>3. query \in [Topics -> Nat]
    BY DEF MemoryAssumption
  <2>4. QED BY <2>1, <2>2, <2>3
<1>2. \A i, j \in S : Sooner(query, entries, i, j) <=> value[i] > value[j] \/ (value[i] = value[j] /\ i > j)
  BY DEF Sooner
<1> HIDE DEF S, value
<1>3. QED BY <1>1, <1>2 DEF S

\* A ranking has each of them at its place.
LEMMA RankingIs ==
  ASSUME MemoryAssumption, NEW query \in Queries, NEW entries \in Seq(Facts)
  PROVE  LET S == Scored(query, entries)  n == Cardinality(S)  rank == Ranking(query, entries) IN
         /\ n \in Nat /\ rank \in [1 .. n -> S]
         /\ \A i \in S : \E p \in 1 .. n : rank[p] = i
         /\ \A p, q \in 1 .. n : p < q => Sooner(query, entries, rank[p], rank[q])
<1> DEFINE S == Scored(query, entries)  n == Cardinality(S)  rank == Ranking(query, entries)
           Ahead(i, j) == Sooner(query, entries, i, j)
           Before(i) == {j \in S : Ahead(j, i)}
           place == [i \in S |-> Cardinality(Before(i))]
<1>1. IsFiniteSet(S) /\ n \in Nat
  <2>1. S \subseteq 1 .. Len(entries) /\ Len(entries) \in Int
    BY DEF Scored
  <2>2. IsFiniteSet(1 .. Len(entries))
    BY <2>1, FS_Interval
  <2>3. QED BY <2>1, <2>2, FS_Subset, FS_CardinalityType
<1>2. /\ \A i \in S : ~Ahead(i, i)
      /\ \A i, j \in S : i # j => Ahead(i, j) \/ Ahead(j, i)
      /\ \A i, j, k \in S : Ahead(i, j) /\ Ahead(j, k) => Ahead(i, k)
  BY SoonerIs
<1>3. rank = [p \in 1 .. n |-> CHOOSE i \in S : Place(query, entries, i) = p - 1]
  BY DEF Ranking
<1>4. \A i \in S : Place(query, entries, i) = place[i]
  BY DEF Place
<1> HIDE DEF S, n, rank, Ahead
<1>5. \A i \in S : IsFiniteSet(Before(i)) /\ Cardinality(Before(i)) \in Nat
  BY <1>1, FS_Subset, FS_CardinalityType
<1>6. ASSUME NEW i \in S, NEW j \in S, Ahead(i, j) PROVE place[i] < place[j]
  <2>1. Before(i) \subseteq Before(j) /\ i \in Before(j) /\ i \notin Before(i)
    BY <1>2, <1>6
  <2> HIDE DEF Before
  <2>2. Cardinality(Before(i)) <= Cardinality(Before(j)) /\ Cardinality(Before(i)) # Cardinality(Before(j))
    BY <1>5, <2>1, FS_Subset
  <2>3. QED BY <1>5, <2>2
<1>7. \A i \in S : place[i] \in 0 .. n - 1
  <2>1. ASSUME NEW i \in S PROVE Cardinality(Before(i)) \in 0 .. n - 1
    <3>1. Before(i) \subseteq S /\ i \notin Before(i)
      BY <1>2
    <3> HIDE DEF Before
    <3>2. Cardinality(Before(i)) <= Cardinality(S) /\ Cardinality(Before(i)) # Cardinality(S)
      BY <1>1, <3>1, FS_Subset
    <3>3. QED BY <1>1, <1>5, <3>2 DEF n
  <2> HIDE DEF Before
  <2>2. QED BY <2>1
<1> HIDE DEF Before
<1>8. \A i, j \in S : place[i] = place[j] => i = j
  <2>1. \A i \in S : place[i] \in Int
    BY <1>7
  <2> HIDE DEF place
  <2>2. QED BY <1>2, <1>6, <2>1
<1> DEFINE I == {place[i] : i \in S}
<1>9. I = 0 .. n - 1
  <2>1. I \subseteq 0 .. n - 1
    BY <1>7
  <2>2. IsFiniteSet(0 .. n - 1) /\ Cardinality(0 .. n - 1) = n
    BY <1>1, FS_Interval
  <2>3. Cardinality(I) = n
    <3>1. place \in Surjection(S, I) /\ place \in Injection(S, I)
      <4>1. place = [i \in S |-> place[i]]
        OBVIOUS
      <4> HIDE DEF place
      <4>2. place \in [S -> I]
        BY <4>1
      <4>3. QED BY <1>8, <4>2 DEF Surjection, Injection, IsInjective
    <3>2. ExistsBijection(S, I)
      BY <3>1 DEF ExistsBijection, Bijection
    <3> HIDE DEF I
    <3>3. QED BY <1>1, <3>2, FS_Bijection DEF n
  <2> HIDE DEF I
  <2>4. QED BY <2>1, <2>2, <2>3, FS_Subset
<1> HIDE DEF place
<1>10. ASSUME NEW p \in 1 .. n PROVE rank[p] \in S /\ place[rank[p]] = p - 1
  <2>1. PICK i \in S : place[i] = p - 1
    <3>1. p - 1 \in 0 .. n - 1
      BY <1>1
    <3>2. QED BY <1>9, <3>1
  <2>2. \E j \in S : Place(query, entries, j) = p - 1
    BY <1>4, <2>1
  <2>3. rank[p] = CHOOSE j \in S : Place(query, entries, j) = p - 1
    BY <1>3
  <2>4. rank[p] \in S /\ Place(query, entries, rank[p]) = p - 1
    BY <2>2, <2>3, Zenon
  <2>5. QED BY <1>4, <2>4
<1>11. rank \in [1 .. n -> S]
  BY <1>3, <1>10
<1>12. ASSUME NEW i \in S PROVE \E p \in 1 .. n : rank[p] = i
  <2>1. PICK p \in 1 .. n : p - 1 = place[i]
    <3>1. place[i] \in 0 .. n - 1
      BY <1>7
    <3>2. place[i] + 1 \in 1 .. n /\ (place[i] + 1) - 1 = place[i]
      BY <1>1, <3>1
    <3>3. QED BY <3>2
  <2>2. QED BY <1>8, <1>10, <2>1
<1>13. ASSUME NEW p \in 1 .. n, NEW q \in 1 .. n, p < q PROVE Ahead(rank[p], rank[q])
  <2>1. /\ rank[p] \in S /\ rank[q] \in S
        /\ place[rank[p]] = p - 1 /\ place[rank[q]] = q - 1
    BY <1>10
  <2>2. p - 1 # q - 1 /\ ~(q - 1 < p - 1)
    BY <1>1, <1>13
  <2>3. QED BY <1>2, <1>6, <2>1, <2>2
<1>14. QED BY <1>1, <1>11, <1>12, <1>13 DEF S, n, rank, Ahead

\* For any query, any limit and whatever a search has read: the entries it answers match, are
\* in the order of score and then age, and no more than the limit; an entry that matches and
\* is left out would have come after all of a full answer (store.py:97, "newest first on
\* ties"; MemoryStore.tla, SearchRanks).
THEOREM MemorySearchRanks == Spec => []SearchRanks
<1>1. MemoryAssumption
  BY MemoryAssumption
<1>2. MemoryAssumption /\ TypeInv => SearchRanks
  <2> SUFFICES ASSUME MemoryAssumption, TypeInv,
                      NEW query \in Queries, NEW limit \in Limits, NEW entries \in Load
               PROVE  LET hits         == Hits(query, entries, limit)
                          Value(i)     == query[entries[i].topic]
                          Better(i, j) == Value(i) > Value(j) \/ (Value(i) = Value(j) /\ i > j)
                      IN /\ Len(hits) <= limit
                         /\ \A p \in DOMAIN hits : hits[p] \in DOMAIN entries /\ Value(hits[p]) > 0
                         /\ \A p, q \in DOMAIN hits : p < q => Better(hits[p], hits[q])
                         /\ \A i \in DOMAIN entries : i \notin ToSet(hits) /\ Value(i) > 0 =>
                              Len(hits) = limit /\ \A p \in DOMAIN hits : Better(hits[p], i)
    BY Zenon DEF SearchRanks
  <2> DEFINE S == Scored(query, entries)  n == Cardinality(S)  rank == Ranking(query, entries)
             hits == Hits(query, entries, limit)
             Ahead(i, j) == Sooner(query, entries, i, j)
  <2>0. entries \in Seq(Facts) /\ limit \in Nat
    BY StoredType DEF MemoryAssumption
  <2>1. /\ n \in Nat /\ rank \in [1 .. n -> S]
        /\ \A e \in S : \E p \in 1 .. n : rank[p] = e
        /\ \A p, q \in 1 .. n : p < q => Ahead(rank[p], rank[q])
    BY <2>0, RankingIs
  <2>2. \A i : i \in S <=> i \in DOMAIN entries /\ query[entries[i].topic] > 0
    BY DEF Scored
  <2>3. hits = SubSeq(rank, 1, IF Len(rank) < limit THEN Len(rank) ELSE limit)
    BY DEF Hits
  <2>a. ASSUME NEW i, NEW j
        PROVE  Ahead(i, j) <=> \/ query[entries[i].topic] > query[entries[j].topic]
                               \/ query[entries[i].topic] = query[entries[j].topic] /\ i > j
    BY DEF Sooner
  <2> HIDE DEF S, n, rank, hits, Ahead
  <2>4. Len(rank) = n /\ rank \in Seq(S)
    BY <2>1
  <2>5. PICK k \in 0 .. n : k = (IF n < limit THEN n ELSE limit)
    BY <2>0, <2>1
  <2>6. /\ hits = SubSeq(rank, 1, k)
        /\ Len(hits) = k /\ DOMAIN hits = 1 .. k /\ \A p \in 1 .. k : hits[p] = rank[p]
    <3>1. hits = SubSeq(rank, 1, k)
      BY <2>3, <2>4, <2>5
    <3>2. QED BY <2>1, <2>4, <3>1
  <2>7. Len(hits) <= limit
    BY <2>0, <2>1, <2>5, <2>6
  <2>b. \A p \in 1 .. k : p \in 1 .. n
    BY <2>1
  <2>8. \A p \in DOMAIN hits : hits[p] \in S
    BY <2>1, <2>6, <2>b
  <2>9. \A p, q \in DOMAIN hits : p < q => Ahead(hits[p], hits[q])
    BY <2>1, <2>6, <2>b
  <2>10. ASSUME NEW i \in S, i \notin ToSet(hits)
         PROVE  Len(hits) = limit /\ \A p \in DOMAIN hits : Ahead(hits[p], i)
    <3>1. PICK q \in 1 .. n : rank[q] = i
      BY <2>1
    <3>2. ~(q <= k)
      <4>1. q <= k => q \in 1 .. k
        BY <2>1
      <4>2. QED BY <2>6, <2>10, <3>1, <4>1 DEF ToSet
    <3>3. k = limit
      BY <2>1, <2>5, <3>2
    <3>4. \A p \in 1 .. k : p < q
      BY <2>1, <3>2
    <3>5. QED BY <2>1, <2>6, <2>b, <3>1, <3>3, <3>4
  <2>11. QED BY <2>2, <2>7, <2>8, <2>9, <2>10, <2>a DEF hits
<1>3. QED BY <1>1, <1>2, TypeInit, TypeStep, PTL DEF Spec
=============================================================================
